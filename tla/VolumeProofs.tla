---------------------------- MODULE VolumeProofs ----------------------------
(***************************************************************************)
(* What an MBFS volume promises, whatever its sizes and wherever a command *)
(* is interrupted, in two parts.                                           *)
(*                                                                         *)
(* In memory: every table stays within its bounds, and no command gives a  *)
(* sector to two files.  Both are statements about the tables as they are  *)
(* now, before every sector write to come and at the end of the command,   *)
(* so they are one invariant, VolumeWithin(M), for a set M of tables: all  *)
(* well-formed ones for the first, those that are also Sound for the       *)
(* second.  Every change of the tables replaces one inode at most, and     *)
(* ChangedWithin says when it stays within M.                              *)
(*                                                                         *)
(* On the disk: a command that starts on a healthy volume leaves the other *)
(* files readable at each of its writes, marks the disk unclean while it   *)
(* is not consistent, and has done all it was asked for when it reports    *)
(* success.  These are one invariant as well, Progress: each write still   *)
(* to come has been planned so (Planned, and RepairPlanned for             *)
(* diskfs_repair).  A command changes one inode and one directory entry,   *)
(* and Nearby are the disks that have some of that; paths that do not      *)
(* begin with the command's path read the same on all of them.             *)
(***************************************************************************)
EXTENDS Volume, FiniteSetTheorems, SequenceTheorems, WellFoundedInduction, TLAPS

SoundMemory == {m \in Memory : Sound(m)}
TableSet(M) == M = Memory \/ M = SoundMemory

Span(n) == n.start .. n.start + n.len - 1

\* Inode n may replace inode i of m if the bitmap becomes map.
Fits(m, i, n, map) ==
    /\ Span(n) \subseteq map
    /\ \A j \in Inodes \ {i} : Extent(m, j) \subseteq map /\ Extent(m, j) \cap Span(n) = {}

Writing(M) == Seq([mem : M, disk : Disk])

CommandWithin(o, M) ==
    /\ DOMAIN o = {"kind", "goal", "path", "todo", "rest", "off", "cleared", "end", "ok", "sound", "want"}
    /\ o.todo \in Writing(M)
    /\ o.end \in M
    /\ o.off \in 0 .. MaxOffset
    /\ o.goal \in Seq(Names)

Descriptor == [open : BOOLEAN, inode : 0 .. MaxInode, off : 0 .. MaxOffset]

VolumeWithin(M) ==
    /\ mem \in M
    /\ CommandWithin(op, M)
    /\ disk \in Disk
    /\ fd \in Descriptor /\ (fd.open => fd.inode \in Inodes)
    /\ faults \in 0 .. MaxFaults

-----------------------------------------------------------------------------
(* Least members and first runs.                                           *)

\* A nonempty set of naturals has a least member.
LEMMA LeastNatural ==
    ASSUME NEW T \in SUBSET Nat, T # {}
    PROVE  LeastOf(T) \in T /\ \A j \in T : LeastOf(T) <= j
<1> DEFINE R == OpToRel(<, Nat)
<1>1. IsWellFoundedOn(R, Nat)
  BY NatLessThanWellFounded, Zenon
<1>2. \A i, j \in T : j < i => <<j, i>> \in R
  BY DEF OpToRel
<1> HIDE DEF R
<1>3. PICK i \in T : \A j \in T : ~(<<j, i>> \in R)
  BY <1>1, WFMin, Zenon
<1>4. \A j \in T : ~(j < i)
  BY <1>2, <1>3
<1>5. \A j \in T : i <= j
  BY <1>4
<1> QED
  BY <1>5 DEF LeastOf

\* The slot, inode or sector a search stops at is one of those searched for.
LEMMA FirstFound ==
    ASSUME VolumeSizes
    PROVE  /\ \A S \in SUBSET Slots : S # {} => LeastOf(S) \in S
           /\ \A S \in SUBSET Inodes : S # {} => LeastOf(S) \in S
           /\ \A S \in SUBSET Sectors : S # {} => LeastOf(S) \in S
BY LeastNatural DEF Slots, Inodes, Sectors

\* mbfs_alloc_extent returns a run of free sectors inside the data area.
LEMMA RunFound ==
    ASSUME NEW map \in SUBSET Sectors, NEW n \in Nat, HasRoom(map, n)
    PROVE  LET s == FirstRun(map, n)
           IN  /\ s \in 0 .. MaxSector /\ n \in 0 .. MaxSector
               /\ n # 0 => s \in Sectors /\ s + n - 1 \in Sectors
               /\ RunSet(s, n) \subseteq Sectors
               /\ RunSet(s, n) \cap map = {}
<1>1. CASE n = 0
  BY <1>1, VolumeSizes DEF FirstRun, RunSet, Sectors
<1>2. CASE n # 0
  <2>1. FirstRun(map, n) \in Runs(map, n)
    BY <1>2, FirstFound, VolumeSizes DEF HasRoom, FirstRun, Runs
  <2> QED
    BY <1>2, <2>1, VolumeSizes DEF Runs, RunSet, Sectors
<1> QED
  BY <1>1, <1>2

-----------------------------------------------------------------------------
(* Changes of the tables in memory.                                        *)

\* A name with the inode it stands for.
LEMMA EntryFormed ==
    \A n \in Names, i \in Inodes : [name |-> n, inode |-> i] \in Entry
<1> SUFFICES ASSUME NEW n \in Names, NEW i \in Inodes PROVE [name |-> n, inode |-> i] \in Entry
  OBVIOUS
<1>1. i \in 0 .. BeyondTable /\ i # Root
  BY VolumeSizes DEF Inodes, BeyondTable, Root
<1> QED
  BY <1>1 DEF Entry

LEMMA Blanks ==
    ASSUME NEW M, TableSet(M)
    PROVE  /\ Unmounted \in M /\ Loaded(BlankTables) \in M
           /\ FreeInode \in Inode /\ FreeEntry \in Entry /\ NoEntries \in [Slots -> Entry]
           /\ \A b \in BOOLEAN : [mounted |-> b, inode |-> BlankTables.inode,
                                  dir |-> BlankTables.dir, map |-> {}] \in M
<1>1. FreeInode \in Inode /\ FreeEntry \in Entry /\ NoEntries \in [Slots -> Entry]
  <2>1. FreeInode \in Inode
    BY VolumeSizes DEF FreeInode, Inode
  <2>2. FreeEntry \in Entry
    BY VolumeSizes DEF FreeEntry, Entry, Root, BeyondTable
  <2> QED
    BY <2>1, <2>2 DEF NoEntries
<1>2. \A b \in BOOLEAN : [mounted |-> b, inode |-> BlankTables.inode,
                          dir |-> BlankTables.dir, map |-> {}] \in Memory
  BY <1>1 DEF BlankTables, Memory
<1>3. \A b \in BOOLEAN : Sound([mounted |-> b, inode |-> BlankTables.inode,
                                dir |-> BlankTables.dir, map |-> {}])
  BY DEF BlankTables, Sound, Extent, FreeInode
<1>4. \A b \in BOOLEAN : [mounted |-> b, inode |-> BlankTables.inode,
                          dir |-> BlankTables.dir, map |-> {}] \in M
  <2> DEFINE T(b) == [mounted |-> b, inode |-> BlankTables.inode, dir |-> BlankTables.dir, map |-> {}]
  <2> HIDE DEF T
  <2> SUFFICES \A b \in BOOLEAN : T(b) \in M
    BY DEF T
  <2> QED
    BY <1>2, <1>3 DEF TableSet, SoundMemory, T
<1>5. BlankTables.map = {}
  BY DEF BlankTables
<1> QED
  BY <1>1, <1>4, <1>5 DEF Unmounted, Loaded, Tables

\* Inode i, the root directory and the bitmap are replaced.
LEMMA ChangedWithin ==
    ASSUME NEW M, TableSet(M), NEW m \in M, NEW i \in Inodes, NEW c \in Memory,
           \A j \in Inodes \ {i} : c.inode[j] = m.inode[j],
           Sound(m) => Fits(m, i, c.inode[i], c.map)
    PROVE  c \in M
<1>1. ASSUME Sound(m) PROVE Sound(c)
  <2>1. Fits(m, i, c.inode[i], c.map)
    BY <1>1
  <2>2. \A j \in Inodes : Extent(c, j) = IF j = i THEN Span(c.inode[i]) ELSE Extent(m, j)
    BY DEF Extent, Span
  <2> QED
    BY <1>1, <2>1, <2>2 DEF Sound, Fits
<1> QED
  BY <1>1 DEF TableSet, SoundMemory

\* An inode with another extent.
LEMMA ExtentPut ==
    ASSUME NEW o \in Inode, NEW s \in 0 .. MaxSector, NEW l \in 0 .. MaxSector,
           l # 0 => s \in Sectors /\ s + l - 1 \in Sectors
    PROVE  /\ WithExtent(o, s, l) \in Inode
           /\ WithExtent(o, s, l).start = s /\ WithExtent(o, s, l).len = l
           /\ WithExtent(o, s, l).type = o.type /\ WithExtent(o, s, l).size = o.size
BY VolumeSizes DEF Inode, WithExtent

LEMMA FreedWithin ==
    ASSUME NEW M, TableSet(M), NEW m \in M, NEW i \in Inodes
    PROVE  /\ Freed(m, i) \in M
           /\ Freed(m, i).inode[i] = WithExtent(m.inode[i], 0, 0)
           /\ Freed(m, i).dir = m.dir
           /\ Extent(Freed(m, i), i) = {}
<1> DEFINE n == WithExtent(m.inode[i], 0, 0)
           map == m.map \ Extent(m, i)
           c == Freed(m, i)
<1>1. m \in Memory
  BY DEF TableSet, SoundMemory
<1>2. n \in Inode /\ n.start = 0 /\ n.len = 0
  <2>1. m.inode[i] \in Inode
    BY <1>1 DEF Memory
  <2> QED
    BY <2>1, ExtentPut, VolumeSizes
<1>3. map \in SUBSET Sectors
  BY <1>1 DEF Memory
<1>4. c = [m EXCEPT !.map = map, !.inode[i] = n]
  BY DEF Freed
<1> HIDE DEF n, map, c
<1>5. /\ c \in Memory
      /\ c.inode[i] = n /\ c.map = map /\ c.dir = m.dir
      /\ \A j \in Inodes \ {i} : c.inode[j] = m.inode[j]
  BY <1>1, <1>2, <1>3, <1>4 DEF Memory
<1>6. Span(n) = {} /\ Extent(c, i) = {}
  BY <1>2, <1>5 DEF Extent, Span
<1>7. ASSUME Sound(m) PROVE Fits(m, i, n, map)
  BY <1>6, <1>7 DEF Fits, Sound, map
<1> QED
  BY <1>5, <1>6, <1>7, ChangedWithin DEF n, c

\* mbfs_alloc_extent for an inode that has no extent.
LEMMA AllottedWithin ==
    ASSUME NEW M, TableSet(M), NEW m \in M, NEW i \in Inodes, Extent(m, i) = {},
           NEW n \in Nat, HasRoom(m.map, n)
    PROVE  /\ Allotted(m, i, n) \in M
           /\ Allotted(m, i, n).inode[i].start \in 0 .. MaxSector
           /\ Allotted(m, i, n).dir = m.dir
<1> DEFINE s == FirstRun(m.map, n)
           x == WithExtent(m.inode[i], s, n)
           map == m.map \union RunSet(s, n)
           c == Allotted(m, i, n)
<1>1. m \in Memory
  BY DEF TableSet, SoundMemory
<1>2. /\ s \in 0 .. MaxSector /\ n \in 0 .. MaxSector
      /\ n # 0 => s \in Sectors /\ s + n - 1 \in Sectors
      /\ RunSet(s, n) \subseteq Sectors /\ RunSet(s, n) \cap m.map = {}
  BY <1>1, RunFound DEF Memory
<1>3. x \in Inode /\ x.start = s /\ x.len = n
  <2>1. m.inode[i] \in Inode
    BY <1>1 DEF Memory
  <2> HIDE DEF s
  <2> QED
    BY <1>2, <2>1, ExtentPut
<1>4. map \in SUBSET Sectors
  BY <1>1, <1>2 DEF Memory
<1>5. c = [m EXCEPT !.map = map, !.inode[i] = x]
  BY DEF Allotted
<1> HIDE DEF s, x, map, c
<1>6. /\ c \in Memory
      /\ c.inode[i] = x /\ c.map = map /\ c.dir = m.dir
      /\ \A j \in Inodes \ {i} : c.inode[j] = m.inode[j]
  BY <1>1, <1>3, <1>4, <1>5 DEF Memory
<1>7. ASSUME Sound(m) PROVE Fits(m, i, x, map)
  <2>1. Span(x) = RunSet(s, n)
    BY <1>3 DEF Span, RunSet
  <2> QED
    BY <1>2, <1>7, <2>1 DEF Fits, Sound, map
<1> QED
  BY <1>2, <1>3, <1>6, <1>7, ChangedWithin DEF c

LEMMA FiledWithin ==
    ASSUME NEW M, TableSet(M), NEW m \in M, NEW i \in Inodes, NEW n \in Nat
    PROVE  Filed(m, i, n) \in M /\ Filed(m, i, n).dir = m.dir
<1> DEFINE AsFile(o) == [o EXCEPT !.type = "file", !.size = n]
           c == Filed(m, i, n)
           x == AsFile(m.inode[i])
<1>1. m \in Memory
  BY DEF TableSet, SoundMemory
<1>2. m.inode[i] \in Inode
  BY <1>1 DEF Memory
<1>3. \A o \in Inode : AsFile(o) \in Inode /\ AsFile(o).start = o.start /\ AsFile(o).len = o.len
  BY DEF Inode
<1>4. c = [m EXCEPT !.inode[i] = x]
  BY DEF Filed
<1> HIDE DEF AsFile, c
<1>5. /\ c \in Memory
      /\ c.inode[i] = x /\ c.map = m.map /\ c.dir = m.dir
      /\ \A j \in Inodes \ {i} : c.inode[j] = m.inode[j]
  BY <1>1, <1>2, <1>3, <1>4 DEF Memory
<1>6. ASSUME Sound(m) PROVE Fits(m, i, x, m.map)
  BY <1>2, <1>3, <1>6 DEF Fits, Sound, Span, Extent
<1> QED
  BY <1>5, <1>6, ChangedWithin DEF c

\* A new inode, and a new entry for it in the root directory.
LEMMA InodeTaken ==
    ASSUME NEW M, TableSet(M), NEW m \in M, NEW i \in Inodes
    PROVE  /\ WithInode(m, i, "file") \in M
           /\ \A s \in Slots, e \in Entry : [WithInode(m, i, "file") EXCEPT !.dir[s] = e] \in M
<1> DEFINE n == [FreeInode EXCEPT !.type = "file"]
           c == WithInode(m, i, "file")
<1>1. m \in Memory
  BY DEF TableSet, SoundMemory
<1>2. n \in Inode /\ Span(n) = {}
  BY VolumeSizes DEF FreeInode, Inode, Span
<1>3. c = [m EXCEPT !.inode[i] = n]
  BY DEF WithInode
<1> HIDE DEF n, c
<1>4. /\ c \in Memory
      /\ c.inode[i] = n /\ c.map = m.map
      /\ \A j \in Inodes \ {i} : c.inode[j] = m.inode[j]
  BY <1>1, <1>2, <1>3 DEF Memory
<1>5. ASSUME Sound(m) PROVE Fits(m, i, n, m.map)
  BY <1>2, <1>5 DEF Fits, Sound
<1>6. c \in M
  BY <1>4, <1>5, ChangedWithin
<1>7. ASSUME NEW s \in Slots, NEW e \in Entry PROVE [c EXCEPT !.dir[s] = e] \in M
  <2> DEFINE b == [c EXCEPT !.dir[s] = e]
  <2>1. b \in Memory /\ b.inode = c.inode /\ b.map = c.map
    BY <1>4 DEF Memory
  <2> HIDE DEF b
  <2>2. b \in M
    BY <1>4, <1>5, <2>1, ChangedWithin
  <2> QED
    BY <2>2 DEF b
<1> QED
  BY <1>6, <1>7 DEF c

-----------------------------------------------------------------------------
(* Sequences of sector writes.                                             *)

LEMMA EndWithin ==
    ASSUME NEW dk \in Disk, NEW writes \in Seq(Disk)
    PROVE  EndOf(dk, writes) \in Disk
BY DEF EndOf, Last

LEMMA FlagWithin ==
    ASSUME NEW dk \in Disk, NEW flag \in {"clean", "dirty"}
    PROVE  Flagged(dk, flag) \in Disk
BY DEF Flagged, Disk

\* A flush writes a finite number of sectors.
LEMMA Finite ==
    /\ \A S \in SUBSET Inodes : Cardinality(S) \in Nat
    /\ \A S \in SUBSET Slots : Cardinality(S) \in Nat
<1>1. IsFiniteSet(Inodes) /\ IsFiniteSet(Slots)
  BY VolumeSizes, FS_Interval DEF Inodes, Slots
<1> QED
  BY <1>1, FS_Subset, FS_CardinalityType

LEMMA FlushesWithin ==
    ASSUME NEW dk \in Disk, NEW m \in Memory
    PROVE  /\ FlushInodes(dk, m) \in Seq(Disk)
           /\ FlushDirectory(dk, m) \in Seq(Disk)
           /\ FlushBitmap(dk, m) \in Seq(Disk)
<1>1. FlushInodes(dk, m) \in Seq(Disk)
  <2> DEFINE changed == {i \in Inodes : m.inode[i] # dk.inode[i]}
             one(k) == [dk EXCEPT !.inode = [i \in Inodes |-> IF Rank(changed, i) <= k THEN m.inode[i] ELSE @[i]]]
  <2>1. Cardinality(changed) \in Nat
    BY Finite
  <2>2. \A k \in Nat : one(k) \in Disk
    BY DEF Disk, Memory
  <2>3. FlushInodes(dk, m) = [k \in 1 .. Cardinality(changed) |-> one(k)]
    BY DEF FlushInodes
  <2> HIDE DEF changed, one
  <2> QED
    BY <2>1, <2>2, <2>3
<1>2. FlushDirectory(dk, m) \in Seq(Disk)
  <2> DEFINE changed == {s \in Slots : m.dir[s] # dk.dir[s]}
             one(k) == [dk EXCEPT !.dir = [s \in Slots |-> IF Rank(changed, s) <= k THEN m.dir[s] ELSE @[s]]]
  <2>1. Cardinality(changed) \in Nat
    BY Finite
  <2>2. \A k \in Nat : one(k) \in Disk
    BY DEF Disk, Memory
  <2>3. FlushDirectory(dk, m) = [k \in 1 .. Cardinality(changed) |-> one(k)]
    BY DEF FlushDirectory
  <2> HIDE DEF changed, one
  <2> QED
    BY <2>1, <2>2, <2>3
<1>3. FlushBitmap(dk, m) \in Seq(Disk)
  <2> DEFINE one == [dk EXCEPT !.map = m.map]
  <2>1. one \in Disk
    BY DEF Disk, Memory
  <2> HIDE DEF one
  <2>2. <<one>> \in Seq(Disk) /\ <<>> \in Seq(Disk)
    BY <2>1
  <2> QED
    BY <2>2 DEF FlushBitmap, one
<1> QED
  BY <1>1, <1>2, <1>3

LEMMA FlushWithin ==
    ASSUME NEW dk \in Disk, NEW m \in Memory, NEW root \in BOOLEAN
    PROVE  FlushTables(dk, m, root) \in Seq(Disk)
<1> DEFINE a == FlushInodes(dk, m)
           d1 == EndOf(dk, a)
           b == IF root THEN FlushDirectory(d1, m) ELSE <<>>
           d2 == EndOf(d1, b)
           c == FlushBitmap(d2, m)
           d3 == Flagged(EndOf(d2, c), "clean")
<1>1. a \in Seq(Disk) /\ d1 \in Disk
  BY FlushesWithin, EndWithin
<1>2. b \in Seq(Disk) /\ d2 \in Disk
  <2> HIDE DEF d1
  <2>1. b \in Seq(Disk)
    BY <1>1, FlushesWithin
  <2> HIDE DEF b
  <2> QED
    BY <1>1, <2>1, EndWithin
<1>3. c \in Seq(Disk) /\ d3 \in Disk
  <2> HIDE DEF d2
  <2>1. c \in Seq(Disk)
    BY <1>2, FlushesWithin
  <2> HIDE DEF c
  <2> QED
    BY <1>2, <2>1, EndWithin, FlagWithin
<1>4. FlushTables(dk, m, root) = a \o b \o c \o <<d3>>
  BY DEF FlushTables
<1> HIDE DEF a, b, c, d3
<1> QED
  BY <1>1, <1>2, <1>3, <1>4

LEMMA FillWithin ==
    ASSUME NEW dk \in Disk, NEW s \in Nat, NEW n \in Nat, NEW sector \in Sector
    PROVE  Fill(dk, s, n, sector) \in Seq(Disk)
<1> DEFINE one(k) == [dk EXCEPT !.data = [x \in Sectors |-> IF x \in s .. s + k - 1 THEN sector ELSE @[x]]]
<1>1. \A k \in 1 .. n : one(k) \in Disk
  BY DEF Disk
<1>2. Fill(dk, s, n, sector) = [k \in 1 .. n |-> one(k)]
  BY DEF Fill
<1> HIDE DEF one
<1> QED
  BY <1>1, <1>2

\* The sectors copied are sectors of the volume.
LEMMA CopyWithin ==
    ASSUME NEW dk \in Disk, NEW from \in Nat, NEW to \in Nat, NEW n \in Nat,
           from .. from + n - 1 \subseteq Sectors
    PROVE  Copy(dk, from, to, n) \in Seq(Disk)
<1> DEFINE one(k) == [dk EXCEPT !.data = [x \in Sectors |->
                                            IF x \in to .. to + k - 1 THEN @[from + x - to] ELSE @[x]]]
<1>1. ASSUME NEW k \in 1 .. n PROVE one(k) \in Disk
  <2>1. \A x \in Sectors : x \in to .. to + k - 1 => from + x - to \in Sectors
    BY VolumeSizes DEF Sectors
  <2> QED
    BY <2>1 DEF Disk
<1>2. Copy(dk, from, to, n) = [k \in 1 .. n |-> one(k)]
  BY DEF Copy
<1> HIDE DEF one
<1> QED
  BY <1>1, <1>2

LEMMA EntriesWithin ==
    ASSUME NEW dk \in Disk, NEW m \in Memory, NEW d \in Inodes \union {Root}
    PROVE  EntriesOf(m, dk.data, d) \in [Slots -> Entry]
<1>1. CASE d = Root
  BY <1>1 DEF EntriesOf, Memory
<1>2. CASE d # Root /\ m.inode[d].len = 0
  BY <1>2, Blanks DEF EntriesOf, TableSet
<1>3. CASE d # Root /\ m.inode[d].len # 0
  <2>1. m.inode[d] \in Inode
    BY <1>3 DEF Memory
  <2>2. m.inode[d].start \in Sectors
    BY <1>3, <2>1 DEF Inode
  <2> QED
    BY <1>3, <2>2 DEF EntriesOf, Disk, Sector
<1> QED
  BY <1>1, <1>2, <1>3

LEMMA SectorsWithin ==
    /\ Zeroed \in Sector
    /\ \A x \in Texts : TextSector(x) \in Sector
    /\ \A e \in [Slots -> Entry] : DirSector(e) \in Sector
<1>1. NoEntries \in [Slots -> Entry]
  BY Blanks DEF TableSet
<1>2. TextEntries \in [Slots -> Entry]
  <2>1. [name |-> "?", inode |-> BeyondTable] \in Entry
    BY VolumeSizes DEF Entry, BeyondTable, Root
  <2> QED
    BY <1>1, <2>1 DEF TextEntries
<1>3. NoText \in Texts /\ DirText \in Texts
  BY DEF Texts
<1> QED
  BY <1>1, <1>2, <1>3 DEF Zeroed, TextSector, DirSector, Sector

LEMMA EntriesPut ==
    ASSUME NEW dk \in Disk, NEW m \in Memory, NEW d, NEW e \in [Slots -> Entry]
    PROVE  PutEntries(dk, m, d, e) \in Disk
<1>1. DirSector(e) \in Sector
  BY SectorsWithin
<1> QED
  BY <1>1 DEF PutEntries, Disk

LEMMA AtWithin ==
    ASSUME NEW M, NEW m \in M, NEW writes \in Seq(Disk)
    PROVE  At(m, writes) \in Writing(M)
<1> DEFINE one(k) == [mem |-> m, disk |-> writes[k]]
<1>1. \A k \in 1 .. Len(writes) : one(k) \in [mem : M, disk : Disk]
  OBVIOUS
<1>2. At(m, writes) = [k \in 1 .. Len(writes) |-> one(k)]
  BY DEF At
<1> HIDE DEF one
<1> QED
  BY <1>1, <1>2 DEF Writing

-----------------------------------------------------------------------------
(* Commands.                                                               *)

\* Sequences of writes in a row.
LEMMA WritingJoined ==
    ASSUME NEW M, NEW a \in Writing(M), NEW b \in Writing(M)
    PROVE  a \o b \in Writing(M)
BY DEF Writing

LEMMA OneMore ==
    ASSUME NEW dk \in Disk, NEW writes \in Seq(Disk)
    PROVE  <<dk>> \o writes \in Seq(Disk)
<1>1. \A a, b \in Seq(Disk) : a \o b \in Seq(Disk)
  BY ConcatProperties
<1>2. <<dk>> \in Seq(Disk)
  OBVIOUS
<1> QED
  BY <1>1, <1>2, Zenon

LEMMA IdleWithin ==
    ASSUME NEW M, TableSet(M)
    PROVE  CommandWithin(Idle, M)
<1>1. Unmounted \in M
  BY Blanks
<1>2. <<>> \in Writing(M) /\ <<>> \in Seq(Names)
  BY DEF Writing
<1> QED
  BY <1>1, <1>2, CommandsAssumption DEF CommandWithin, Idle

LEMMA CommandStarts ==
    ASSUME NEW M, TableSet(M), NEW kind, NEW p \in Seq(Names), NEW m, NEW dk,
           NEW todo \in Writing(M), NEW end \in M, NEW ok, NEW want
    PROVE  LET c == Command(kind, p, m, dk, todo, end, ok, want)
           IN  CommandWithin(c, M) /\ c.todo = todo /\ c.end = end /\ c.path = p
BY CommandsAssumption DEF CommandWithin, Command

-----------------------------------------------------------------------------
(* Writing a file.                                                         *)

LEMMA WriteRootKeeps ==
    ASSUME NEW M, TableSet(M), VolumeWithin(M), NEW kind, NEW p \in Paths, NEW n \in Nat,
           WriteRoot(kind, p, n)
    PROVE  mem' \in M /\ CommandWithin(op', M) /\ disk' = disk /\ fd' = fd
<1> DEFINE old == Named(mem.dir, p[1])
           s == IF old # {} THEN LeastOf(old) ELSE LeastOf(FreeSlots(mem.dir))
           i == IF old # {} THEN mem.dir[s].inode ELSE LeastOf(FreeInodes(mem))
           m1 == IF old # {} THEN mem
                 ELSE [WithInode(mem, i, "file") EXCEPT !.dir[s] = [name |-> p[1], inode |-> i]]
           m2 == Freed(m1, i)
           m3 == Allotted(m2, i, n)
           m4 == Filed(m3, i, n)
           text == Fill(disk, m3.inode[i].start, n, TextSector(p))
<1>1. /\ old # {} \/ (FreeSlots(mem.dir) # {} /\ FreeInodes(mem) # {})
      /\ i \in Inodes
      /\ IF HasRoom(m2.map, n)
         THEN /\ op' = Command(kind, p, mem, disk,
                         At(m3, text) \o At(m4, FlushTables(EndOf(disk, text), m4, TRUE)),
                         m4, TRUE, FileOf(p, n))
              /\ UNCHANGED mem
         ELSE /\ mem' = m2
              /\ UNCHANGED op
      /\ UNCHANGED <<disk, fd>>
  BY DEF WriteRoot
<1>2. mem \in M /\ mem \in Memory /\ disk \in Disk /\ CommandWithin(op, M)
  BY DEF VolumeWithin, TableSet, SoundMemory
<1>3. p \in Seq(Names) /\ p # <<>> /\ p[1] \in Names /\ p \in Texts
  BY CommandsAssumption DEF Texts
<1>4. s \in Slots
  BY <1>1, FirstFound, VolumeSizes DEF Named, FreeSlots
<1>5. m1 \in M
  <2> HIDE DEF s, i
  <2>1. [name |-> p[1], inode |-> i] \in Entry
    BY <1>1, <1>3, EntryFormed
  <2> HIDE DEF old
  <2> QED
    BY <1>1, <1>2, <1>4, <2>1, InodeTaken
<1> HIDE DEF i, m1
<1>6. m2 \in M /\ m2 \in Memory /\ Extent(m2, i) = {}
  BY <1>1, <1>5, FreedWithin DEF TableSet, SoundMemory
<1> HIDE DEF m2
<1>7. CASE ~HasRoom(m2.map, n)
  BY <1>1, <1>2, <1>6, <1>7
<1>8. CASE HasRoom(m2.map, n)
  <2>1. m3 \in M /\ m3.inode[i].start \in Nat
    BY <1>1, <1>6, <1>8, AllottedWithin, VolumeSizes
  <2> HIDE DEF m3
  <2>2. m4 \in M /\ m4 \in Memory
    BY <1>1, <2>1, FiledWithin DEF TableSet, SoundMemory
  <2> HIDE DEF m4
  <2>3. text \in Seq(Disk)
    BY <1>2, <1>3, <2>1, FillWithin, SectorsWithin
  <2> HIDE DEF text
  <2>4. FlushTables(EndOf(disk, text), m4, TRUE) \in Seq(Disk)
    BY <1>2, <2>2, <2>3, EndWithin, FlushWithin
  <2> DEFINE todo == At(m3, text) \o At(m4, FlushTables(EndOf(disk, text), m4, TRUE))
  <2>5. todo \in Writing(M)
    BY <2>1, <2>2, <2>3, <2>4, AtWithin, WritingJoined
  <2> HIDE DEF todo
  <2>6. op' = Command(kind, p, mem, disk, todo, m4, TRUE, FileOf(p, n)) /\ mem' = mem
    BY <1>1, <1>8 DEF todo
  <2> QED
    BY <1>1, <1>2, <1>3, <2>2, <2>5, <2>6, CommandStarts
<1> QED
  BY <1>7, <1>8

LEMMA PathsFound ==
    ASSUME NEW t, NEW data, NEW p
    PROVE  /\ ParentOf(t, data, p) # Absent => ParentOf(t, data, p) \in Inodes \union {Root}
           /\ Lookup(t, data, p) # Absent => Lookup(t, data, p) \in Inodes
BY DEF ParentOf, IsDirectory, Lookup, Used

LEMMA NamesFound ==
    ASSUME NEW p \in Seq(Names), p # <<>>
    PROVE  /\ Last(p) \in Names
           /\ \A i \in Inodes : [name |-> Last(p), inode |-> i] \in Entry
<1>1. Last(p) \in Names
  BY DEF Last
<1> QED
  BY <1>1, EntryFormed

LEMMA WriteBelowKeeps ==
    ASSUME NEW M, TableSet(M), VolumeWithin(M), NEW kind, NEW p \in Paths, NEW n \in Nat,
           WriteBelow(kind, p, n)
    PROVE  mem' \in M /\ CommandWithin(op', M) /\ disk' = disk /\ fd' = fd
<1> DEFINE d == ParentOf(mem, disk.data, p)
           e == EntriesOf(mem, disk.data, d)
           old == Named(e, Last(p))
           s == IF old # {} THEN LeastOf(old) ELSE LeastOf(FreeSlots(e))
           i == IF old # {} THEN e[s].inode ELSE LeastOf(FreeInodes(mem))
           m1 == IF old # {} THEN mem ELSE WithInode(mem, i, "file")
           m2 == Freed(m1, i)
           m3 == Allotted(m2, i, n)
           m4 == Filed(m3, i, n)
           d1 == Flagged(disk, "dirty")
           text == Fill(d1, m3.inode[i].start, n, TextSector(p))
           d2 == EndOf(d1, text)
           f == [e EXCEPT ![s] = [name |-> Last(p), inode |-> i]]
           d3 == PutEntries(d2, m4, d, f)
           start == At(m1, <<d1>>)
           most == start \o At(m3, text)
           all == most \o At(m4, <<d3>> \o FlushTables(d3, m4, FALSE))
<1>1. /\ d # Absent
      /\ old # {} \/ (FreeSlots(e) # {} /\ FreeInodes(mem) # {})
      /\ i \in Inodes
      /\ op' = IF ~HasRoom(m2.map, n) THEN Command(kind, p, mem, disk, start, m2, FALSE, Nothing)
               ELSE IF ~CanFlushSubdir(m4, d) THEN Command(kind, p, mem, disk, most, m4, FALSE, Nothing)
               ELSE Command(kind, p, mem, disk, all, m4, TRUE, FileOf(p, n))
      /\ UNCHANGED <<mem, disk, fd>>
  BY DEF WriteBelow
<1>2. mem \in M /\ mem \in Memory /\ disk \in Disk
  BY DEF VolumeWithin, TableSet, SoundMemory
<1>3. p \in Seq(Names) /\ p # <<>> /\ p \in Texts
  BY CommandsAssumption DEF Texts
<1>4. e \in [Slots -> Entry]
  <2>1. d \in Inodes \union {Root}
    BY <1>1, PathsFound
  <2> HIDE DEF d
  <2> QED
    BY <1>2, <2>1, EntriesWithin
<1>5. s \in Slots
  BY <1>1, FirstFound, VolumeSizes DEF Named, FreeSlots
<1> HIDE DEF d, e, old, s, i
<1>6. f \in [Slots -> Entry]
  BY <1>1, <1>3, <1>4, <1>5, NamesFound
<1>7. m1 \in M
  BY <1>1, <1>2, InodeTaken
<1>8. d1 \in Disk
  BY <1>2, FlagWithin
<1> HIDE DEF f, m1, d1
<1>9. m2 \in M /\ m2 \in Memory /\ Extent(m2, i) = {}
  BY <1>1, <1>7, FreedWithin DEF TableSet, SoundMemory
<1>10. start \in Writing(M)
  <2>1. <<d1>> \in Seq(Disk)
    BY <1>8
  <2> QED
    BY <1>7, <2>1, AtWithin
<1> HIDE DEF m2, start
<1>11. CASE ~HasRoom(m2.map, n)
  BY <1>1, <1>2, <1>3, <1>9, <1>10, <1>11, CommandStarts
<1>12. CASE HasRoom(m2.map, n)
  <2>1. m3 \in M /\ m3.inode[i].start \in Nat
    BY <1>1, <1>9, <1>12, AllottedWithin, VolumeSizes
  <2> HIDE DEF m3
  <2>2. m4 \in M /\ m4 \in Memory
    BY <1>1, <2>1, FiledWithin DEF TableSet, SoundMemory
  <2> HIDE DEF m4
  <2>3. text \in Seq(Disk)
    BY <1>3, <1>8, <2>1, FillWithin, SectorsWithin
  <2> HIDE DEF text
  <2>4. most \in Writing(M)
    BY <1>10, <2>1, <2>3, AtWithin, WritingJoined
  <2>5. d3 \in Disk
    BY <1>6, <1>8, <2>2, <2>3, EndWithin, EntriesPut
  <2> HIDE DEF most, d3
  <2>6. <<d3>> \o FlushTables(d3, m4, FALSE) \in Seq(Disk)
    BY <2>2, <2>5, FlushWithin, OneMore
  <2>7. all \in Writing(M)
    BY <2>2, <2>4, <2>6, AtWithin, WritingJoined
  <2> HIDE DEF all
  <2> QED
    BY <1>1, <1>2, <1>3, <1>12, <2>2, <2>4, <2>7, CommandStarts
<1> QED
  BY <1>11, <1>12

LEMMA WriteFileKeeps ==
    ASSUME NEW M, TableSet(M), VolumeWithin(M), NEW kind, NEW p \in Paths, NEW n \in Nat,
           WriteFile(kind, p, n)
    PROVE  mem' \in M /\ CommandWithin(op', M) /\ disk' = disk /\ fd' = fd
BY WriteRootKeeps, WriteBelowKeeps DEF WriteFile

-----------------------------------------------------------------------------
(* Making and removing directories, removing files.                        *)

LEMMA MkdirStarts ==
    ASSUME NEW M, TableSet(M), NEW m \in M, NEW dk \in Disk, NEW goal \in Seq(Names),
           NEW p \in Seq(Names), p # <<>>, CanMkdir(m, dk, p)
    PROVE  CommandWithin(MkdirSingle(goal, p, m, dk), M)
<1> DEFINE d == ParentOf(m, dk.data, p)
           e == EntriesOf(m, dk.data, d)
           s == LeastOf(FreeSlots(e))
           i == LeastOf(FreeInodes(m))
           k == FirstRun(m.map, 1)
           entry == [name |-> Last(p), inode |-> i]
           n == [type |-> "dir", start |-> k, len |-> 1, size |-> 1]
           m1 == [m EXCEPT !.map = @ \union {k}]
           m2 == [m1 EXCEPT !.inode[i] = n, !.dir = IF d = Root THEN [@ EXCEPT ![s] = entry] ELSE @]
           d1 == Flagged(dk, "dirty")
           d2 == [d1 EXCEPT !.data[k] = Zeroed]
           f == [e EXCEPT ![s] = entry]
           d3 == PutEntries(d2, m2, d, f)
           begin == At(m1, <<d1, d2>>)
           rest == IF d = Root THEN At(m2, FlushTables(d2, m2, TRUE))
                   ELSE IF CanFlushSubdir(m2, d) THEN At(m2, <<d3>> \o FlushTables(d3, m2, FALSE))
                   ELSE <<>>
<1>1. m \in Memory
  BY DEF TableSet, SoundMemory
<1>2. d \in Inodes \union {Root} /\ FreeSlots(e) # {} /\ FreeInodes(m) # {} /\ HasRoom(m.map, 1)
  BY PathsFound DEF CanMkdir
<1>3. e \in [Slots -> Entry]
  <2> HIDE DEF d
  <2> QED
    BY <1>1, <1>2, EntriesWithin
<1>4. s \in Slots /\ i \in Inodes
  BY <1>2, FirstFound, VolumeSizes DEF Named, FreeSlots, FreeInodes
<1>5. k \in Sectors /\ k \notin m.map
  <2>1. 1 \in Nat /\ 1 # 0 /\ m.map \in SUBSET Sectors
    BY <1>1 DEF Memory
  <2>2. k \in Sectors /\ RunSet(k, 1) \cap m.map = {}
    BY <1>2, <2>1, RunFound
  <2> HIDE DEF k
  <2>3. k \in RunSet(k, 1)
    BY <2>2 DEF RunSet, Sectors
  <2> QED
    BY <2>2, <2>3
<1> HIDE DEF d, e, s, i, k
<1>6. entry \in Entry
  BY <1>4, NamesFound
<1>7. n \in Inode /\ Span(n) = {k}
  BY <1>5, VolumeSizes DEF Inode, Sectors, Span
<1> HIDE DEF entry, n
<1>8. m1 \in M
  <2>1. m1 \in Memory /\ m1.inode = m.inode /\ m1.map = m.map \union {k}
    BY <1>1, <1>5 DEF Memory
  <2> HIDE DEF m1
  <2>2. ASSUME Sound(m) PROVE Fits(m, i, m1.inode[i], m1.map)
    BY <1>4, <2>1, <2>2 DEF Fits, Sound, Span, Extent
  <2> QED
    BY <1>4, <2>1, <2>2, ChangedWithin
<1>9. m2 \in M /\ m2 \in Memory
  <2>1. /\ m2 \in Memory /\ m2.inode[i] = n /\ m2.map = m.map \union {k}
        /\ \A j \in Inodes \ {i} : m2.inode[j] = m.inode[j]
    BY <1>1, <1>4, <1>5, <1>6, <1>7 DEF Memory
  <2> HIDE DEF m2
  <2>2. ASSUME Sound(m) PROVE Fits(m, i, n, m2.map)
    BY <1>4, <1>5, <1>7, <2>1, <2>2 DEF Fits, Sound
  <2> QED
    BY <1>4, <2>1, <2>2, ChangedWithin
<1>10. d1 \in Disk
  BY FlagWithin
<1> HIDE DEF m1, m2, d1
<1>11. d2 \in Disk
  BY <1>10, SectorsWithin DEF Disk
<1>12. f \in [Slots -> Entry]
  BY <1>3, <1>6
<1> HIDE DEF d2, f
<1>13. d3 \in Disk
  BY <1>9, <1>11, <1>12, EntriesPut
<1> HIDE DEF d3
<1>14. begin \in Writing(M)
  <2>1. <<d1, d2>> \in Seq(Disk)
    BY <1>10, <1>11
  <2> QED
    BY <1>8, <2>1, AtWithin
<1>15. rest \in Writing(M)
  <2>1. <<>> \in Writing(M)
    BY DEF Writing
  <2>2. FlushTables(d2, m2, TRUE) \in Seq(Disk) /\ FlushTables(d3, m2, FALSE) \in Seq(Disk)
    BY <1>9, <1>11, <1>13, FlushWithin
  <2>3. <<d3>> \o FlushTables(d3, m2, FALSE) \in Seq(Disk)
    BY <1>13, <2>2, OneMore
  <2> QED
    BY <1>9, <2>1, <2>2, <2>3, AtWithin
<1> HIDE DEF begin, rest
<1> DEFINE todo == begin \o rest
           ok == d = Root \/ CanFlushSubdir(m2, d)
           c == Command("mkdir", p, m, dk, todo, m2, ok, EmptyDirectory)
<1>16. todo \in Writing(M)
  BY <1>14, <1>15, WritingJoined
<1>17. MkdirSingle(goal, p, m, dk) = [c EXCEPT !.goal = goal]
  BY DEF MkdirSingle, d, e, s, i, k, entry, n, m1, m2, d1, d2, f, d3, begin, rest
<1> HIDE DEF todo, ok
<1>18. CommandWithin(c, M)
  BY <1>9, <1>16, CommandStarts
<1> HIDE DEF c
<1> QED
  BY <1>17, <1>18 DEF CommandWithin

\* The first missing directory of a path is a prefix of it.
LEMMA PrefixFound ==
    ASSUME NEW m, NEW dk, NEW p \in Seq(Names), MissingPrefixes(m, dk, p) # {}
    PROVE  NextPrefix(m, dk, p) \in Seq(Names) /\ NextPrefix(m, dk, p) # <<>>
<1> DEFINE k == LeastOf(MissingPrefixes(m, dk, p))
<1>1. MissingPrefixes(m, dk, p) \in SUBSET Nat
  BY DEF MissingPrefixes
<1>2. k \in 1 .. Len(p)
  BY <1>1, LeastNatural DEF MissingPrefixes
<1> HIDE DEF k
<1>3. SubSeq(p, 1, k) \in Seq(Names) /\ Len(SubSeq(p, 1, k)) = k
  BY <1>2
<1>4. Len(<<>>) = 0
  OBVIOUS
<1> QED
  BY <1>2, <1>3, <1>4 DEF NextPrefix, k

LEMMA MkdirKeeps ==
    ASSUME NEW M, TableSet(M), VolumeWithin(M), NEW p \in Paths, Mkdir(p)
    PROVE  mem' \in M /\ CommandWithin(op', M) /\ disk' = disk /\ fd' = fd
<1> DEFINE q == NextPrefix(mem, disk, p)
<1>1. p \in Seq(Names) /\ mem \in M /\ disk \in Disk
  BY CommandsAssumption DEF VolumeWithin
<1>2. MissingPrefixes(mem, disk, p) # {} /\ CanMkdir(mem, disk, q)
  BY DEF Mkdir
<1>3. op' = MkdirSingle(p, q, mem, disk) /\ mem' = mem /\ disk' = disk /\ fd' = fd
  BY DEF Mkdir
<1>4. q \in Seq(Names) /\ q # <<>>
  BY <1>1, <1>2, PrefixFound
<1> QED
  BY <1>1, <1>2, <1>3, <1>4, MkdirStarts

LEMMA RemovePathKeeps ==
    ASSUME NEW M, TableSet(M), VolumeWithin(M), NEW p \in Paths, RemovePath(p)
    PROVE  mem' \in M /\ CommandWithin(op', M) /\ disk' = disk /\ fd' = fd
<1> DEFINE d == ParentOf(mem, disk.data, p)
           e == EntriesOf(mem, disk.data, d)
           s == LeastOf(Named(e, Last(p)))
           i == Lookup(mem, disk.data, p)
           m0 == Freed(mem, i)
           m1 == [m0 EXCEPT !.inode[i] = FreeInode,
                            !.dir = IF d = Root THEN [@ EXCEPT ![s] = FreeEntry] ELSE @]
           d1 == Flagged(disk, "dirty")
           f == [e EXCEPT ![s] = FreeEntry]
           d2 == PutEntries(d1, m1, d, f)
           begin == At(mem, <<d1>>)
           rest == IF d = Root THEN At(m1, FlushTables(d1, m1, TRUE))
                   ELSE IF CanFlushSubdir(m1, d) THEN At(m1, <<d2>> \o FlushTables(d2, m1, FALSE))
                   ELSE <<>>
           ok == d = Root \/ CanFlushSubdir(m1, d)
<1>1. /\ d # Absent /\ i # Absent
      /\ op' = Command("remove", p, mem, disk, begin \o rest, m1, ok, Nothing)
      /\ mem' = mem /\ disk' = disk /\ fd' = fd
  BY DEF RemovePath
<1>2. mem \in M /\ mem \in Memory /\ disk \in Disk /\ p \in Seq(Names)
  BY CommandsAssumption DEF VolumeWithin, TableSet, SoundMemory
<1>3. i \in Inodes /\ d \in Inodes \union {Root}
  BY <1>1, PathsFound
<1> HIDE DEF i, d
<1>4. e \in [Slots -> Entry]
  BY <1>2, <1>3, EntriesWithin
<1>5. m0 \in M /\ m0 \in Memory
  BY <1>2, <1>3, FreedWithin DEF TableSet, SoundMemory
<1>6. FreeInode \in Inode /\ FreeEntry \in Entry /\ Span(FreeInode) = {}
  BY Blanks DEF TableSet, Span, FreeInode
<1> HIDE DEF e, s, m0
<1>7. m1 \in M /\ m1 \in Memory
  <2>1. /\ m1 \in Memory /\ m1.inode[i] = FreeInode /\ m1.map = m0.map
        /\ \A j \in Inodes \ {i} : m1.inode[j] = m0.inode[j]
    BY <1>3, <1>5, <1>6 DEF Memory
  <2> HIDE DEF m1
  <2>2. ASSUME Sound(m0) PROVE Fits(m0, i, FreeInode, m1.map)
    BY <1>3, <1>6, <2>1, <2>2 DEF Fits, Sound
  <2> QED
    BY <1>3, <1>5, <2>1, <2>2, ChangedWithin
<1>8. d1 \in Disk /\ f \in [Slots -> Entry]
  BY <1>2, <1>4, <1>6, FlagWithin
<1> HIDE DEF m1, d1, f
<1>9. d2 \in Disk
  BY <1>7, <1>8, EntriesPut
<1> HIDE DEF d2
<1>10. begin \in Writing(M)
  <2>1. <<d1>> \in Seq(Disk)
    BY <1>8
  <2> QED
    BY <1>2, <2>1, AtWithin
<1>11. rest \in Writing(M)
  <2>1. <<>> \in Writing(M)
    BY DEF Writing
  <2>2. FlushTables(d1, m1, TRUE) \in Seq(Disk) /\ <<d2>> \o FlushTables(d2, m1, FALSE) \in Seq(Disk)
    BY <1>7, <1>8, <1>9, FlushWithin, OneMore
  <2> QED
    BY <1>7, <2>1, <2>2, AtWithin
<1> HIDE DEF begin, rest, ok
<1>12. begin \o rest \in Writing(M)
  BY <1>10, <1>11, WritingJoined
<1> QED
  BY <1>1, <1>2, <1>7, <1>12, CommandStarts

-----------------------------------------------------------------------------
(* Formatting and repairing.                                               *)

LEMMA FormatKeeps ==
    ASSUME NEW M, TableSet(M), VolumeWithin(M), Format
    PROVE  mem' \in M /\ CommandWithin(op', M) /\ disk' = disk /\ fd' = fd
<1> DEFINE blank == Tables(mem.mounted, BlankTables)
           d1 == Flagged(disk, "clean")
           flush == FlushTables(d1, blank, TRUE)
           todo == At(mem, <<d1>>) \o At(blank, Front(flush))
<1>1. /\ op' = Command("format", <<>>, mem, disk, todo, Loaded(BlankTables), TRUE, Nothing)
      /\ mem' = mem /\ disk' = disk /\ fd' = fd
  BY DEF Format
<1>2. mem \in M /\ mem \in Memory /\ disk \in Disk
  BY DEF VolumeWithin, TableSet, SoundMemory
<1>3. blank \in M /\ blank \in Memory /\ Loaded(BlankTables) \in M
  <2>1. mem.mounted \in BOOLEAN
    BY <1>2 DEF Memory
  <2>2. BlankTables.map = {}
    BY DEF BlankTables
  <2>3. blank \in M
    BY <2>1, <2>2, Blanks DEF Tables
  <2> QED
    BY <2>3, Blanks DEF TableSet, SoundMemory
<1>4. d1 \in Disk
  BY <1>2, FlagWithin
<1> HIDE DEF blank, d1
<1>5. flush \in Seq(Disk)
  BY <1>3, <1>4, FlushWithin
<1> HIDE DEF flush
<1>6. Front(flush) \in Seq(Disk)
  BY <1>5 DEF Front
<1>7. <<d1>> \in Seq(Disk) /\ <<>> \in Seq(Names)
  BY <1>4
<1>8. todo \in Writing(M)
  BY <1>2, <1>3, <1>6, <1>7, AtWithin, WritingJoined
<1> HIDE DEF todo
<1> QED
  BY <1>1, <1>2, <1>3, <1>7, <1>8, CommandStarts

\* Dropping entries keeps a directory a directory.
LEMMA ValidWithin ==
    ASSUME NEW t, NEW e \in [Slots -> Entry]
    PROVE  ValidOnly(t, e) \in [Slots -> Entry]
BY Blanks DEF ValidOnly, TableSet

LEMMA RepairKeeps ==
    ASSUME NEW M, TableSet(M), VolumeWithin(M), Repair
    PROVE  mem' \in M /\ CommandWithin(op', M) /\ disk' = disk /\ fd' = fd
<1> DEFINE m1 == [mem EXCEPT !.dir = ValidOnly(mem, mem.dir)]
           c == Command("repairing", <<>>, mem, disk, <<>>, m1, TRUE, Nothing)
           rest == SetToSortSeq({i \in Inodes : mem.inode[i].type = "dir"}, <)
           sound == Matches(mem, disk) /\ Sound(disk)
           cleared == m1.dir # mem.dir
<1>1. /\ op' = [c EXCEPT !.sound = sound, !.cleared = cleared, !.rest = rest]
      /\ mem' = mem /\ disk' = disk /\ fd' = fd
  BY DEF Repair
<1>2. mem \in M /\ mem \in Memory
  BY DEF VolumeWithin, TableSet, SoundMemory
<1>3. m1 \in M
  <2>1. ValidOnly(mem, mem.dir) \in [Slots -> Entry]
    BY <1>2, ValidWithin DEF Memory
  <2>2. m1 \in Memory /\ m1.inode = mem.inode /\ m1.map = mem.map
    BY <1>2, <2>1 DEF Memory
  <2> HIDE DEF m1
  <2>3. 1 \in Inodes
    BY VolumeSizes DEF Inodes
  <2>4. ASSUME Sound(mem) PROVE Fits(mem, 1, m1.inode[1], m1.map)
    BY <2>2, <2>3, <2>4 DEF Fits, Sound, Span, Extent
  <2> QED
    BY <1>2, <2>2, <2>3, <2>4, ChangedWithin
<1>4. <<>> \in Writing(M) /\ <<>> \in Seq(Names)
  BY DEF Writing
<1> HIDE DEF m1, rest, sound, cleared
<1>5. CommandWithin(c, M)
  BY <1>3, <1>4, CommandStarts
<1> HIDE DEF c
<1> QED
  BY <1>1, <1>2, <1>5 DEF CommandWithin

LEMMA RepairDirectoryKeeps ==
    ASSUME NEW M, TableSet(M), VolumeWithin(M), RepairDirectory
    PROVE  mem' \in M /\ CommandWithin(op', M) /\ disk' = disk /\ fd' = fd
<1> DEFINE i == Head(op.rest)
           e == EntriesOf(op.end, disk.data, i)
           f == ValidOnly(op.end, e)
           d == PutEntries(disk, op.end, i, f)
           todo == IF f # e /\ CanFlushSubdir(op.end, i) THEN At(op.end, <<d>>) ELSE <<>>
<1>1. /\ op' = [op EXCEPT !.rest = Tail(@), !.todo = todo]
      /\ op.rest # <<>> /\ mem' = mem /\ disk' = disk /\ fd' = fd
  BY DEF RepairDirectory
<1>2. mem \in M /\ disk \in Disk /\ CommandWithin(op, M) /\ op.end \in M /\ op.end \in Memory
  BY DEF VolumeWithin, CommandWithin, TableSet, SoundMemory
<1>3. todo \in Writing(M)
  <2>1. CASE ~(f # e /\ CanFlushSubdir(op.end, i))
    BY <2>1 DEF Writing
  <2>2. CASE f # e /\ CanFlushSubdir(op.end, i)
    <3>1. i \in Inodes
      BY <2>2 DEF CanFlushSubdir
    <3> HIDE DEF i
    <3>2. f \in [Slots -> Entry]
      BY <1>2, <3>1, EntriesWithin, ValidWithin
    <3> HIDE DEF f
    <3>3. d \in Disk
      BY <1>2, <3>2, EntriesPut
    <3> HIDE DEF d
    <3>4. <<d>> \in Seq(Disk)
      BY <3>3
    <3> QED
      BY <1>2, <2>2, <3>4, AtWithin
  <2> QED
    BY <2>1, <2>2
<1> HIDE DEF todo
<1> QED
  BY <1>1, <1>2, <1>3 DEF CommandWithin

LEMMA RepairTablesKeeps ==
    ASSUME NEW M, TableSet(M), VolumeWithin(M), RepairTables
    PROVE  mem' \in M /\ CommandWithin(op', M) /\ disk' = disk /\ fd' = fd
<1> DEFINE m == op.end
           a == FlushBitmap(disk, m)
           d0 == EndOf(disk, a)
           b == IF op.cleared THEN FlushDirectory(d0, m) ELSE <<>>
           d1 == Flagged(EndOf(d0, b), "clean")
           todo == At(m, a \o b \o <<d1>>)
<1>1. op' = [op EXCEPT !.kind = "repair", !.todo = todo] /\ mem' = mem /\ disk' = disk /\ fd' = fd
  BY DEF RepairTables
<1>2. mem \in M /\ disk \in Disk /\ CommandWithin(op, M) /\ m \in M /\ m \in Memory
  BY DEF VolumeWithin, CommandWithin, TableSet, SoundMemory
<1> HIDE DEF m
<1>3. a \in Seq(Disk) /\ d0 \in Disk
  BY <1>2, FlushesWithin, EndWithin
<1> HIDE DEF a, d0
<1>4. b \in Seq(Disk)
  BY <1>2, <1>3, FlushesWithin
<1> HIDE DEF b
<1>5. d1 \in Disk
  BY <1>3, <1>4, EndWithin, FlagWithin
<1> HIDE DEF d1
<1>6. a \o b \o <<d1>> \in Seq(Disk)
  BY <1>3, <1>4, <1>5
<1>7. todo \in Writing(M)
  BY <1>2, <1>6, AtWithin
<1> HIDE DEF todo
<1> QED
  BY <1>1, <1>2, <1>7 DEF CommandWithin

-----------------------------------------------------------------------------
(* Descriptors.                                                            *)

LEMMA OpenedWithin ==
    ASSUME NEW m, fd \in Descriptor, fd.open => fd.inode \in Inodes, NEW p, NEW x, x = Opened(m, p)
    PROVE  x \in Descriptor /\ (x.open => x.inode \in Inodes)
<1>1. Lookup(m, disk.data, p) # Absent => Lookup(m, disk.data, p) \in Inodes
  BY PathsFound
<1> QED
  BY <1>1, VolumeSizes, CommandsAssumption DEF Opened, Descriptor, Inodes

LEMMA FdWriteKeeps ==
    ASSUME NEW M, TableSet(M), VolumeWithin(M), NEW n \in FdSizes, FdWrite(n)
    PROVE  mem' \in M /\ CommandWithin(op', M) /\ disk' = disk /\ fd' = fd
<1> DEFINE i == fd.inode
           old == mem.inode[i]
           need == fd.off + n
           grow == need > old.len
           k == FirstRun(mem.map, need)
           m1 == IF grow THEN [mem EXCEPT !.map = @ \union RunSet(k, need)] ELSE mem
           x == WithExtent(old, k, need)
           m2 == IF grow THEN [m1 EXCEPT !.map = @ \ Extent(mem, i), !.inode[i] = WithExtent(@, k, need)]
                 ELSE m1
           m3 == IF need > old.size THEN [m2 EXCEPT !.inode[i] = [@ EXCEPT !.size = need]] ELSE m2
           d1 == Flagged(disk, "dirty")
           copies == IF grow THEN Copy(d1, old.start, k, old.len) ELSE <<>>
           d2 == EndOf(d1, copies)
           text == Fill(d2, m2.inode[i].start + fd.off, n, TextSector(FdText))
           flush == FlushTables(EndOf(d2, text), m3, FALSE)
           todo == At(mem, <<d1>>) \o At(m1, copies) \o At(m2, text) \o At(m3, flush)
           view == Overwritten(mem, disk.data, i, fd.off, n)
<1>1. /\ fd.open /\ old.type = "file" /\ need <= MaxOffset
      /\ op' = IF grow /\ ~HasRoom(mem.map, need)
               THEN Command("fdwrite", <<>>, mem, disk, At(mem, <<d1>>), mem, FALSE, Nothing)
               ELSE [Command("fdwrite", <<>>, mem, disk, todo, m3, TRUE, view) EXCEPT !.off = need]
      /\ mem' = mem /\ disk' = disk /\ fd' = fd
  BY DEF FdWrite
<1>2. mem \in M /\ mem \in Memory /\ disk \in Disk /\ i \in Inodes /\ fd.off \in Nat
  <2>1. mem \in M /\ disk \in Disk /\ fd \in Descriptor /\ i \in Inodes
    BY <1>1 DEF VolumeWithin
  <2>2. fd.off \in Nat
    BY <2>1, CommandsAssumption DEF Descriptor
  <2> QED
    BY <2>1, <2>2 DEF TableSet, SoundMemory
<1> HIDE DEF i
<1>3. old \in Inode /\ n \in Nat /\ need \in 0 .. MaxOffset
  <2>1. old \in Inode
    BY <1>2 DEF Memory
  <2>2. n \in Nat
    BY CommandsAssumption
  <2> HIDE DEF old
  <2> QED
    BY <1>1, <1>2, <2>1, <2>2, CommandsAssumption
<1> HIDE DEF need
<1>4. d1 \in Disk /\ <<>> \in Seq(Names)
  BY <1>2, FlagWithin
<1> HIDE DEF d1
<1>5. <<d1>> \in Seq(Disk)
  BY <1>4
<1>6. CASE grow /\ ~HasRoom(mem.map, need)
  <2>1. At(mem, <<d1>>) \in Writing(M)
    BY <1>2, <1>5, AtWithin
  <2> QED
    BY <1>1, <1>2, <1>4, <1>6, <2>1, CommandStarts
<1>7. CASE ~(grow /\ ~HasRoom(mem.map, need))
  <2>1. grow => /\ k \in 0 .. MaxSector /\ need \in 0 .. MaxSector
                /\ need # 0 => k \in Sectors /\ k + need - 1 \in Sectors
                /\ RunSet(k, need) \subseteq Sectors /\ RunSet(k, need) \cap mem.map = {}
    <3> HIDE DEF old
    <3>1. mem.map \in SUBSET Sectors /\ need \in Nat
      BY <1>2, <1>3, CommandsAssumption DEF Memory
    <3> QED
      BY <1>7, <3>1, RunFound
  <2> HIDE DEF k
  <2>2. /\ m1 \in M /\ m1 \in Memory /\ m1.inode = mem.inode
        /\ grow => m1.map = mem.map \union RunSet(k, need)
    <3>1. CASE ~grow
      BY <1>2, <3>1
    <3>2. CASE grow
      <4> HIDE DEF grow
      <4>1. m1 \in Memory /\ m1.inode = mem.inode /\ m1.map = mem.map \union RunSet(k, need)
        BY <1>2, <2>1, <3>2 DEF Memory
      <4> HIDE DEF m1
      <4>2. ASSUME Sound(mem) PROVE Fits(mem, i, m1.inode[i], m1.map)
        BY <1>2, <4>1, <4>2 DEF Fits, Sound, Span, Extent
      <4> QED
        BY <1>2, <4>1, <4>2, ChangedWithin
    <3> QED
      BY <3>1, <3>2
  <2> HIDE DEF m1
  <2>3. m2 \in M /\ m2 \in Memory
    <3>1. CASE ~grow
      BY <2>2, <3>1
    <3>2. CASE grow
      <4> HIDE DEF grow
      <4>1. x \in Inode /\ Span(x) = RunSet(k, need)
        <5> HIDE DEF old
        <5>1. x \in Inode /\ x.start = k /\ x.len = need
          BY <1>3, <2>1, <3>2, ExtentPut
        <5> HIDE DEF x
        <5> QED
          BY <5>1 DEF Span, RunSet
      <4>2. m2 = [m1 EXCEPT !.map = m1.map \ Extent(mem, i), !.inode[i] = x]
        BY <2>2, <3>2
      <4> HIDE DEF m2, x
      <4>3. /\ m2 \in Memory /\ m2.inode[i] = x /\ m2.map = m1.map \ Extent(mem, i)
            /\ \A j \in Inodes \ {i} : m2.inode[j] = mem.inode[j]
        BY <1>2, <2>2, <4>1, <4>2 DEF Memory
      <4>4. ASSUME Sound(mem) PROVE Fits(mem, i, x, m2.map)
        BY <1>2, <2>1, <2>2, <3>2, <4>1, <4>3, <4>4 DEF Fits, Sound
      <4> QED
        BY <1>2, <4>3, <4>4, ChangedWithin
    <3> QED
      BY <3>1, <3>2
  <2>4. m3 \in M /\ m3 \in Memory
    <3> DEFINE Sized(o) == [o EXCEPT !.size = need]
    <3> HIDE DEF m2
    <3>1. m2.inode[i] \in Inode
      BY <1>2, <2>3 DEF Memory
    <3>2. \A o \in Inode : Sized(o) \in Inode /\ Sized(o).start = o.start /\ Sized(o).len = o.len
      BY <1>3, CommandsAssumption DEF Inode
    <3>3. m3 = IF need > old.size THEN [m2 EXCEPT !.inode[i] = Sized(m2.inode[i])] ELSE m2
      OBVIOUS
    <3> HIDE DEF Sized, m3, old
    <3>4. CASE ~(need > old.size)
      BY <2>3, <3>3, <3>4
    <3>5. CASE need > old.size
      <4>1. /\ m3 \in Memory /\ m3.inode[i] = Sized(m2.inode[i]) /\ m3.map = m2.map
            /\ \A j \in Inodes \ {i} : m3.inode[j] = m2.inode[j]
        BY <1>2, <2>3, <3>1, <3>2, <3>3, <3>5 DEF Memory
      <4>2. ASSUME Sound(m2) PROVE Fits(m2, i, m3.inode[i], m3.map)
        BY <1>2, <3>1, <3>2, <4>1, <4>2 DEF Fits, Sound, Span, Extent
      <4> QED
        BY <1>2, <2>3, <4>1, <4>2, ChangedWithin
    <3> QED
      BY <3>4, <3>5
  <2>5. copies \in Seq(Disk)
    <3>1. CASE ~grow
      BY <3>1
    <3>2. CASE grow
      <4>1. k \in Nat
        BY <2>1, <3>2, VolumeSizes
      <4>2. /\ old.start \in Nat /\ old.len \in Nat
            /\ old.start .. old.start + old.len - 1 \subseteq Sectors
        BY <1>3, VolumeSizes DEF Inode, Sectors
      <4> HIDE DEF old
      <4> QED
        BY <1>4, <3>2, <4>1, <4>2, CopyWithin
    <3> QED
      BY <3>1, <3>2
  <2> HIDE DEF m1, m2, m3, copies
  <2>6. d2 \in Disk
    BY <1>4, <2>5, EndWithin
  <2> HIDE DEF d2
  <2>7. text \in Seq(Disk)
    <3>1. m2.inode[i].start \in Nat
      BY <1>2, <2>3 DEF Memory, Inode
    <3>2. m2.inode[i].start + fd.off \in Nat
      BY <1>2, <3>1
    <3>3. TextSector(FdText) \in Sector
      BY SectorsWithin DEF Texts
    <3> QED
      BY <1>3, <2>6, <3>2, <3>3, FillWithin
  <2> HIDE DEF text
  <2>8. flush \in Seq(Disk)
    BY <2>4, <2>6, <2>7, EndWithin, FlushWithin
  <2> HIDE DEF flush
  <2>9. /\ At(mem, <<d1>>) \in Writing(M) /\ At(m1, copies) \in Writing(M)
        /\ At(m2, text) \in Writing(M) /\ At(m3, flush) \in Writing(M)
    BY <1>2, <1>5, <2>2, <2>3, <2>4, <2>5, <2>7, <2>8, AtWithin
  <2>10. todo \in Writing(M)
    BY <2>9, WritingJoined
  <2> HIDE DEF todo, view
  <2> DEFINE c == Command("fdwrite", <<>>, mem, disk, todo, m3, TRUE, view)
  <2>11. CommandWithin(c, M)
    BY <1>4, <2>4, <2>10, CommandStarts
  <2>12. op' = [c EXCEPT !.off = need]
    BY <1>1, <1>7
  <2> HIDE DEF c
  <2> QED
    BY <1>1, <1>2, <1>3, <2>11, <2>12 DEF CommandWithin
<1> QED
  BY <1>6, <1>7

-----------------------------------------------------------------------------
(* Progress.                                                               *)

\* A sequence of writes leaves sound tables in memory at each of them.
LEMMA SoundWriting ==
    ASSUME NEW todo
    PROVE  todo \in Writing(SoundMemory) <=>
              todo \in Writing(Memory) /\ \A k \in DOMAIN todo : Sound(todo[k].mem)
<1> DEFINE E == [mem : Memory, disk : Disk]
           F == [mem : SoundMemory, disk : Disk]
<1>1. \A w : w \in F <=> w \in E /\ Sound(w.mem)
  BY DEF SoundMemory
<1> HIDE DEF E, F
<1>2. \A w \in Seq(E) : (\A k \in DOMAIN w : Sound(w[k].mem)) => w \in Seq(F)
  <2> TAKE w \in Seq(E)
  <2> HAVE \A k \in DOMAIN w : Sound(w[k].mem)
  <2>1. \A k \in 1 .. Len(w) : w[k] \in F
    BY <1>1, ElementOfSeq
  <2> QED
    BY <2>1, SeqDef
<1>3. \A w \in Seq(F) : w \in Seq(E) /\ \A k \in DOMAIN w : Sound(w[k].mem)
  <2> TAKE w \in Seq(F)
  <2>1. \A k \in 1 .. Len(w) : w[k] \in E /\ Sound(w[k].mem)
    BY <1>1, ElementOfSeq
  <2> QED
    BY <2>1
<1> QED
  BY <1>2, <1>3 DEF Writing, E, F

\* The next write of a command is well-formed, and so are those after it.
LEMMA HeadWithin ==
    ASSUME NEW M, NEW todo \in Writing(M), todo # <<>>
    PROVE  Head(todo).mem \in M /\ Head(todo).disk \in Disk /\ Tail(todo) \in Writing(M)
<1>1. Head(todo) \in [mem : M, disk : Disk]
  <2> DEFINE E == [mem : M, disk : Disk]
  <2>1. todo \in Seq(E)
    BY DEF Writing
  <2> HIDE DEF E
  <2>2. Head(todo) \in E
    BY <2>1, HeadTailProperties
  <2> QED
    BY <2>2 DEF E
<1>2. Tail(todo) \in Writing(M)
  BY DEF Writing
<1> QED
  BY <1>1, <1>2

LEMMA StepKeeps ==
    ASSUME NEW M, VolumeWithin(M), Step
    PROVE  VolumeWithin(M)'
<1>1. op.todo \in Writing(M) /\ op.todo # <<>>
  BY DEF VolumeWithin, CommandWithin, Step
<1>2. mem' \in M /\ disk' \in Disk /\ Tail(op.todo) \in Writing(M)
  BY <1>1, HeadWithin DEF Step
<1>3. CommandWithin(op', M)
  BY <1>2 DEF VolumeWithin, CommandWithin, Step
<1> QED
  BY <1>2, <1>3 DEF VolumeWithin, Step

LEMMA WriteErrorKeeps ==
    ASSUME NEW M, TableSet(M), VolumeWithin(M), WriteError
    PROVE  VolumeWithin(M)'
<1>1. op.todo \in Writing(M) /\ op.todo # <<>>
  BY DEF VolumeWithin, CommandWithin, WriteError
<1>2. mem' \in M /\ disk' \in Disk
  BY <1>1, HeadWithin DEF WriteError, VolumeWithin
<1>3. CommandWithin(op', M)
  <2>1. <<>> \in Writing(M)
    BY DEF Writing
  <2>2. CommandWithin([op EXCEPT !.todo = <<>>], M)
    BY <2>1 DEF VolumeWithin, CommandWithin
  <2> QED
    BY <2>2, IdleWithin DEF WriteError
<1>4. faults' \in 0 .. MaxFaults
  BY CommandsAssumption DEF VolumeWithin, WriteError
<1> QED
  BY <1>2, <1>3, <1>4 DEF VolumeWithin, WriteError

LEMMA ReturnKeeps ==
    ASSUME NEW M, TableSet(M), VolumeWithin(M), Return
    PROVE  VolumeWithin(M)'
<1> DEFINE q == NextPrefix(op.end, disk, op.goal)
<1>1. op.end \in M /\ op.goal \in Seq(Names) /\ op.off \in 0 .. MaxOffset /\ disk \in Disk
  BY DEF VolumeWithin, CommandWithin
<1>2. CommandWithin(op', M)
  <2>1. CASE MissingPrefixes(op.end, disk, op.goal) # {} /\ CanMkdir(op.end, disk, q)
    <3>1. q \in Seq(Names) /\ q # <<>>
      BY <1>1, <2>1, PrefixFound
    <3>2. CommandWithin(MkdirSingle(op.goal, q, op.end, disk), M)
      BY <1>1, <2>1, <3>1, MkdirStarts
    <3> QED
      BY <3>2, IdleWithin DEF Return
  <2>2. CASE ~(MissingPrefixes(op.end, disk, op.goal) # {} /\ CanMkdir(op.end, disk, q))
    BY <2>2, IdleWithin DEF Return
  <2> QED
    BY <2>1, <2>2
<1>3. fd \in Descriptor /\ (fd.open => fd.inode \in Inodes)
  BY DEF VolumeWithin
<1>4. Opened(op.end, op.path) \in Descriptor
      /\ (Opened(op.end, op.path).open => Opened(op.end, op.path).inode \in Inodes)
  BY <1>3, OpenedWithin
<1>5. fd' \in Descriptor /\ (fd'.open => fd'.inode \in Inodes)
  <2> DEFINE moved == [fd EXCEPT !.off = op.off]
  <2>1. moved \in Descriptor /\ (moved.open => moved.inode \in Inodes)
    BY <1>1, <1>3 DEF Descriptor
  <2>2. fd' \in {Opened(op.end, op.path), moved, fd}
    BY DEF Return
  <2> HIDE DEF moved
  <2> QED
    BY <1>3, <1>4, <2>1, <2>2
<1>6. mem' = op.end /\ disk' = disk /\ faults' = faults
  BY DEF Return
<1> QED
  BY <1>1, <1>2, <1>5, <1>6 DEF VolumeWithin

LEMMA CrashKeeps ==
    ASSUME NEW M, TableSet(M), VolumeWithin(M), Crash
    PROVE  VolumeWithin(M)'
<1>1. Unmounted \in M /\ CommandWithin(Idle, M)
  BY Blanks, IdleWithin
<1>2. Closed \in Descriptor /\ ~Closed.open
  BY VolumeSizes, CommandsAssumption DEF Closed, Descriptor, Root
<1>3. faults' \in 0 .. MaxFaults
  BY CommandsAssumption DEF VolumeWithin, Crash
<1> QED
  BY <1>1, <1>2, <1>3 DEF VolumeWithin, Crash

LEMMA UmountKeeps ==
    ASSUME NEW M, TableSet(M), VolumeWithin(M), Umount
    PROVE  VolumeWithin(M)'
<1>1. Unmounted \in M /\ Flagged(disk, "clean") \in Disk
  BY Blanks, FlagWithin DEF VolumeWithin
<1>2. faults' \in 0 .. MaxFaults
  BY CommandsAssumption DEF VolumeWithin, Umount
<1> QED
  BY <1>1, <1>2 DEF VolumeWithin, Umount

\* A mount takes its tables from the disk, where they are well-formed.
LEMMA MountKeeps ==
    ASSUME VolumeWithin(Memory), Mount
    PROVE  VolumeWithin(Memory)'
<1>1. Unmounted \in Memory /\ disk \in Disk
  BY Blanks DEF TableSet, VolumeWithin
<1>2. Loaded(disk) \in Memory
  BY <1>1 DEF Loaded, Tables, Memory, Disk
<1>3. ASSUME NEW k
      PROVE  LoadedUpTo(disk, k) \in Memory
  <2>1. /\ [i \in Inodes |-> IF i <= k THEN disk.inode[i] ELSE FreeInode] \in [Inodes -> Inode]
        /\ [s \in Slots |-> IF MaxInode + s <= k THEN disk.dir[s] ELSE FreeEntry] \in [Slots -> Entry]
    BY <1>1, Blanks DEF Disk, TableSet
  <2> QED
    BY <1>1, <2>1 DEF LoadedUpTo, Memory
<1>4. mem' \in Memory
  BY <1>1, <1>2, <1>3 DEF Mount
<1>5. faults' \in 0 .. MaxFaults
  BY CommandsAssumption DEF VolumeWithin, Mount
<1> QED
  BY <1>4, <1>5 DEF VolumeWithin, Mount

LEMMA FdOpenKeeps ==
    ASSUME NEW M, TableSet(M), VolumeWithin(M), NEW p \in FdPaths, NEW create \in BOOLEAN,
           FdOpen(p, create)
    PROVE  VolumeWithin(M)'
<1>1. p \in Paths /\ 0 \in Nat
  BY CommandsAssumption
<1>2. CASE Ready /\ WriteFile("open", p, 0)
  <2>1. mem' \in M /\ CommandWithin(op', M) /\ disk' = disk /\ fd' = fd
    BY <1>1, <1>2, WriteFileKeeps
  <2>2. faults' \in 0 .. MaxFaults
    BY <1>2, CommandsAssumption DEF Ready, VolumeWithin
  <2> QED
    BY <2>1, <2>2 DEF VolumeWithin
<1>3. CASE fd' = Opened(mem, p) /\ UNCHANGED <<mem, disk, op, faults>>
  <2>1. fd \in Descriptor /\ (fd.open => fd.inode \in Inodes)
    BY DEF VolumeWithin
  <2>2. fd' \in Descriptor /\ (fd'.open => fd'.inode \in Inodes)
    BY <1>3, <2>1, OpenedWithin
  <2> QED
    BY <1>3, <2>2 DEF VolumeWithin
<1> QED
  BY <1>2, <1>3 DEF FdOpen

LEMMA FdMoves ==
    ASSUME NEW M, VolumeWithin(M), FdClose \/ \E o \in 0 .. MaxOffset : FdSeek(o)
    PROVE  VolumeWithin(M)'
<1>1. CASE FdClose
  <2>1. Closed \in Descriptor /\ ~Closed.open
    BY VolumeSizes, CommandsAssumption DEF Closed, Descriptor, Root
  <2> QED
    BY <1>1, <2>1 DEF FdClose, VolumeWithin
<1>2. CASE \E o \in 0 .. MaxOffset : FdSeek(o)
  <2>1. PICK o \in 0 .. MaxOffset : FdSeek(o)
    BY <1>2
  <2>2. fd' \in Descriptor /\ (fd'.open => fd'.inode \in Inodes)
    BY <2>1 DEF FdSeek, VolumeWithin, Descriptor
  <2> QED
    BY <2>1, <2>2 DEF FdSeek, VolumeWithin
<1> QED
  BY <1>1, <1>2

\* Every step but a mount keeps the tables within M.
LEMMA NextKeeps ==
    ASSUME NEW M, TableSet(M), VolumeWithin(M), Next
    PROVE  Mount \/ VolumeWithin(M)'
<1> DEFINE Starts == mem' \in M /\ CommandWithin(op', M) /\ disk' = disk /\ fd' = fd
<1>1. ASSUME Starts, Ready \/ faults' = faults PROVE VolumeWithin(M)'
  <2>1. faults' \in 0 .. MaxFaults
    BY <1>1, CommandsAssumption DEF Ready, VolumeWithin
  <2> QED
    BY <1>1, <2>1 DEF VolumeWithin
<1>2. ASSUME NEW w \in Writes, Write(w[1], w[2]) PROVE VolumeWithin(M)'
  <2>1. w[1] \in Paths /\ w[2] \in Nat
    BY CommandsAssumption
  <2> QED
    BY <1>1, <1>2, <2>1, WriteFileKeeps DEF Write
<1>3. ASSUME NEW p \in DirPaths, Mkdir(p) PROVE VolumeWithin(M)'
  <2>1. p \in Paths /\ Ready
    BY <1>3, CommandsAssumption DEF Mkdir
  <2> QED
    BY <1>1, <1>3, <2>1, MkdirKeeps
<1>4. ASSUME NEW p \in Paths, RemovePath(p) PROVE VolumeWithin(M)'
  <2>1. Ready
    BY <1>4 DEF RemovePath
  <2> QED
    BY <1>1, <1>4, <2>1, RemovePathKeeps
<1>5. ASSUME NEW n \in FdSizes, FdWrite(n) PROVE VolumeWithin(M)'
  <2>1. Ready
    BY <1>5 DEF FdWrite
  <2> QED
    BY <1>1, <1>5, <2>1, FdWriteKeeps
<1>6. CASE Format
  BY <1>1, <1>6, FormatKeeps DEF Format
<1>7. CASE Repair
  BY <1>1, <1>7, RepairKeeps DEF Repair
<1>8. CASE RepairDirectory
  BY <1>1, <1>8, RepairDirectoryKeeps DEF RepairDirectory
<1>9. CASE RepairTables
  BY <1>1, <1>9, RepairTablesKeeps DEF RepairTables
<1> HIDE DEF Starts
<1>10. CASE FdClose \/ \E o \in 0 .. MaxOffset : FdSeek(o)
  BY <1>10, FdMoves
<1>11. CASE Umount \/ Step \/ Return \/ WriteError \/ Crash
  BY <1>11, UmountKeeps, StepKeeps, ReturnKeeps, WriteErrorKeeps, CrashKeeps
<1> QED
  BY <1>2, <1>3, <1>4, <1>5, <1>6, <1>7, <1>8, <1>9, <1>10, <1>11, FdOpenKeeps DEF Next

LEMMA UnchangedKeeps ==
    ASSUME NEW M, VolumeWithin(M), UNCHANGED vars
    PROVE  VolumeWithin(M)'
BY DEF VolumeWithin, vars

LEMMA InitWithin ==
    ASSUME Init
    PROVE  VolumeWithin(Memory)
<1>1. TableSet(Memory)
  BY DEF TableSet
<1>2. mem \in Memory /\ CommandWithin(op, Memory)
  BY <1>1, Blanks, IdleWithin DEF Init
<1>3. disk \in Disk
  BY <1>1, Blanks, SectorsWithin DEF Init, Disk, BlankTables
<1>4. fd \in Descriptor /\ ~fd.open /\ faults \in 0 .. MaxFaults
  BY VolumeSizes, CommandsAssumption DEF Init, Closed, Descriptor, Root
<1> QED
  BY <1>2, <1>3, <1>4 DEF VolumeWithin

-----------------------------------------------------------------------------
(* The theorems about the tables.                                          *)

\* The tables in memory and on the disk, and those of every write of a command
\* still to come, are well-formed in every state.
THEOREM VolumeInvariant == Spec => []VolumeWithin(Memory)
<1>1. TableSet(Memory)
  BY DEF TableSet
<1>2. Init => VolumeWithin(Memory)
  BY InitWithin
<1>3. VolumeWithin(Memory) /\ [Next]_vars => VolumeWithin(Memory)'
  BY <1>1, NextKeeps, MountKeeps, UnchangedKeeps
<1> QED
  BY <1>2, <1>3, PTL DEF Spec

\* No extent leaves the data area and no entry the inode table, for a volume of
\* any size, whatever is written, refused, interrupted or repaired.
THEOREM TypeCorrect == Spec => []TypeOK
<1>1. VolumeWithin(Memory) => TypeOK
  BY DEF VolumeWithin, TypeOK, Descriptor
<1> QED
  BY <1>1, VolumeInvariant, PTL

\* No command gives a sector to two files in memory or leaves a sector of a file
\* free in the bitmap in memory, at any of its writes or at its end, however it
\* ends; only a mount can bring such tables in.
THEOREM SoundAlwaysKept == Spec => SoundKept
<1>1. ASSUME VolumeWithin(Memory), [Next]_vars
      PROVE  [Mount \/ (MemorySound => MemorySound')]_vars
  <2> SUFFICES ASSUME MemorySound, ~Mount, ~UNCHANGED vars
               PROVE  MemorySound'
    OBVIOUS
  <2>1. TableSet(SoundMemory)
    BY DEF TableSet
  <2>2. VolumeWithin(SoundMemory)
    <3>1. op.todo \in Writing(SoundMemory)
      BY <1>1, SoundWriting DEF VolumeWithin, CommandWithin, MemorySound
    <3> QED
      BY <1>1, <3>1 DEF VolumeWithin, CommandWithin, MemorySound, SoundMemory
  <2>3. VolumeWithin(SoundMemory)'
    BY <1>1, <2>1, <2>2, NextKeeps
  <2> QED
    BY <2>3, SoundWriting DEF VolumeWithin, CommandWithin, MemorySound, SoundMemory
<1> QED
  BY <1>1, VolumeInvariant, PTL DEF Spec, SoundKept

-----------------------------------------------------------------------------
(* Walks.                                                                  *)

\* Tables of the right form, in memory or on the disk, and data sectors.
Formed(t, data) ==
    /\ t.inode \in [Inodes -> Inode] /\ t.dir \in [Slots -> Entry]
    /\ data \in [Sectors -> Sector]

Visited == {Absent} \union 0 .. BeyondTable   \* what a walk may arrive at

LEMMA EntriesFormed ==
    ASSUME NEW t, NEW data, Formed(t, data), NEW d \in Inodes \union {Root}
    PROVE  EntriesOf(t, data, d) \in [Slots -> Entry]
<1>1. CASE d = Root
  BY <1>1 DEF EntriesOf, Formed
<1>2. CASE d # Root /\ t.inode[d].len = 0
  BY <1>2, Blanks DEF EntriesOf, TableSet
<1>3. CASE d # Root /\ t.inode[d].len # 0
  <2>1. t.inode[d] \in Inode
    BY <1>3 DEF Formed
  <2>2. t.inode[d].start \in Sectors
    BY <1>3, <2>1 DEF Inode
  <2> QED
    BY <1>3, <2>2 DEF EntriesOf, Formed, Sector
<1> QED
  BY <1>1, <1>2, <1>3

LEMMA ChildFormed ==
    ASSUME NEW t, NEW data, Formed(t, data), NEW d, NEW n
    PROVE  Child(t, data, d, n) \in Visited
<1> DEFINE e == EntriesOf(t, data, d)
           s == LeastOf(Named(e, n))
<1>1. CASE ~(IsDirectory(t, d) /\ Named(e, n) # {})
  BY <1>1 DEF Child, Visited
<1>2. CASE IsDirectory(t, d) /\ Named(e, n) # {}
  <2>1. e \in [Slots -> Entry]
    BY <1>2, EntriesFormed DEF IsDirectory
  <2>2. s \in Slots
    BY <1>2, FirstFound, VolumeSizes DEF Named
  <2>3. e[s].inode \in 0 .. BeyondTable
    BY <2>1, <2>2 DEF Entry
  <2>4. Child(t, data, d, n) = e[s].inode
    BY <1>2 DEF Child
  <2> QED
    BY <2>3, <2>4 DEF Visited
<1> QED
  BY <1>1, <1>2

\* The nodes a walk passes.
IsTrail(t, data, p, g) ==
    g = [n \in 0 .. Len(p) |-> IF n = 0 THEN Root ELSE Child(t, data, g[n - 1], p[n])]

LEMMA TrailMade ==
    ASSUME NEW t, NEW data, NEW p \in Seq(Names)
    PROVE  \E g : IsTrail(t, data, p, g)
<1> DEFINE Upto(L, g) == g = [n \in 0 .. L |-> IF n = 0 THEN Root ELSE Child(t, data, g[n - 1], p[n])]
           T == {L \in Nat : L <= Len(p) /\ ~ \E g : Upto(L, g)}
<1> SUFFICES ASSUME T # {} PROVE FALSE
  BY DEF IsTrail
<1> DEFINE i == LeastOf(T)
<1>1. i \in T
  BY LeastNatural
<1>2. \A j \in T : i <= j
  <2>1. T \in SUBSET Nat
    OBVIOUS
  <2> QED
    BY <2>1, LeastNatural
<1> HIDE DEF i
<1>3. i # 0
  <2>1. Upto(0, [n \in 0 .. 0 |-> Root])
    OBVIOUS
  <2> QED
    BY <1>1, <2>1
<1>4. i \in Nat /\ i - 1 \in Nat /\ i <= Len(p) /\ i - 1 <= Len(p) /\ ~(i <= i - 1)
  BY <1>1, <1>3
<1>5. PICK h : Upto(i - 1, h)
  BY <1>2, <1>4
<1> DEFINE g == [n \in 0 .. i |-> IF n = i THEN Child(t, data, h[i - 1], p[i]) ELSE h[n]]
<1>6. Upto(i, g)
  <2>1. \A n \in 0 .. i : n # 0 => n - 1 \in 0 .. i /\ n - 1 # i /\ g[n - 1] = h[n - 1]
    BY <1>4
  <2>2. \A n \in 0 .. i - 1 : h[n] = IF n = 0 THEN Root ELSE Child(t, data, h[n - 1], p[n])
    BY <1>5
  <2>3. ASSUME NEW n \in 0 .. i
        PROVE  g[n] = IF n = 0 THEN Root ELSE Child(t, data, g[n - 1], p[n])
    <3>1. CASE n = i
      BY <1>3, <2>1, <3>1
    <3>2. CASE n # i
      <4>1. n \in 0 .. i - 1 /\ g[n] = h[n]
        BY <1>4, <3>2
      <4> QED
        BY <2>1, <2>2, <4>1
    <3> QED
      BY <3>1, <3>2
  <2> QED
    BY <2>3
<1> QED
  BY <1>1, <1>6

LEMMA TrailWalked ==
    ASSUME NEW t, NEW data, NEW p \in Seq(Names)
    PROVE  \E g : IsTrail(t, data, p, g) /\ Walk(t, data, p) = g[Len(p)]
<1> DEFINE g == CHOOSE g : IsTrail(t, data, p, g)
<1>1. IsTrail(t, data, p, g)
  BY TrailMade
<1>2. Walk(t, data, p) = g[Len(p)]
  BY DEF Walk, IsTrail
<1> QED
  BY <1>1, <1>2

\* All of a path but its last name, and that name.
LEMMA Fronts ==
    ASSUME NEW p \in Seq(Names), p # <<>>
    PROVE  /\ Front(p) \in Seq(Names) /\ Len(Front(p)) = Len(p) - 1 /\ Len(Front(p)) \in Nat
           /\ Len(p) \in Nat \ {0} /\ Last(p) = p[Len(p)] /\ Last(p) \in Names
           /\ \A n \in 1 .. Len(p) - 1 : Front(p)[n] = p[n]
<1> DEFINE L == Len(p)
<1>1. L \in Nat \ {0} /\ \A n \in 1 .. L : p[n] \in Names
  OBVIOUS
<1>2. Front(p) = SubSeq(p, 1, L - 1) /\ Last(p) = p[L]
  BY DEF Front, Last
<1> HIDE DEF L
<1>3. /\ SubSeq(p, 1, L - 1) \in Seq(Names)
      /\ Len(SubSeq(p, 1, L - 1)) = IF 1 <= L - 1 THEN L - 1 - 1 + 1 ELSE 0
      /\ \A i \in 1 .. L - 1 - 1 + 1 : SubSeq(p, 1, L - 1)[i] = p[1 + i - 1]
  <2>1. 1 \in Int /\ L - 1 \in Int /\ \A i \in 1 .. L - 1 : p[i] \in Names
    BY <1>1
  <2> QED
    BY <2>1, SubSeqProperties
<1>4. Len(Front(p)) = L - 1 /\ L - 1 \in Nat
  BY <1>1, <1>2, <1>3
<1>5. \A i \in 1 .. L - 1 : Front(p)[i] = p[i]
  BY <1>1, <1>2, <1>3
<1>6. Last(p) \in Names
  BY <1>1, <1>2
<1> QED
  BY <1>1, <1>2, <1>3, <1>4, <1>5, <1>6 DEF L

LEMMA SamePath ==
    ASSUME NEW p \in Seq(Names), p # <<>>, NEW q \in Seq(Names), q # <<>>,
           Front(p) = Front(q), Last(p) = Last(q)
    PROVE  p = q
<1>1. Len(p) = Len(q) /\ Len(p) \in Nat \ {0}
  BY Fronts
<1>2. \A n \in 1 .. Len(p) : p[n] = q[n]
  <2> TAKE n \in 1 .. Len(p)
  <2>1. CASE n = Len(p)
    BY <1>1, <2>1, Fronts
  <2>2. CASE n # Len(p)
    <3>1. n \in 1 .. Len(p) - 1 /\ n \in 1 .. Len(q) - 1
      BY <1>1, <2>2
    <3>2. Front(p)[n] = p[n] /\ Front(q)[n] = q[n]
      BY <3>1, Fronts
    <3> QED
      BY <3>2
  <2> QED
    BY <2>1, <2>2
<1> QED
  BY <1>1, <1>2, SeqEqual

\* A walk is a step from where the walk of the path's front arrives.
LEMMA WalkUnfolds ==
    ASSUME NEW t, NEW data
    PROVE  /\ Walk(t, data, <<>>) = Root
           /\ \A p \in Seq(Names) : p # <<>> =>
                 Walk(t, data, p) = Child(t, data, Walk(t, data, Front(p)), Last(p))
<1>1. Walk(t, data, <<>>) = Root
  <2>1. <<>> \in Seq(Names) /\ Len(<<>>) = 0
    OBVIOUS
  <2>2. PICK g : IsTrail(t, data, <<>>, g) /\ Walk(t, data, <<>>) = g[0]
    BY <2>1, TrailWalked
  <2> QED
    BY <2>1, <2>2 DEF IsTrail
<1>2. ASSUME NEW p \in Seq(Names), p # <<>>
      PROVE  Walk(t, data, p) = Child(t, data, Walk(t, data, Front(p)), Last(p))
  <2> DEFINE q == Front(p)
             L == Len(p)
  <2>1. /\ q \in Seq(Names) /\ Len(q) = L - 1 /\ L \in Nat \ {0} /\ Last(p) = p[L]
        /\ \A n \in 1 .. L - 1 : q[n] = p[n]
    BY <1>2, Fronts
  <2> HIDE DEF q
  <2>2. PICK g : IsTrail(t, data, p, g) /\ Walk(t, data, p) = g[L]
    BY TrailWalked
  <2>3. PICK h : IsTrail(t, data, q, h) /\ Walk(t, data, q) = h[L - 1]
    BY <2>1, TrailWalked
  <2> HIDE DEF L
  <2>4. \A n \in 0 .. L : g[n] = IF n = 0 THEN Root ELSE Child(t, data, g[n - 1], p[n])
    BY <2>2 DEF IsTrail, L
  <2>5. \A n \in 0 .. L - 1 : h[n] = IF n = 0 THEN Root ELSE Child(t, data, h[n - 1], q[n])
    BY <2>1, <2>3 DEF IsTrail
  <2>6. \A n \in 0 .. L - 1 : g[n] = h[n]
    <3> DEFINE T == {n \in 0 .. L - 1 : g[n] # h[n]}
    <3> SUFFICES ASSUME T # {} PROVE FALSE
      OBVIOUS
    <3> DEFINE i == LeastOf(T)
    <3>1. i \in T /\ \A j \in T : i <= j
      <4>1. T \in SUBSET Nat
        OBVIOUS
      <4> QED
        BY <4>1, LeastNatural
    <3> HIDE DEF i
    <3>2. i \in 0 .. L - 1 /\ g[i] # h[i] /\ i # 0
      BY <2>1, <2>4, <2>5, <3>1
    <3>3. i - 1 \in 0 .. L - 1 /\ i \in 1 .. L - 1 /\ ~(i <= i - 1) /\ i \in 0 .. L
      BY <2>1, <3>2
    <3>4. g[i - 1] = h[i - 1] /\ q[i] = p[i]
      BY <2>1, <3>1, <3>3
    <3> QED
      BY <2>4, <2>5, <3>2, <3>3, <3>4
  <2>7. L \in 0 .. L /\ L - 1 \in 0 .. L - 1 /\ L # 0
    BY <2>1
  <2> QED
    BY <2>1, <2>2, <2>3, <2>4, <2>6, <2>7 DEF q
<1> QED
  BY <1>1, <1>2

\* Two walks agree on a set of paths when each of their last steps does.
LEMMA WalksAgree ==
    ASSUME NEW t, NEW data, NEW t2, NEW data2, NEW P \in SUBSET Seq(Names),
           \A q \in P : q # <<>> =>
               /\ Front(q) \in P
               /\ LET x == Walk(t, data, Front(q))
                  IN  Child(t2, data2, x, Last(q)) = Child(t, data, x, Last(q))
    PROVE  \A q \in P : Walk(t2, data2, q) = Walk(t, data, q)
<1> DEFINE Differ(q) == Walk(t2, data2, q) # Walk(t, data, q)
           T == {Len(q) : q \in {q \in P : Differ(q)}}
<1> SUFFICES ASSUME T # {} PROVE FALSE
  BY DEF T
<1> DEFINE i == LeastOf(T)
<1>1. i \in T /\ \A j \in T : i <= j
  <2>1. T \in SUBSET Nat
    OBVIOUS
  <2> QED
    BY <2>1, LeastNatural
<1> HIDE DEF i
<1>2. PICK q \in P : Differ(q) /\ Len(q) = i
  BY <1>1
<1>3. q \in Seq(Names) /\ q # <<>>
  BY <1>2, WalkUnfolds
<1>4. Front(q) \in P /\ Len(Front(q)) = i - 1 /\ Len(Front(q)) \in Nat /\ i \in Nat
  BY <1>2, <1>3, Fronts
<1>5. ~Differ(Front(q))
  <2>1. ~(i <= i - 1)
    BY <1>4
  <2> QED
    BY <1>1, <1>4, <2>1
<1>6. Walk(t2, data2, Front(q)) = Walk(t, data, Front(q))
  BY <1>5
<1>7. Walk(t2, data2, q) = Child(t2, data2, Walk(t2, data2, Front(q)), Last(q))
  BY <1>3, WalkUnfolds
<1>8. Walk(t, data, q) = Child(t, data, Walk(t, data, Front(q)), Last(q))
  BY <1>3, WalkUnfolds
<1> QED
  BY <1>2, <1>3, <1>6, <1>7, <1>8

\* The entry a directory's child is found by.
LEMMA ChildEntry ==
    ASSUME NEW t, NEW data, NEW d, NEW n, Child(t, data, d, n) # Absent
    PROVE  /\ IsDirectory(t, d)
           /\ \E s \in Slots : /\ EntriesOf(t, data, d)[s].name = n
                               /\ EntriesOf(t, data, d)[s].inode = Child(t, data, d, n)
<1> DEFINE e == EntriesOf(t, data, d)
           s == LeastOf(Named(e, n))
<1>1. IsDirectory(t, d) /\ Named(e, n) # {} /\ Child(t, data, d, n) = e[s].inode
  BY DEF Child
<1>2. s \in Named(e, n)
  <2>1. Named(e, n) \in SUBSET Slots
    BY DEF Named
  <2> QED
    BY <1>1, <2>1, FirstFound, VolumeSizes
<1> QED
  BY <1>1, <1>2 DEF Named

\* On a healthy volume what a path finds is in use.
LEMMA FoundUsed ==
    ASSUME NEW t, NEW data, Formed(t, data), Healthy(t, data), NEW d, NEW n \in Names,
           Child(t, data, d, n) # Absent
    PROVE  Used(t, Child(t, data, d, n))
<1>1. IsDirectory(t, d)
  BY ChildEntry
<1>2. d \in Directories(t)
  BY <1>1 DEF IsDirectory, Directories
<1>3. PICK s \in Slots : /\ EntriesOf(t, data, d)[s].name = n
                         /\ EntriesOf(t, data, d)[s].inode = Child(t, data, d, n)
  BY ChildEntry
<1> QED
  BY <1>2, <1>3, NamesAssumption DEF Healthy, Checked, EntriesValid, NoName

\* On a healthy volume every inode has one path at most, and the root only its own.
LEMMA OnePath ==
    ASSUME NEW t, NEW data, Formed(t, data), Healthy(t, data),
           NEW p \in Seq(Names), NEW q \in Seq(Names),
           Walk(t, data, p) = Walk(t, data, q), Walk(t, data, p) # Absent
    PROVE  p = q
<1> DEFINE Bad(a, b) == /\ Walk(t, data, a) = Walk(t, data, b) /\ Walk(t, data, a) # Absent /\ a # b
           T == {Len(a) : a \in {a \in Seq(Names) : \E b \in Seq(Names) : Bad(a, b)}}
<1> SUFFICES ASSUME T # {} PROVE FALSE
  BY DEF T
<1> DEFINE i == LeastOf(T)
<1>1. i \in T /\ \A j \in T : i <= j
  <2>1. T \in SUBSET Nat
    OBVIOUS
  <2> QED
    BY <2>1, LeastNatural
<1> HIDE DEF i
<1>2. PICK a \in Seq(Names) : Len(a) = i /\ \E b \in Seq(Names) : Bad(a, b)
  BY <1>1
<1>3. PICK b \in Seq(Names) : Bad(a, b)
  BY <1>2
<1>4. \A c \in Seq(Names) : c # <<>> /\ Walk(t, data, c) # Absent
                              => Used(t, Walk(t, data, c)) /\ Walk(t, data, c) # Root
  <2> SUFFICES ASSUME NEW c \in Seq(Names), c # <<>>, Walk(t, data, c) # Absent
               PROVE  Used(t, Walk(t, data, c)) /\ Walk(t, data, c) # Root
    OBVIOUS
  <2>1. Walk(t, data, c) = Child(t, data, Walk(t, data, Front(c)), Last(c)) /\ Last(c) \in Names
    BY WalkUnfolds, Fronts
  <2>2. Used(t, Walk(t, data, c))
    BY <2>1, FoundUsed
  <2> QED
    BY <2>2, VolumeSizes DEF Used, Inodes, Root
<1>5. a # <<>> /\ b # <<>>
  BY <1>3, <1>4, WalkUnfolds
<1> DEFINE x == Walk(t, data, Front(a))
           y == Walk(t, data, Front(b))
<1>6. /\ Child(t, data, x, Last(a)) = Child(t, data, y, Last(b)) /\ Child(t, data, x, Last(a)) # Absent
      /\ Child(t, data, y, Last(b)) # Absent
      /\ Last(a) \in Names /\ Last(b) \in Names /\ Front(a) \in Seq(Names) /\ Front(b) \in Seq(Names)
  <2>1. Walk(t, data, a) = Child(t, data, x, Last(a)) /\ Walk(t, data, b) = Child(t, data, y, Last(b))
    BY <1>5, WalkUnfolds
  <2>2. Last(a) \in Names /\ Last(b) \in Names /\ Front(a) \in Seq(Names) /\ Front(b) \in Seq(Names)
    BY <1>5, Fronts
  <2> QED
    BY <1>3, <2>1, <2>2
<1> HIDE DEF x, y
<1>7. PICK s1 \in Slots : /\ EntriesOf(t, data, x)[s1].name = Last(a)
                          /\ EntriesOf(t, data, x)[s1].inode = Child(t, data, x, Last(a))
  BY <1>6, ChildEntry
<1>8. PICK s2 \in Slots : /\ EntriesOf(t, data, y)[s2].name = Last(b)
                          /\ EntriesOf(t, data, y)[s2].inode = Child(t, data, y, Last(b))
  <2>1. Child(t, data, y, Last(b)) # Absent
    BY <1>6
  <2> QED
    BY <2>1, ChildEntry
<1>9. IsDirectory(t, x) /\ IsDirectory(t, y) /\ x \in Directories(t) /\ y \in Directories(t)
  BY <1>6, ChildEntry DEF IsDirectory, Directories
<1>10. x = y /\ s1 = s2
  <2>1. NamedOnce(t, data)
    BY DEF Healthy
  <2>2. /\ EntriesOf(t, data, x)[s1].name # NoName /\ EntriesOf(t, data, y)[s2].name # NoName
        /\ EntriesOf(t, data, x)[s1].inode = EntriesOf(t, data, y)[s2].inode
    BY <1>6, <1>7, <1>8, NamesAssumption DEF NoName
  <2> QED
    BY <1>9, <2>1, <2>2 DEF NamedOnce
<1>11. Last(a) = Last(b) /\ Front(a) # Front(b)
  BY <1>3, <1>5, <1>7, <1>8, <1>10, SamePath
<1>12. x # Absent
  BY <1>9, VolumeSizes DEF IsDirectory, Inodes, Absent, Root
<1>13. Bad(Front(a), Front(b))
  BY <1>10, <1>11, <1>12 DEF x, y
<1>14. Len(Front(a)) \in T
  BY <1>6, <1>13
<1>15. Len(Front(a)) = i - 1 /\ i \in Nat
  BY <1>2, <1>5, Fronts
<1>16. ~(i <= i - 1)
  BY <1>15
<1> QED
  BY <1>1, <1>14, <1>15, <1>16

-----------------------------------------------------------------------------
(* Volumes that differ at one path.                                        *)

LEMMA PrefixRead ==
    ASSUME NEW p \in Seq(Names), NEW q \in Seq(Names)
    PROVE  /\ IsPrefix(p, q) => Len(p) <= Len(q) /\ \A k \in 1 .. Len(p) : p[k] = q[k]
           /\ Len(p) <= Len(q) /\ (\A k \in 1 .. Len(p) : p[k] = q[k]) => IsPrefix(p, q)
<1> DEFINE L == Len(p)
<1>1. L \in Nat /\ Len(q) \in Nat
  OBVIOUS
<1>2. CASE L <= Len(q)
  <2>1. \A k \in 1 .. L : p[k] \in Names /\ q[k] \in Names
    BY <1>1, <1>2
  <2>2. /\ SubSeq(p, 1, L) \in Seq(Names) /\ SubSeq(q, 1, L) \in Seq(Names)
        /\ Len(SubSeq(p, 1, L)) = L /\ Len(SubSeq(q, 1, L)) = L
        /\ \A k \in 1 .. L : SubSeq(p, 1, L)[k] = p[k] /\ SubSeq(q, 1, L)[k] = q[k]
    <3> HIDE DEF L
    <3>1. /\ SubSeq(p, 1, L) \in Seq(Names)
          /\ Len(SubSeq(p, 1, L)) = IF 1 <= L THEN L - 1 + 1 ELSE 0
          /\ \A k \in 1 .. L - 1 + 1 : SubSeq(p, 1, L)[k] = p[1 + k - 1]
      BY <1>1, <2>1, SubSeqProperties
    <3>2. /\ SubSeq(q, 1, L) \in Seq(Names)
          /\ Len(SubSeq(q, 1, L)) = IF 1 <= L THEN L - 1 + 1 ELSE 0
          /\ \A k \in 1 .. L - 1 + 1 : SubSeq(q, 1, L)[k] = q[1 + k - 1]
      BY <1>1, <2>1, SubSeqProperties
    <3> QED
      BY <1>1, <3>1, <3>2
  <2>3. SubSeq(p, 1, L) = SubSeq(q, 1, L) <=> \A k \in 1 .. L : p[k] = q[k]
    <3> DEFINE a == SubSeq(p, 1, L)
               b == SubSeq(q, 1, L)
    <3> HIDE DEF a, b
    <3>1. (\A k \in 1 .. L : a[k] = b[k]) => a = b
      BY <2>2, SeqEqual DEF a, b
    <3> QED
      BY <2>2, <3>1 DEF a, b
  <2> QED
    BY <1>2, <2>3 DEF IsPrefix
<1>3. CASE ~(L <= Len(q))
  BY <1>3 DEF IsPrefix
<1> QED
  BY <1>2, <1>3, Zenon

\* The paths that do not begin with p.
Apart(p) == {q \in Seq(Names) : ~IsPrefix(p, q)}

LEMMA ApartClosed ==
    ASSUME NEW p \in Seq(Names), p # <<>>
    PROVE  /\ p \notin Apart(p) /\ Front(p) \in Apart(p)
           /\ \A q \in Apart(p) : q # <<>> => /\ Front(q) \in Apart(p)
                                              /\ ~(Front(q) = Front(p) /\ Last(q) = Last(p))
<1>1. p \notin Apart(p)
  <2>1. Len(p) <= Len(p)
    OBVIOUS
  <2>2. IsPrefix(p, p)
    BY <2>1, PrefixRead, Zenon
  <2> QED
    BY <2>2 DEF Apart
<1>2. Front(p) \in Apart(p)
  <2>1. Front(p) \in Seq(Names) /\ ~(Len(p) <= Len(Front(p)))
    BY Fronts
  <2>2. ~IsPrefix(p, Front(p))
    BY <2>1, PrefixRead, Zenon
  <2> QED
    BY <2>1, <2>2 DEF Apart
<1>3. ASSUME NEW q \in Apart(p), q # <<>>
      PROVE  Front(q) \in Apart(p)
  <2>1. q \in Seq(Names) /\ ~IsPrefix(p, q)
    BY DEF Apart
  <2>2. /\ Front(q) \in Seq(Names) /\ Len(Front(q)) = Len(q) - 1 /\ Len(q) \in Nat \ {0}
        /\ \A n \in 1 .. Len(q) - 1 : Front(q)[n] = q[n]
    BY <1>3, <2>1, Fronts
  <2>3. ASSUME IsPrefix(p, Front(q)) PROVE FALSE
    <3>1. Len(p) <= Len(Front(q)) /\ \A k \in 1 .. Len(p) : p[k] = Front(q)[k]
      BY <2>2, <2>3, PrefixRead, Zenon
    <3>2. Len(p) <= Len(q) /\ \A k \in 1 .. Len(p) : p[k] = q[k]
      BY <2>2, <3>1
    <3> QED
      BY <2>1, <3>2, PrefixRead, Zenon
  <2> QED
    BY <2>2, <2>3 DEF Apart
<1> QED
  BY <1>1, <1>2, <1>3, SamePath DEF Apart

\* They differ at most in inode i and in entry s of directory d, whose name is
\* n or none, and in sectors that no other file has.
Beside(t, data, t2, data2, i, d, s, n) ==
    /\ Formed(t2, data2)
    /\ \A j \in Inodes \ {i} : t2.inode[j] = t.inode[j]
    /\ \A x \in Directories(t) \ {i} : \A r \in Slots :
          (x = d /\ r = s) \/ EntriesOf(t2, data2, x)[r] = EntriesOf(t, data, x)[r]
    /\ EntriesOf(t, data, d)[s].name \in {n, NoName}
    /\ EntriesOf(t2, data2, d)[s].name \in {n, NoName}
    /\ \A j \in Inodes \ {i} : t.inode[j].type = "file" =>
          \A k \in Extent(t, j) : data2[k].text = data[k].text

LEMMA TextKept ==
    ASSUME NEW t, NEW data, Formed(t, data), NEW t2, NEW data2, NEW j \in Inodes,
           t2.inode[j] = t.inode[j],
           \A k \in Extent(t, j) : data2[k].text = data[k].text
    PROVE  TextOf(t2, data2, j) = TextOf(t, data, j)
<1> DEFINE n == t.inode[j]
           L == IF n.size < n.len THEN n.size ELSE n.len
<1>1. n.start \in Nat /\ n.len \in Nat /\ n.size \in Nat
  BY VolumeSizes DEF Formed, Inode
<1>2. Extent(t, j) = n.start .. n.start + n.len - 1
  BY DEF Extent
<1> HIDE DEF n
<1>3. \A k \in 1 .. L : n.start + k - 1 \in n.start .. n.start + n.len - 1
  BY <1>1
<1>4. \A k \in 1 .. L : data2[n.start + k - 1].text = data[n.start + k - 1].text
  BY <1>2, <1>3
<1>5. /\ TextOf(t, data, j) = [k \in 1 .. L |-> data[n.start + k - 1].text]
      /\ TextOf(t2, data2, j) = [k \in 1 .. L |-> data2[n.start + k - 1].text]
  BY DEF TextOf, n
<1> QED
  BY <1>4, <1>5

\* A directory in which other names than m are entered or removed finds the
\* same under m.
LEMMA ChildKept ==
    ASSUME NEW t, NEW data, NEW t2, NEW data2, NEW x, NEW m,
           IsDirectory(t2, x) <=> IsDirectory(t, x),
           IsDirectory(t, x) => \A r \in Slots :
               LET old == EntriesOf(t, data, x)[r]
                   new == EntriesOf(t2, data2, x)[r]
               IN  old = new \/ (old.name # m /\ new.name # m)
    PROVE  Child(t2, data2, x, m) = Child(t, data, x, m)
<1> DEFINE a == EntriesOf(t, data, x)
           b == EntriesOf(t2, data2, x)
           s == LeastOf(Named(a, m))
<1>1. CASE ~IsDirectory(t, x)
  BY <1>1 DEF Child
<1>2. CASE IsDirectory(t, x)
  <2>1. \A r \in Slots : a[r] = b[r] \/ (a[r].name # m /\ b[r].name # m)
    BY <1>2
  <2> HIDE DEF a, b
  <2>2. Named(a, m) = Named(b, m)
    BY <2>1 DEF Named
  <2>3. ASSUME Named(a, m) # {} PROVE a[s].inode = b[s].inode
    <3>1. s \in Named(a, m)
      <4>1. Named(a, m) \in SUBSET Slots
        BY DEF Named
      <4> QED
        BY <2>3, <4>1, FirstFound, VolumeSizes
    <3> HIDE DEF s
    <3> QED
      BY <2>1, <3>1 DEF Named
  <2> QED
    BY <1>2, <2>2, <2>3 DEF Child, a, b
<1> QED
  BY <1>1, <1>2

\* What readers see at paths that do not begin with p.
LEMMA ViewsKept ==
    ASSUME NEW t, NEW data, Formed(t, data), Healthy(t, data),
           NEW p \in Seq(Names), p # <<>>, NEW i \in Inodes,
           Walk(t, data, p) = i \/ ~Used(t, i),
           IsDirectory(t, Walk(t, data, Front(p))),
           NEW s \in Slots, NEW t2, NEW data2,
           Beside(t, data, t2, data2, i, Walk(t, data, Front(p)), s, Last(p))
    PROVE  \A q \in Apart(p) : /\ Walk(t2, data2, q) = Walk(t, data, q)
                               /\ View(t2, data2, q) = View(t, data, q)
<1> DEFINE d == Walk(t, data, Front(p))
           n == Last(p)
<1>1. \A q \in Apart(p) : Walk(t, data, q) # i
  <2> SUFFICES ASSUME NEW q \in Apart(p), Walk(t, data, q) = i PROVE FALSE
    OBVIOUS
  <2>1. q \in Seq(Names) /\ q # p /\ i # Absent /\ i # Root
    BY ApartClosed, VolumeSizes DEF Apart, Inodes, Absent, Root
  <2>2. CASE Walk(t, data, p) = i
    BY <2>1, <2>2, OnePath
  <2>3. CASE ~Used(t, i)
    <3>1. q # <<>>
      BY <2>1, WalkUnfolds
    <3>2. Walk(t, data, q) = Child(t, data, Walk(t, data, Front(q)), Last(q)) /\ Last(q) \in Names
      BY <2>1, <3>1, WalkUnfolds, Fronts
    <3> QED
      BY <2>1, <2>3, <3>2, FoundUsed
  <2> QED
    BY <2>2, <2>3
<1>2. \A x : x # i => (IsDirectory(t2, x) <=> IsDirectory(t, x)) /\ (Used(t2, x) <=> Used(t, x))
  BY DEF Beside, IsDirectory, Used
<1>3. ASSUME NEW q \in Apart(p), q # <<>>
      PROVE  LET x == Walk(t, data, Front(q))
             IN  Child(t2, data2, x, Last(q)) = Child(t, data, x, Last(q))
  <2> DEFINE x == Walk(t, data, Front(q))
  <2>1. q \in Seq(Names) /\ Front(q) \in Apart(p) /\ ~(Front(q) = Front(p) /\ Last(q) = Last(p))
    BY <1>3, ApartClosed DEF Apart
  <2>2. x # i
    BY <1>1, <2>1
  <2>3. Last(q) \in Names /\ Last(q) # NoName
    BY <1>3, <2>1, Fronts, NamesAssumption DEF NoName
  <2>4. ASSUME IsDirectory(t, x), NEW r \in Slots
        PROVE  LET old == EntriesOf(t, data, x)[r]
                   new == EntriesOf(t2, data2, x)[r]
               IN  old = new \/ (old.name # Last(q) /\ new.name # Last(q))
    <3>1. x \in Directories(t) \ {i}
      BY <2>2, <2>4 DEF IsDirectory, Directories
    <3>2. CASE ~(x = d /\ r = s)
      BY <3>1, <3>2 DEF Beside
    <3>3. CASE x = d /\ r = s
      <4>1. x # Absent
        BY <2>4, VolumeSizes DEF IsDirectory, Inodes, Absent, Root
      <4>2. Front(q) \in Seq(Names) /\ Front(p) \in Seq(Names)
        BY <1>3, <2>1, Fronts
      <4>3. Front(q) = Front(p)
        BY <3>3, <4>1, <4>2, OnePath
      <4>4. Last(q) \notin {n, NoName}
        BY <2>1, <2>3, <4>3
      <4> QED
        BY <3>3, <4>4 DEF Beside
    <3> QED
      BY <3>2, <3>3
  <2>5. IsDirectory(t2, x) <=> IsDirectory(t, x)
    BY <1>2, <2>2
  <2> HIDE DEF x
  <2>6. Child(t2, data2, x, Last(q)) = Child(t, data, x, Last(q))
    BY <2>4, <2>5, ChildKept
  <2> QED
    BY <2>6 DEF x
<1>4. \A q \in Apart(p) : Walk(t2, data2, q) = Walk(t, data, q)
  <2>1. Apart(p) \in SUBSET Seq(Names) /\ \A q \in Apart(p) : q # <<>> => Front(q) \in Apart(p)
    BY ApartClosed DEF Apart
  <2> QED
    BY <1>3, <2>1, WalksAgree, SMTT(30)
<1>5. ASSUME NEW q \in Apart(p)
      PROVE  View(t2, data2, q) = View(t, data, q)
  <2> DEFINE x == Walk(t, data, q)
  <2>1. x # i /\ Walk(t2, data2, q) = x /\ (Used(t2, x) <=> Used(t, x))
    BY <1>1, <1>2, <1>4
  <2> HIDE DEF x
  <2>2. CASE ~Used(t, x)
    BY <2>1, <2>2 DEF View, Lookup, x
  <2>3. CASE Used(t, x)
    <3>1. x \in Inodes \ {i} /\ t2.inode[x] = t.inode[x] /\ x # Absent
      BY <2>1, <2>3, VolumeSizes DEF Used, Beside, Inodes, Absent
    <3>2. t.inode[x].type = "file" => TextOf(t2, data2, x) = TextOf(t, data, x)
      BY <3>1, TextKept DEF Beside
    <3>3. Lookup(t, data, q) = x /\ Lookup(t2, data2, q) = x
      BY <2>1, <2>3 DEF Lookup, x
    <3> QED
      BY <3>1, <3>2, <3>3 DEF View
  <2> QED
    BY <2>2, <2>3
<1> QED
  BY <1>4, <1>5

-----------------------------------------------------------------------------
(* What a flush leaves on the disk.                                        *)

\* Disk y is x with some of the inodes of m, and some of its root entries if
\* the root directory is flushed.
Moved(x, y, m, root) ==
    /\ y.super = x.super /\ y.data = x.data
    /\ \A i \in Inodes : y.inode[i] = x.inode[i] \/ y.inode[i] = m.inode[i]
    /\ \A s \in Slots : y.dir[s] = x.dir[s] \/ (root /\ y.dir[s] = m.dir[s])

Carries(x, y, m, root) ==
    y.inode = m.inode /\ y.dir = (IF root THEN m.dir ELSE x.dir) /\ y.map = m.map

Moves(x, m, root) == {y \in Disk : Moved(x, y, m, root)}

LEMMA Ranks ==
    /\ \A S \in SUBSET Inodes : \A i \in Inodes : Rank(S, i) <= Cardinality(S)
    /\ \A S \in SUBSET Slots : \A i \in Slots : Rank(S, i) <= Cardinality(S)
<1>1. IsFiniteSet(Inodes) /\ IsFiniteSet(Slots)
  BY VolumeSizes, FS_Interval DEF Inodes, Slots
<1>2. ASSUME NEW U, IsFiniteSet(U), NEW S \in SUBSET U, NEW i \in U
      PROVE  Rank(S, i) <= Cardinality(S)
  <2>1. IsFiniteSet(S)
    BY <1>2, FS_Subset
  <2>2. {j \in S : j <= i} \in SUBSET S
    OBVIOUS
  <2> QED
    BY <2>1, <2>2, FS_Subset DEF Rank
<1> QED
  BY <1>1, <1>2

LEMMA InodesFlushed ==
    ASSUME NEW x \in Disk, NEW m \in Memory
    PROVE  LET a == FlushInodes(x, m)
               y == EndOf(x, a)
               A == {z \in Disk : z.super = x.super /\ z.data = x.data /\ z.dir = x.dir /\ z.map = x.map /\
                                  \A i \in Inodes : z.inode[i] = x.inode[i] \/ z.inode[i] = m.inode[i]}
           IN  a \in Seq(A) /\ y \in A /\ y.inode = m.inode
<1> DEFINE changed == {i \in Inodes : m.inode[i] # x.inode[i]}
           one(k) == [x EXCEPT !.inode = [i \in Inodes |-> IF Rank(changed, i) <= k THEN m.inode[i] ELSE @[i]]]
           A == {z \in Disk : z.super = x.super /\ z.data = x.data /\ z.dir = x.dir /\ z.map = x.map /\
                              \A i \in Inodes : z.inode[i] = x.inode[i] \/ z.inode[i] = m.inode[i]}
           C == Cardinality(changed)
           a == FlushInodes(x, m)
<1>1. C \in Nat /\ \A i \in Inodes : Rank(changed, i) <= C
  BY Finite, Ranks
<1>2. \A k \in Nat : one(k) \in A
  BY DEF Disk, Memory
<1>3. a = [k \in 1 .. C |-> one(k)]
  BY DEF FlushInodes
<1>4. one(C).inode = m.inode
  <2>1. one(C).inode = [i \in Inodes |-> IF Rank(changed, i) <= C THEN m.inode[i] ELSE x.inode[i]]
    BY DEF Disk
  <2>2. m.inode \in [Inodes -> Inode]
    BY DEF Memory
  <2> QED
    BY <1>1, <2>1, <2>2
<1>5. C = 0 => x.inode = m.inode
  <2>1. IsFiniteSet(changed)
    <3>1. IsFiniteSet(Inodes)
      BY VolumeSizes, FS_Interval DEF Inodes
    <3> QED
      BY <3>1, FS_Subset
  <2>2. C = 0 => changed = {}
    BY <2>1, FS_EmptySet
  <2>3. x.inode \in [Inodes -> Inode] /\ m.inode \in [Inodes -> Inode]
    BY DEF Disk, Memory
  <2> QED
    BY <2>2, <2>3
<1>6. x \in A
  OBVIOUS
<1> HIDE DEF C, one, A
<1>7. a \in Seq(A) /\ Len(a) = C /\ (C # 0 => a[C] = one(C)) /\ (C = 0 <=> a = <<>>)
  BY <1>1, <1>2, <1>3
<1> HIDE DEF a
<1>8. EndOf(x, a) = IF C = 0 THEN x ELSE one(C)
  BY <1>7 DEF EndOf, Last
<1> QED
  BY <1>1, <1>2, <1>4, <1>5, <1>6, <1>7, <1>8 DEF A, a

LEMMA DirectoryFlushed ==
    ASSUME NEW x \in Disk, NEW m \in Memory
    PROVE  LET a == FlushDirectory(x, m)
               y == EndOf(x, a)
               A == {z \in Disk : z.super = x.super /\ z.data = x.data /\ z.inode = x.inode /\ z.map = x.map /\
                                  \A s \in Slots : z.dir[s] = x.dir[s] \/ z.dir[s] = m.dir[s]}
           IN  a \in Seq(A) /\ y \in A /\ y.dir = m.dir
<1> DEFINE changed == {s \in Slots : m.dir[s] # x.dir[s]}
           one(k) == [x EXCEPT !.dir = [s \in Slots |-> IF Rank(changed, s) <= k THEN m.dir[s] ELSE @[s]]]
           A == {z \in Disk : z.super = x.super /\ z.data = x.data /\ z.inode = x.inode /\ z.map = x.map /\
                              \A s \in Slots : z.dir[s] = x.dir[s] \/ z.dir[s] = m.dir[s]}
           C == Cardinality(changed)
           a == FlushDirectory(x, m)
<1>1. C \in Nat /\ \A i \in Slots : Rank(changed, i) <= C
  BY Finite, Ranks
<1>2. \A k \in Nat : one(k) \in A
  BY DEF Disk, Memory
<1>3. a = [k \in 1 .. C |-> one(k)]
  BY DEF FlushDirectory
<1>4. one(C).dir = m.dir
  <2>1. one(C).dir = [i \in Slots |-> IF Rank(changed, i) <= C THEN m.dir[i] ELSE x.dir[i]]
    BY DEF Disk
  <2>2. m.dir \in [Slots -> Entry]
    BY DEF Memory
  <2> QED
    BY <1>1, <2>1, <2>2
<1>5. C = 0 => x.dir = m.dir
  <2>1. IsFiniteSet(changed)
    <3>1. IsFiniteSet(Slots)
      BY VolumeSizes, FS_Interval DEF Slots
    <3> QED
      BY <3>1, FS_Subset
  <2>2. C = 0 => changed = {}
    BY <2>1, FS_EmptySet
  <2>3. x.dir \in [Slots -> Entry] /\ m.dir \in [Slots -> Entry]
    BY DEF Disk, Memory
  <2> QED
    BY <2>2, <2>3
<1>6. x \in A
  OBVIOUS
<1> HIDE DEF C, one, A
<1>7. a \in Seq(A) /\ Len(a) = C /\ (C # 0 => a[C] = one(C)) /\ (C = 0 <=> a = <<>>)
  BY <1>1, <1>2, <1>3
<1> HIDE DEF a
<1>8. EndOf(x, a) = IF C = 0 THEN x ELSE one(C)
  BY <1>7 DEF EndOf, Last
<1> QED
  BY <1>1, <1>2, <1>4, <1>5, <1>6, <1>7, <1>8 DEF A, a

LEMMA BitmapFlushed ==
    ASSUME NEW x \in Disk, NEW m \in Memory
    PROVE  LET a == FlushBitmap(x, m)
               y == EndOf(x, a)
               A == {z \in Disk : z.super = x.super /\ z.data = x.data /\ z.inode = x.inode /\ z.dir = x.dir}
           IN  a \in Seq(A) /\ y \in A /\ y.map = m.map
<1> DEFINE A == {z \in Disk : z.super = x.super /\ z.data = x.data /\ z.inode = x.inode /\ z.dir = x.dir}
           one == [x EXCEPT !.map = m.map]
<1>1. one \in A /\ one.map = m.map /\ x \in A
  BY DEF Disk, Memory
<1> HIDE DEF A, one
<1>2. <<>> \in Seq(A) /\ <<one>> \in Seq(A) /\ Last(<<one>>) = one /\ <<one>> # <<>>
  BY <1>1 DEF Last
<1> QED
  BY <1>1, <1>2 DEF FlushBitmap, EndOf, A, one

\* The last disk of two sequences of writes in a row.
LEMMA EndJoined ==
    ASSUME NEW S, NEW x \in S, NEW a \in Seq(S), NEW b \in Seq(S)
    PROVE  a \o b \in Seq(S) /\ EndOf(x, a \o b) = EndOf(EndOf(x, a), b)
<1>1. /\ a \o b \in Seq(S) /\ Len(a \o b) = Len(a) + Len(b) /\ Len(a) \in Nat /\ Len(b) \in Nat
      /\ \A n \in 1 .. Len(a) + Len(b) : (a \o b)[n] = IF n <= Len(a) THEN a[n] ELSE b[n - Len(a)]
  BY ConcatProperties
<1>2. CASE b = <<>>
  <2>1. a \o b = a
    BY <1>2
  <2> QED
    BY <1>1, <1>2, <2>1 DEF EndOf
<1>3. CASE b # <<>>
  <2>1. Len(b) # 0 /\ Len(a) + Len(b) \in 1 .. Len(a) + Len(b) /\ ~(Len(a) + Len(b) <= Len(a))
        /\ Len(a) + Len(b) - Len(a) = Len(b)
    BY <1>1, <1>3
  <2>2. a \o b # <<>> /\ Last(a \o b) = Last(b)
    BY <1>1, <2>1 DEF Last
  <2> QED
    BY <1>1, <1>3, <2>2 DEF EndOf
<1> QED
  BY <1>2, <1>3

LEMMA FlushMade ==
    ASSUME NEW x \in Disk, NEW m \in Memory, NEW root \in BOOLEAN
    PROVE  \E w \in Seq(Moves(x, m, root)) :
              /\ FlushTables(x, m, root) = w \o <<Flagged(EndOf(x, w), "clean")>>
              /\ EndOf(x, w) \in Moves(x, m, root)
              /\ Carries(x, EndOf(x, w), m, root)
<1> DEFINE a == FlushInodes(x, m)
           y == EndOf(x, a)
           b == IF root THEN FlushDirectory(y, m) ELSE <<>>
           z == EndOf(y, b)
           c == FlushBitmap(z, m)
           u == EndOf(z, c)
           S == Moves(x, m, root)
           A == {v \in Disk : v.super = x.super /\ v.data = x.data /\ v.dir = x.dir /\ v.map = x.map /\
                              \A i \in Inodes : v.inode[i] = x.inode[i] \/ v.inode[i] = m.inode[i]}
           B == {v \in Disk : v.super = x.super /\ v.data = x.data /\ v.inode = m.inode /\ v.map = x.map /\
                              \A s \in Slots : v.dir[s] = x.dir[s] \/ (root /\ v.dir[s] = m.dir[s])}
<1>1. a \in Seq(A) /\ y \in A /\ y.inode = m.inode
  BY InodesFlushed
<1>2. A \subseteq S /\ B \subseteq S
  BY DEF Moves, Moved
<1> HIDE DEF a, y
<1>3. b \in Seq(B) /\ z \in B /\ z.dir = IF root THEN m.dir ELSE x.dir
  <2>1. CASE root
    <3> DEFINE C == {v \in Disk : v.super = y.super /\ v.data = y.data /\ v.inode = y.inode /\ v.map = y.map /\
                                  \A s \in Slots : v.dir[s] = y.dir[s] \/ v.dir[s] = m.dir[s]}
    <3>1. b \in Seq(C) /\ z \in C /\ z.dir = m.dir
      BY <1>1, <2>1, DirectoryFlushed
    <3>2. C \subseteq B
      BY <1>1, <2>1
    <3> HIDE DEF b, z, B, C
    <3>3. b \in Seq(B)
      BY <3>1, <3>2
    <3> QED
      BY <2>1, <3>1, <3>2, <3>3
  <2>2. CASE ~root
    BY <1>1, <2>2 DEF EndOf
  <2> QED
    BY <2>1, <2>2
<1> HIDE DEF b, z
<1>4. c \in Seq(S) /\ u \in S /\ Carries(x, u, m, root)
  <2> DEFINE C == {v \in Disk : v.super = z.super /\ v.data = z.data /\ v.inode = z.inode /\ v.dir = z.dir}
  <2>1. c \in Seq(C) /\ u \in C /\ u.map = m.map
    BY <1>3, BitmapFlushed
  <2>2. C \subseteq S
    BY <1>3 DEF Moves, Moved
  <2>3. u.inode = m.inode /\ u.dir = IF root THEN m.dir ELSE x.dir
    BY <1>3, <2>1
  <2> HIDE DEF c, u, S, C
  <2>4. c \in Seq(S)
    BY <2>1, <2>2
  <2> QED
    BY <2>1, <2>2, <2>3, <2>4 DEF Carries
<1> HIDE DEF c, u, S
<1>5. a \in Seq(S) /\ b \in Seq(S)
  <2> HIDE DEF A, B
  <2> QED
    BY <1>1, <1>2, <1>3
<1>6. x \in S
  BY DEF S, Moves, Moved
<1> DEFINE w == a \o b \o c
<1>7. a \o b \in Seq(S) /\ EndOf(x, a \o b) = z
  BY <1>5, <1>6, EndJoined DEF y, z
<1>8. w \in Seq(S) /\ EndOf(x, w) = u
  <2> DEFINE ab == a \o b
  <2>1. ab \in Seq(S) /\ EndOf(x, ab) = z
    BY <1>7
  <2> HIDE DEF ab
  <2>2. ab \o c \in Seq(S) /\ EndOf(x, ab \o c) = EndOf(EndOf(x, ab), c)
    BY <1>4, <1>6, <2>1, EndJoined
  <2>3. EndOf(x, ab \o c) = u
    BY <2>1, <2>2 DEF u
  <2> QED
    BY <2>2, <2>3 DEF ab
<1>9. FlushTables(x, m, root) = w \o <<Flagged(EndOf(x, w), "clean")>>
  BY <1>8 DEF FlushTables, a, y, b, z, c, u
<1> QED
  BY <1>4, <1>8, <1>9 DEF S

-----------------------------------------------------------------------------
(* A command changes inode i, the bitmap and directory d, whose entries    *)
(* become f; the disks between its writes have some of that.               *)

Near(dk, x, i, d, f) ==
    /\ \A j \in Inodes \ {i} : x.inode[j] = dk.inode[j]
    /\ \A r \in Slots : x.dir[r] = dk.dir[r] \/ (d = Root /\ x.dir[r] = f[r])
    /\ \A j \in Inodes \ {i} : \A k \in Extent(dk, j) :
          \/ x.data[k] = dk.data[k]
          \/ j = d /\ k = dk.inode[d].start /\ x.data[k] = DirSector(f)

Nearby(dk, i, d, f) == {x \in Disk : Near(dk, x, i, d, f)}

\* Entries f are e but for slot s, whose name is n or none before and after.
Reentered(e, f, s, n) ==
    /\ f \in [Slots -> Entry]
    /\ \A r \in Slots \ {s} : f[r] = e[r]
    /\ e[s].name \in {n, NoName} /\ f[s].name \in {n, NoName}

LEMMA DiskFormed ==
    ASSUME NEW x \in Disk
    PROVE  Formed(x, x.data)
BY DEF Disk, Formed

LEMMA FirstSector ==
    ASSUME NEW t, NEW data, Formed(t, data), NEW j \in Inodes
    PROVE  t.inode[j].len # 0 => t.inode[j].start \in Extent(t, j) /\ t.inode[j].start \in Sectors
<1>1. t.inode[j] \in Inode
  BY DEF Formed
<1>2. t.inode[j].start \in Nat /\ t.inode[j].len \in Nat
  BY <1>1, VolumeSizes DEF Inode
<1>3. t.inode[j].len # 0 => t.inode[j].start \in Sectors
  BY <1>1 DEF Inode
<1>4. \A a, l \in Nat : l # 0 => a \in a .. a + l - 1
  OBVIOUS
<1> QED
  BY <1>2, <1>3, <1>4 DEF Extent

LEMMA SectorRead ==
    ASSUME NEW f
    PROVE  DirSector(f).entries = f
BY DEF DirSector, Zeroed

\* A directory other than d keeps its entries, and those of d are old or new.
LEMMA EntriesNear ==
    ASSUME NEW dk \in Disk, NEW i \in Inodes, NEW d, d # i, NEW f,
           NEW x \in Nearby(dk, i, d, f), NEW y \in Directories(dk) \ {i}, NEW r \in Slots
    PROVE  \/ EntriesOf(x, x.data, y)[r] = EntriesOf(dk, dk.data, y)[r]
           \/ y = d /\ EntriesOf(x, x.data, y)[r] = f[r]
<1>1. Near(dk, x, i, d, f)
  BY DEF Nearby
<1>2. CASE y = Root
  BY <1>1, <1>2 DEF Near, EntriesOf
<1>3. CASE y # Root
  <2>1. y \in Inodes \ {i} /\ x.inode[y] = dk.inode[y]
    BY <1>1, <1>3 DEF Near, Directories
  <2>2. CASE dk.inode[y].len = 0
    BY <1>3, <2>1, <2>2 DEF EntriesOf
  <2>3. CASE dk.inode[y].len # 0
    <3> DEFINE k == dk.inode[y].start
    <3>1. k \in Extent(dk, y)
      BY <2>1, <2>3, FirstSector, DiskFormed
    <3>2. EntriesOf(x, x.data, y) = x.data[k].entries /\ EntriesOf(dk, dk.data, y) = dk.data[k].entries
      BY <1>3, <2>1, <2>3 DEF EntriesOf
    <3> HIDE DEF k
    <3>3. CASE x.data[k] = dk.data[k]
      BY <3>2, <3>3
    <3>4. CASE y = d /\ x.data[k] = DirSector(f)
      BY <3>2, <3>4, SectorRead
    <3> QED
      BY <1>1, <2>1, <3>1, <3>3, <3>4 DEF Near, k
  <2> QED
    BY <2>2, <2>3
<1> QED
  BY <1>2, <1>3

LEMMA FreeEmpty ==
    ASSUME NEW t, NEW data, Healthy(t, data), NEW i \in Inodes, ~Used(t, i)
    PROVE  Extent(t, i) = {}
<1>1. t.map = ExpectedMap(t) /\ Sound(t)
  BY DEF Healthy, Checked
<1>2. SUFFICES ASSUME NEW k \in Extent(t, i) PROVE FALSE
  OBVIOUS
<1>3. k \in t.map
  BY <1>1 DEF Sound
<1>4. PICK j \in Inodes : Used(t, j) /\ k \in Extent(t, j)
  BY <1>1, <1>3 DEF ExpectedMap
<1> QED
  BY <1>1, <1>4 DEF Sound

\* A command on healthy volume dk enters inode i at path p, in slot s of
\* directory d, or removes it from there.
Change(dk, p, i, d, s, f) ==
    /\ dk \in Disk /\ Healthy(dk, dk.data)
    /\ p \in Seq(Names) /\ p # <<>> /\ i \in Inodes
    /\ Walk(dk, dk.data, p) = i \/ ~Used(dk, i)
    /\ d = Walk(dk, dk.data, Front(p)) /\ d \in Directories(dk) /\ d # i
    /\ s \in Slots /\ Reentered(EntriesOf(dk, dk.data, d), f, s, Last(p))

\* At paths that do not begin with p nothing changes.
Same(dk, x, p) ==
    \A q \in Apart(p) : Walk(x, x.data, q) = Walk(dk, dk.data, q) /\ View(x, x.data, q) = View(dk, dk.data, q)

LEMMA NearbyAlike ==
    ASSUME NEW dk, NEW p, NEW i, NEW d, NEW s, NEW f, Change(dk, p, i, d, s, f),
           NEW x \in Nearby(dk, i, d, f)
    PROVE  Same(dk, x, p)
<1> USE DEF Change
<1> DEFINE n == Last(p)
           e == EntriesOf(dk, dk.data, d)
<1>1. Near(dk, x, i, d, f) /\ x \in Disk
  BY DEF Nearby
<1>2. Beside(dk, dk.data, x, x.data, i, d, s, n)
  <2>1. Formed(x, x.data)
    BY <1>1, DiskFormed
  <2>2. \A j \in Inodes \ {i} : x.inode[j] = dk.inode[j]
    BY <1>1 DEF Near
  <2>3. ASSUME NEW y \in Directories(dk) \ {i}, NEW r \in Slots
        PROVE  (y = d /\ r = s) \/ EntriesOf(x, x.data, y)[r] = EntriesOf(dk, dk.data, y)[r]
    BY EntriesNear DEF Reentered
  <2>4. e[s].name \in {n, NoName} /\ EntriesOf(x, x.data, d)[s].name \in {n, NoName}
    BY EntriesNear DEF Reentered
  <2>5. ASSUME NEW j \in Inodes \ {i}, dk.inode[j].type = "file", NEW k \in Extent(dk, j)
        PROVE  x.data[k].text = dk.data[k].text
    <3>1. j # d
      BY <2>5, VolumeSizes DEF Directories, Root, Inodes
    <3> QED
      BY <1>1, <2>5, <3>1 DEF Near
  <2> QED
    BY <2>1, <2>2, <2>3, <2>4, <2>5 DEF Beside
<1>3. Formed(dk, dk.data)
  BY DiskFormed
<1>4. IsDirectory(dk, d)
  BY DEF IsDirectory, Directories
<1> HIDE DEF n
<1>5. Beside(dk, dk.data, x, x.data, i, Walk(dk, dk.data, Front(p)), s, Last(p))
  BY <1>2 DEF n
<1>6. IsDirectory(dk, Walk(dk, dk.data, Front(p)))
  BY <1>4
<1>7. \A q \in Apart(p) : /\ Walk(x, x.data, q) = Walk(dk, dk.data, q)
                          /\ View(x, x.data, q) = View(dk, dk.data, q)
  BY <1>3, <1>5, <1>6, ViewsKept
<1> QED
  BY <1>7 DEF Same

\* The disk a command ends with passes the check if the one it started from did.
LEMMA StillHealthy ==
    ASSUME NEW dk \in Disk, Healthy(dk, dk.data), NEW i \in Inodes, NEW d \in Directories(dk), d # i,
           NEW s \in Slots, NEW f, NEW n \in Names,
           Reentered(EntriesOf(dk, dk.data, d), f, s, n),
           NEW x \in Nearby(dk, i, d, f), Sound(x),
           EntriesOf(x, x.data, d) = f,
           x.map = (dk.map \ Extent(dk, i)) \union Extent(x, i),
           i \in Directories(x) => EntriesOf(x, x.data, i) = NoEntries,
           \/ Used(x, i) /\ f[s] = EntriesOf(dk, dk.data, d)[s]
           \/ /\ Used(x, i) /\ ~Used(dk, i) /\ f[s] = [name |-> n, inode |-> i]
              /\ Named(EntriesOf(dk, dk.data, d), n) = {}
           \/ /\ ~Used(x, i) /\ Extent(x, i) = {} /\ f[s] = FreeEntry
              /\ EntriesOf(dk, dk.data, d)[s].name = n /\ EntriesOf(dk, dk.data, d)[s].inode = i
    PROVE  Healthy(x, x.data)
<1> DEFINE e == EntriesOf(dk, dk.data, d)
           old(y) == EntriesOf(dk, dk.data, y)
           new(y) == EntriesOf(x, x.data, y)
<1>1. Near(dk, x, i, d, f) /\ x \in Disk
  BY DEF Nearby
<1>2. /\ \A j \in Inodes \ {i} : x.inode[j] = dk.inode[j]
      /\ \A j : j # i => (Used(x, j) <=> Used(dk, j))
      /\ \A j \in Inodes \ {i} : Extent(x, j) = Extent(dk, j)
  BY <1>1 DEF Near, Used, Extent
<1>3. dk.map = ExpectedMap(dk) /\ Sound(dk) /\ NamedOnce(dk, dk.data)
      /\ \A y \in Directories(dk) : EntriesValid(dk, old(y))
  BY DEF Healthy, Checked
<1>4. n # NoName /\ FreeEntry.name = NoName /\ NoEntries \in [Slots -> {FreeEntry}]
  BY NamesAssumption DEF NoName, FreeEntry, NoEntries
<1>5. x.map = ExpectedMap(x)
  <2>1. \A j \in Inodes : j # i => Extent(dk, j) \cap Extent(dk, i) = {}
    BY <1>3 DEF Sound
  <2>2. ~Used(dk, i) => Extent(dk, i) = {}
    BY FreeEmpty
  <2>3. ~Used(x, i) => Extent(x, i) = {}
    OBVIOUS
  <2>4. dk.map = UNION {Extent(dk, j) : j \in {j \in Inodes : Used(dk, j)}}
    BY <1>3 DEF ExpectedMap
  <2>5. \A k : k \in dk.map \ Extent(dk, i) <=> \E j \in Inodes \ {i} : Used(dk, j) /\ k \in Extent(dk, j)
    BY <2>1, <2>2, <2>4
  <2>6. \A k : k \in x.map <=> \E j \in Inodes : Used(x, j) /\ k \in Extent(x, j)
    BY <1>2, <2>3, <2>5
  <2>7. ExpectedMap(x) = UNION {Extent(x, j) : j \in {j \in Inodes : Used(x, j)}}
    BY DEF ExpectedMap
  <2> QED
    BY <2>6, <2>7
<1>6. \A y \in Directories(x) : y = i \/ y \in Directories(dk) \ {i}
  BY <1>2 DEF Directories
<1>7. ASSUME NEW y \in Directories(x), NEW r \in Slots, new(y)[r].name # NoName
      PROVE  /\ y \in Directories(dk) \ {i}
             /\ \/ new(y)[r] = old(y)[r]
                \/ /\ y = d /\ r = s /\ new(y)[r] = [name |-> n, inode |-> i]
                   /\ Used(x, i) /\ ~Used(dk, i) /\ Named(e, n) = {}
  <2>1. y # i
    <3> SUFFICES ASSUME y = i PROVE FALSE
      OBVIOUS
    <3>1. new(y) = NoEntries
      OBVIOUS
    <3> QED
      BY <1>4, <1>7, <3>1
  <2>2. y \in Directories(dk) \ {i}
    BY <1>6, <2>1
  <2>3. new(y)[r] = old(y)[r] \/ (y = d /\ new(y)[r] = f[r])
    BY <2>2, EntriesNear
  <2>4. CASE new(y)[r] # old(y)[r]
    <3>1. y = d /\ new(y)[r] = f[r] /\ r = s
      BY <2>3, <2>4 DEF Reentered
    <3>2. f[s] # e[s] /\ f[s].name # NoName
      BY <1>7, <2>4, <3>1
    <3> HIDE DEF new
    <3> QED
      BY <1>4, <2>2, <3>1, <3>2
  <2> QED
    BY <2>2, <2>4
<1> HIDE DEF new, old
<1>8. ASSUME NEW y \in Directories(x), NEW r \in Slots, new(y)[r].name # NoName
      PROVE  Used(x, new(y)[r].inode)
  <2>1. y \in Directories(dk) \ {i}
    BY <1>7, <1>8
  <2>2. CASE new(y)[r] = old(y)[r]
    <3>1. Used(dk, old(y)[r].inode)
      BY <1>3, <1>8, <2>1, <2>2 DEF EntriesValid
    <3>2. CASE old(y)[r].inode # i
      BY <1>2, <2>2, <3>1, <3>2
    <3>3. CASE old(y)[r].inode = i /\ Used(x, i)
      BY <2>2, <3>3
    <3>4. CASE old(y)[r].inode = i /\ ~Used(x, i)
      <4>1. f[s] = FreeEntry /\ e[s].name # NoName /\ e[s].inode = i
        BY <1>4, <3>4
      <4>2. y = d /\ r = s
        BY <1>3, <1>8, <2>1, <2>2, <3>4, <4>1 DEF NamedOnce, old
      <4>3. new(y)[r] = FreeEntry
        BY <4>1, <4>2 DEF new
      <4> QED
        BY <1>4, <1>8, <4>3
    <3> QED
      BY <3>2, <3>3, <3>4
  <2>3. CASE new(y)[r] # old(y)[r]
    BY <1>7, <1>8, <2>3
  <2> QED
    BY <2>2, <2>3
<1>9. Checked(x, x.data)
  BY <1>5, <1>8 DEF Checked, EntriesValid, new
<1>10. ASSUME NEW y \in Directories(dk), NEW r \in Slots, old(y)[r].name # NoName
       PROVE  Used(dk, old(y)[r].inode)
  BY <1>3, <1>10 DEF EntriesValid
<1>11. NamedOnce(x, x.data)
  <2> SUFFICES ASSUME NEW y1 \in Directories(x), NEW y2 \in Directories(x), NEW r1 \in Slots, NEW r2 \in Slots,
                      new(y1)[r1].name # NoName, new(y2)[r2].name # NoName,
                      new(y1)[r1].inode = new(y2)[r2].inode \/ (y1 = y2 /\ new(y1)[r1].name = new(y2)[r2].name)
               PROVE  y1 = y2 /\ r1 = r2
    BY DEF NamedOnce, new
  <2> DEFINE Made(y, r) == /\ y = d /\ r = s /\ new(y)[r] = [name |-> n, inode |-> i]
                           /\ ~Used(dk, i) /\ Named(e, n) = {}
  <2>1. y1 \in Directories(dk) /\ y2 \in Directories(dk)
    BY <1>7
  <2>2. new(y1)[r1] = old(y1)[r1] \/ Made(y1, r1)
    BY <1>7
  <2>3. new(y2)[r2] = old(y2)[r2] \/ Made(y2, r2)
    BY <1>7
  <2>4. CASE new(y1)[r1] = old(y1)[r1] /\ new(y2)[r2] = old(y2)[r2]
    BY <1>3, <2>1, <2>4 DEF NamedOnce, old
  <2>5. CASE Made(y1, r1) /\ Made(y2, r2)
    BY <2>5
  <2>6. ASSUME NEW y \in Directories(dk), NEW r \in Slots, NEW z, NEW u, Made(z, u),
               old(y)[r].name # NoName,
               old(y)[r].inode = new(z)[u].inode \/ (y = z /\ old(y)[r].name = new(z)[u].name)
        PROVE  FALSE
    <3>1. Used(dk, old(y)[r].inode)
      BY <1>10, <2>6
    <3>2. ~(y = d /\ old(y)[r].name = n)
      BY <2>6 DEF Named, old
    <3> QED
      BY <2>6, <3>1, <3>2
  <2> HIDE DEF Made
  <2>7. CASE Made(y1, r1) /\ new(y2)[r2] = old(y2)[r2]
    BY <2>1, <2>6, <2>7
  <2>8. CASE new(y1)[r1] = old(y1)[r1] /\ Made(y2, r2)
    BY <2>1, <2>6, <2>8
  <2> QED
    BY <2>2, <2>3, <2>4, <2>5, <2>7, <2>8
<1> QED
  BY <1>9, <1>11 DEF Healthy

-----------------------------------------------------------------------------
(* Reading the tables in memory, and the disk a command ends with.         *)

\* Tables with the same inodes and root directory read the same.
LEMMA SameTables ==
    ASSUME NEW t, NEW u, NEW data, t.inode = u.inode, t.dir = u.dir
    PROVE  /\ \A d : EntriesOf(t, data, d) = EntriesOf(u, data, d) /\ (IsDirectory(t, d) <=> IsDirectory(u, d))
           /\ \A i : Used(t, i) <=> Used(u, i)
           /\ \A q \in Seq(Names) : /\ Walk(t, data, q) = Walk(u, data, q)
                                    /\ Lookup(t, data, q) = Lookup(u, data, q)
                                    /\ View(t, data, q) = View(u, data, q)
                                    /\ q # <<>> => ParentOf(t, data, q) = ParentOf(u, data, q)
<1>1. \A d : EntriesOf(t, data, d) = EntriesOf(u, data, d) /\ (IsDirectory(t, d) <=> IsDirectory(u, d))
  BY DEF EntriesOf, IsDirectory
<1>2. \A i : Used(t, i) <=> Used(u, i)
  BY DEF Used
<1>3. \A d, n : Child(t, data, d, n) = Child(u, data, d, n)
  BY <1>1 DEF Child
<1>4. \A q \in Seq(Names) : Walk(t, data, q) = Walk(u, data, q)
  <2>1. \A q \in Seq(Names) : q # <<>> => Front(q) \in Seq(Names)
    BY Fronts
  <2>2. Seq(Names) \in SUBSET Seq(Names)
    OBVIOUS
  <2>3. \A q \in Seq(Names) : q # <<>> =>
          LET x == Walk(u, data, Front(q)) IN Child(t, data, x, Last(q)) = Child(u, data, x, Last(q))
    BY <1>3
  <2> QED
    BY <2>1, <2>2, <2>3, WalksAgree
<1>5. ASSUME NEW q \in Seq(Names)
      PROVE  Lookup(t, data, q) = Lookup(u, data, q) /\ View(t, data, q) = View(u, data, q)
  <2>1. Lookup(t, data, q) = Lookup(u, data, q)
    BY <1>2, <1>4 DEF Lookup
  <2>2. \A i : TextOf(t, data, i) = TextOf(u, data, i)
    BY DEF TextOf
  <2> QED
    BY <2>1, <2>2 DEF View
<1>6. \A q \in Seq(Names) : q # <<>> => ParentOf(t, data, q) = ParentOf(u, data, q)
  BY <1>1, <1>4, Fronts DEF ParentOf
<1> QED
  BY <1>1, <1>2, <1>4, <1>5, <1>6

\* The parent and the node of a path on a healthy volume.
LEMMA ParentFound ==
    ASSUME NEW dk \in Disk, Healthy(dk, dk.data), NEW p \in Seq(Names), p # <<>>,
           NEW d, d = ParentOf(dk, dk.data, p), d # Absent, NEW i \in Inodes,
           Walk(dk, dk.data, p) = i \/ ~Used(dk, i)
    PROVE  /\ d = Walk(dk, dk.data, Front(p)) /\ IsDirectory(dk, d) /\ d \in Directories(dk) /\ d # i
           /\ d \in Inodes \union {Root}
           /\ Walk(dk, dk.data, p) = Child(dk, dk.data, d, Last(p))
<1>1. d = Walk(dk, dk.data, Front(p)) /\ IsDirectory(dk, d)
  BY DEF ParentOf
<1>2. d \in Directories(dk) /\ d \in Inodes \union {Root}
  BY <1>1 DEF IsDirectory, Directories
<1>3. d # i
  <2>1. CASE d = Root
    BY <2>1, VolumeSizes DEF Root, Inodes
  <2>2. CASE d # Root /\ ~Used(dk, i)
    BY <1>2, <2>2 DEF Directories, Used
  <2>3. CASE d # Root /\ Walk(dk, dk.data, p) = i
    <3>1. Front(p) \in Seq(Names) /\ Len(Front(p)) # Len(p)
      BY Fronts
    <3>2. d # Absent /\ Formed(dk, dk.data)
      BY DiskFormed
    <3> SUFFICES ASSUME d = i PROVE FALSE
      OBVIOUS
    <3>3. Front(p) = p
      BY <1>1, <2>3, <3>1, <3>2, OnePath
    <3> QED
      BY <3>1, <3>3
  <2> QED
    BY <2>1, <2>2, <2>3
<1> QED
  BY <1>1, <1>2, <1>3, WalkUnfolds

\* Where a name of a directory leads, when no name is twice in it.
LEMMA NameLeads ==
    ASSUME NEW t, NEW data, NamedOnce(t, data), NEW d, IsDirectory(t, d), NEW n \in Names
    PROVE  /\ \A s \in Slots : EntriesOf(t, data, d)[s].name = n =>
                 /\ Child(t, data, d, n) = EntriesOf(t, data, d)[s].inode
                 /\ Named(EntriesOf(t, data, d), n) = {s}
                 /\ LeastOf(Named(EntriesOf(t, data, d), n)) = s
           /\ Named(EntriesOf(t, data, d), n) = {} => Child(t, data, d, n) = Absent
<1> DEFINE e == EntriesOf(t, data, d)
<1>1. d \in Directories(t) /\ n # NoName
  BY NamesAssumption DEF IsDirectory, Directories, NoName
<1>2. ASSUME NEW s \in Slots, e[s].name = n
      PROVE  Child(t, data, d, n) = e[s].inode /\ Named(e, n) = {s} /\ LeastOf(Named(e, n)) = s
  <2>1. \A r \in Slots : e[r].name = n => r = s
    BY <1>1, <1>2 DEF NamedOnce
  <2> HIDE DEF e
  <2>2. Named(e, n) = {s}
    BY <1>2, <2>1 DEF Named
  <2>3. LeastOf({s}) = s
    <3>1. {s} \in SUBSET Slots
      OBVIOUS
    <3>2. LeastOf({s}) \in {s}
      BY <3>1, FirstFound, VolumeSizes
    <3> QED
      BY <3>2
  <2> QED
    BY <2>2, <2>3 DEF Child, e
<1> QED
  BY <1>2 DEF Child

\* What is read at the path a command has entered, or removed.
LEMMA PathReads ==
    ASSUME NEW dk \in Disk, NEW x \in Disk, Healthy(x, x.data), NEW p \in Seq(Names), p # <<>>,
           NEW d \in Directories(x), d = Walk(dk, dk.data, Front(p)),
           Walk(x, x.data, Front(p)) = Walk(dk, dk.data, Front(p)),
           NEW f, EntriesOf(x, x.data, d) = f
    PROVE  /\ \A s \in Slots, i \in Inodes :
                 f[s].name = Last(p) /\ f[s].inode = i /\ Used(x, i) => Lookup(x, x.data, p) = i
           /\ Named(f, Last(p)) = {} => View(x, x.data, p) = Nothing
<1>1. Last(p) \in Names
  BY Fronts
<1>2. Walk(x, x.data, p) = Child(x, x.data, d, Last(p))
  BY WalkUnfolds
<1>3. IsDirectory(x, d) /\ NamedOnce(x, x.data)
  BY DEF Directories, IsDirectory, Healthy
<1>4. ASSUME NEW s \in Slots, NEW i \in Inodes, f[s].name = Last(p), f[s].inode = i, Used(x, i)
      PROVE  Lookup(x, x.data, p) = i
  <2>1. Child(x, x.data, d, Last(p)) = i
    BY <1>1, <1>3, <1>4, NameLeads
  <2> QED
    BY <1>2, <1>4, <2>1 DEF Lookup
<1>5. ASSUME Named(f, Last(p)) = {}
      PROVE  View(x, x.data, p) = Nothing
  <2>1. Walk(x, x.data, p) = Absent
    BY <1>1, <1>2, <1>3, <1>5, NameLeads
  <2>2. ~Used(x, Absent)
    BY VolumeSizes DEF Used, Inodes, Absent
  <2> QED
    BY <2>1, <2>2 DEF View, Lookup
<1> QED
  BY <1>4, <1>5

-----------------------------------------------------------------------------
(* The disks a command writes.                                             *)

Ahead(S) == Seq([mem : Memory, disk : S])
EndAt(dk, todo) == IF todo = <<>> THEN dk ELSE Last(todo).disk

LEMMA AtAhead ==
    ASSUME NEW S, NEW m \in Memory, NEW w \in Seq(S), NEW dk
    PROVE  At(m, w) \in Ahead(S) /\ EndAt(dk, At(m, w)) = EndOf(dk, w)
<1> DEFINE one(k) == [mem |-> m, disk |-> w[k]]
           L == Len(w)
<1>1. L \in Nat /\ (\A k \in 1 .. L : one(k) \in [mem : Memory, disk : S]) /\ (w = <<>> <=> L = 0)
  OBVIOUS
<1>2. At(m, w) = [k \in 1 .. L |-> one(k)]
  BY DEF At
<1>3. L # 0 => one(L).disk = Last(w)
  BY DEF Last
<1> HIDE DEF one, L
<1>4. At(m, w) \in Ahead(S) /\ Len(At(m, w)) = L /\ (L # 0 => At(m, w)[L] = one(L))
  BY <1>1, <1>2 DEF Ahead
<1>5. At(m, w) = <<>> <=> L = 0
  BY <1>1, <1>4 DEF Ahead
<1> QED
  BY <1>1, <1>3, <1>4, <1>5 DEF EndAt, EndOf, Last

LEMMA AheadJoined ==
    ASSUME NEW S, NEW a \in Ahead(S), NEW b \in Ahead(S), NEW dk
    PROVE  a \o b \in Ahead(S) /\ EndAt(dk, a \o b) = EndAt(EndAt(dk, a), b)
<1> DEFINE E == [mem : Memory, disk : S]
<1> HIDE DEF E
<1>1. /\ a \o b \in Seq(E) /\ Len(a \o b) = Len(a) + Len(b) /\ Len(a) \in Nat /\ Len(b) \in Nat
      /\ \A n \in 1 .. Len(a) + Len(b) : (a \o b)[n] = IF n <= Len(a) THEN a[n] ELSE b[n - Len(a)]
  <2>1. a \in Seq(E) /\ b \in Seq(E)
    BY DEF Ahead, E
  <2> QED
    BY <2>1, ConcatProperties
<1>2. a \o b \in Ahead(S)
  BY <1>1 DEF Ahead, E
<1>3. CASE b = <<>>
  <2>1. a \o b = a
    BY <1>3 DEF Ahead
  <2> QED
    BY <1>2, <1>3, <2>1 DEF EndAt
<1>4. CASE b # <<>>
  <2>1. Len(b) # 0 /\ Len(a) + Len(b) \in 1 .. Len(a) + Len(b) /\ ~(Len(a) + Len(b) <= Len(a))
        /\ Len(a) + Len(b) - Len(a) = Len(b)
    BY <1>1, <1>4 DEF Ahead
  <2>2. a \o b # <<>> /\ Last(a \o b) = Last(b)
    BY <1>1, <2>1 DEF Last
  <2> QED
    BY <1>2, <1>4, <2>2 DEF EndAt
<1> QED
  BY <1>3, <1>4

\* Sets of disks that hold those of a sequence of writes.
LEMMA MoreDisks ==
    ASSUME NEW S, NEW T, S \subseteq T
    PROVE  Seq(S) \subseteq Seq(T) /\ Ahead(S) \subseteq Ahead(T)
<1> DEFINE E == [mem : Memory, disk : S]
           F == [mem : Memory, disk : T]
<1>1. E \subseteq F
  OBVIOUS
<1> HIDE DEF E, F
<1>2. \A A, B : A \subseteq B => Seq(A) \subseteq Seq(B)
  OBVIOUS
<1>3. Seq(S) \subseteq Seq(T)
  BY <1>2
<1>4. Seq(E) \subseteq Seq(F)
  BY <1>1, <1>2
<1> QED
  BY <1>3, <1>4 DEF Ahead, E, F

LEMMA Written ==
    ASSUME NEW S, NEW a \in Ahead(S), NEW k \in DOMAIN a
    PROVE  a[k].disk \in S
<1> DEFINE E == [mem : Memory, disk : S]
<1>1. a \in Seq(E)
  BY DEF Ahead
<1> HIDE DEF E
<1>2. a[k] \in E
  BY <1>1
<1> QED
  BY <1>2 DEF E

\* Disks near dk that are marked flag, and disk y.
Marks(dk, i, d, f, flag) == {x \in Nearby(dk, i, d, f) : x.super = flag}
Marking(dk, i, d, f, flag, y) == Marks(dk, i, d, f, flag) \union {y}

\* Disk z is x with a sector written at s and on.
FilledWith(x, z, s, n, sector) ==
    /\ z.super = x.super /\ z.inode = x.inode /\ z.dir = x.dir /\ z.map = x.map
    /\ \A k \in Sectors : z.data[k] = IF k \in s .. s + n - 1 THEN sector ELSE x.data[k]

\* Tables m differ from dk only there; disk y is x after a flush of them.
TablesNear(m, dk, i, d, f) ==
    /\ \A j \in Inodes \ {i} : m.inode[j] = dk.inode[j]
    /\ \A r \in Slots : m.dir[r] = dk.dir[r] \/ (d = Root /\ m.dir[r] = f[r])

FlushedTo(x, y, m, root) ==
    /\ y.super = "clean" /\ y.data = x.data /\ Carries(x, y, m, root)
    /\ \A v : EndOf(v, FlushTables(x, m, root)) = y

\* Filling sectors that belong to no inode but i.
LEMMA FillNear ==
    ASSUME NEW dk \in Disk, NEW i, NEW d, NEW f, NEW x \in Nearby(dk, i, d, f),
           NEW s \in Nat, NEW n \in Nat, NEW sector \in Sector,
           \A j \in Inodes \ {i} : Extent(dk, j) \cap (s .. s + n - 1) = {}
    PROVE  LET w == Fill(x, s, n, sector)
               z == EndOf(x, w)
           IN  w \in Seq(Marks(dk, i, d, f, x.super)) /\ z \in Nearby(dk, i, d, f) /\ FilledWith(x, z, s, n, sector)
<1> DEFINE one(k) == [x EXCEPT !.data = [u \in Sectors |-> IF u \in s .. s + k - 1 THEN sector ELSE @[u]]]
           S == {y \in Nearby(dk, i, d, f) : y.super = x.super}
           w == Fill(x, s, n, sector)
<1>1. x \in Disk /\ Near(dk, x, i, d, f)
  BY DEF Nearby
<1>2. \A k \in 0 .. n : /\ one(k) \in Disk /\ one(k).super = x.super
                        /\ one(k).inode = x.inode /\ one(k).dir = x.dir /\ one(k).map = x.map
                        /\ \A u \in Sectors : one(k).data[u] = IF u \in s .. s + k - 1 THEN sector ELSE x.data[u]
  BY <1>1 DEF Disk
<1>3. w = [k \in 1 .. n |-> one(k)]
  BY DEF Fill
<1>4. \A k \in 0 .. n : \A u \in s .. s + k - 1 : u \in s .. s + n - 1
  OBVIOUS
<1> HIDE DEF one
<1>5. ASSUME NEW k \in 0 .. n PROVE one(k) \in S
  <2>1. \A j \in Inodes : Extent(dk, j) \cap Sectors \in SUBSET Sectors
    OBVIOUS
  <2>2. ASSUME NEW j \in Inodes \ {i}, NEW u \in Extent(dk, j)
        PROVE  one(k).data[u] = x.data[u]
    <3>1. u \notin s .. s + k - 1
      BY <1>4, <2>2
    <3>2. u \in Sectors
      <4>1. dk.inode[j] \in Inode
        BY DEF Disk
      <4> QED
        BY <2>2, <4>1, VolumeSizes DEF Extent, Inode, Sectors
    <3> QED
      BY <1>2, <3>1, <3>2
  <2>3. Near(dk, one(k), i, d, f)
    BY <1>1, <1>2, <2>2 DEF Near
  <2> QED
    BY <1>2, <2>3 DEF Nearby
<1>6. n = 0 => one(n) = x
  <2> SUFFICES ASSUME n = 0 PROVE one(n) = x
    OBVIOUS
  <2>1. s .. s + n - 1 = {}
    OBVIOUS
  <2>2. x.data = [u \in Sectors |-> x.data[u]]
    BY <1>1 DEF Disk
  <2>3. x = [x EXCEPT !.data = x.data]
    BY <1>1 DEF Disk
  <2> QED
    BY <2>1, <2>2, <2>3 DEF one
<1> HIDE DEF S, w
<1>7. w \in Seq(S) /\ Len(w) = n /\ (n # 0 => w[n] = one(n)) /\ (w = <<>> <=> n = 0)
  BY <1>3, <1>5
<1>8. EndOf(x, w) = one(n)
  BY <1>6, <1>7 DEF EndOf, Last
<1>9. one(n) \in S
  BY <1>5
<1> QED
  BY <1>2, <1>7, <1>8, <1>9 DEF S, w, Marks, FilledWith

\* A flush of tables that differ only there.
LEMMA FlushNear ==
    ASSUME NEW dk \in Disk, NEW i, NEW d, NEW f, NEW x \in Nearby(dk, i, d, f),
           NEW m \in Memory, NEW root \in BOOLEAN, TablesNear(m, dk, i, d, f)
    PROVE  \E y \in Nearby(dk, i, d, f) : /\ FlushedTo(x, y, m, root)
                                         /\ FlushTables(x, m, root) \in Seq(Marking(dk, i, d, f, x.super, y))
<1>1. x \in Disk /\ Near(dk, x, i, d, f)
  BY DEF Nearby
<1>2. PICK w \in Seq(Moves(x, m, root)) :
         /\ FlushTables(x, m, root) = w \o <<Flagged(EndOf(x, w), "clean")>>
         /\ EndOf(x, w) \in Moves(x, m, root)
         /\ Carries(x, EndOf(x, w), m, root)
  BY <1>1, FlushMade
<1> DEFINE y == Flagged(EndOf(x, w), "clean")
           S == Marking(dk, i, d, f, x.super, y)
<1>3. ASSUME NEW z \in Moves(x, m, root) PROVE z \in Nearby(dk, i, d, f) /\ z.super = x.super
  BY <1>1 DEF Moves, Moved, Near, Nearby, TablesNear
<1>4. /\ y \in Disk /\ y.super = "clean" /\ y.data = x.data /\ y.inode = EndOf(x, w).inode
      /\ y.dir = EndOf(x, w).dir /\ y.map = EndOf(x, w).map
  BY <1>2 DEF Moves, Moved, Flagged, Disk
<1>5. y \in Nearby(dk, i, d, f)
  BY <1>2, <1>3, <1>4 DEF Near, Nearby
<1>6. Carries(x, y, m, root)
  BY <1>2, <1>4 DEF Carries
<1> HIDE DEF y
<1>7. w \in Seq(S) /\ <<y>> \in Seq(S)
  <2>1. Moves(x, m, root) \subseteq S
    BY <1>3 DEF Marking, Marks
  <2>2. y \in S
    BY DEF Marking
  <2> HIDE DEF S
  <2> QED
    BY <2>1, <2>2
<1>8. w \o <<y>> \in Seq(S) /\ \A v : EndOf(v, w \o <<y>>) = y
  <2> HIDE DEF S
  <2>1. <<y>> # <<>> /\ Last(<<y>>) = y
    BY DEF Last
  <2>2. /\ w \o <<y>> \in Seq(S) /\ Len(w \o <<y>>) = Len(w) + 1 /\ (w \o <<y>>)[Len(w) + 1] = y
        /\ Len(w) \in Nat
    BY <1>7
  <2> QED
    BY <2>2 DEF EndOf, Last
<1> QED
  BY <1>2, <1>4, <1>5, <1>6, <1>8 DEF y, FlushedTo

-----------------------------------------------------------------------------
(* What a command has planned.                                             *)

Seen(x, q) == View(x, x.data, q)
FoundOn(x, q) == Lookup(x, x.data, q)

PathKinds == {"write", "open", "mkdir", "remove"}
Marked(o) == o.kind \in {"mkdir", "remove", "fdwrite"} \/ (o.kind \in {"write", "open"} /\ Len(o.path) > 1)
Tidy(x) == x.super = "dirty" \/ Checked(x, x.data)

\* Two disks read the same but for what command o is about; i is the inode of
\* the descriptor.
Alike(o, i, a, b) ==
    /\ o.kind \in PathKinds => \A q \in Apart(o.path) : Seen(a, q) = Seen(b, q)
    /\ o.kind = "fdwrite" =>
          \A q \in Seq(Names) : /\ FoundOn(a, q) = FoundOn(b, q)
                                /\ FoundOn(a, q) # i => Seen(a, q) = Seen(b, q)

Achieved(o, i, x) ==
    /\ InSync(o.end, x) /\ x.super = "clean"
    /\ o.kind \in PathKinds => Seen(x, o.path) = o.want
    /\ o.kind = "fdwrite" /\ o.want # Nothing => TextOf(x, x.data, i) = o.want.text

\* From disk dk on, every write of o leaves what o is not about, and what is not
\* marked unclean passes the check; the last one achieves o if it succeeds.
Planned(o, dk, i) ==
    /\ \A k \in DOMAIN o.todo : Alike(o, i, dk, o.todo[k].disk) /\ (Marked(o) => Tidy(o.todo[k].disk))
    /\ Marked(o) => Tidy(dk)
    /\ o.ok => Achieved(o, i, EndAt(dk, o.todo))

LEMMA PathPlanned ==
    ASSUME NEW dk, NEW p, NEW i, NEW d, NEW s, NEW f, Change(dk, p, i, d, s, f),
           NEW S, S \subseteq Nearby(dk, i, d, f),
           NEW o, NEW todo, o.todo = todo, todo \in Ahead(S), o.kind \in PathKinds, o.path = p,
           Marked(o) => \A x \in S : Tidy(x),
           NEW h, o.ok => Achieved(o, h, EndAt(dk, todo))
    PROVE  Planned(o, dk, h)
<1>1. ASSUME NEW k \in DOMAIN todo
      PROVE  Alike(o, h, dk, todo[k].disk) /\ (Marked(o) => Tidy(todo[k].disk))
  <2> DEFINE x == todo[k].disk
  <2>1. x \in S
    BY Written
  <2> HIDE DEF x
  <2>2. \A q \in Apart(p) : Seen(x, q) = Seen(dk, q)
    <3>1. x \in Nearby(dk, i, d, f)
      BY <2>1
    <3> QED
      BY <3>1, NearbyAlike DEF Same, Seen
  <2>3. Alike(o, h, dk, x)
    BY <2>2 DEF Alike, PathKinds
  <2> QED
    BY <2>1, <2>3 DEF x
<1>2. Tidy(dk)
  BY DEF Change, Tidy, Healthy
<1> QED
  BY <1>1, <1>2 DEF Planned

-----------------------------------------------------------------------------
(* Files written.                                                          *)

\* Entry s of a directory is that of inode i under n, or is free for it.
Entered(dk, e, s, n, i) ==
    \/ e[s].name = n /\ e[s].inode = i /\ Used(dk, i)
    \/ e[s].name = NoName /\ Named(e, n) = {} /\ ~Used(dk, i)

\* The slot and the inode a command takes for name n in entries e.
SlotFor(e, n) == IF Named(e, n) # {} THEN LeastOf(Named(e, n)) ELSE LeastOf(FreeSlots(e))
InodeFor(m, e, n) == IF Named(e, n) # {} THEN e[SlotFor(e, n)].inode ELSE LeastOf(FreeInodes(m))
Takes(m, e, n) == Named(e, n) # {} \/ (FreeSlots(e) # {} /\ FreeInodes(m) # {})

LEMMA EntryChosen ==
    ASSUME NEW dk \in Disk, Healthy(dk, dk.data), NEW d, IsDirectory(dk, d), NEW n \in Names,
           NEW m, m.inode = dk.inode, Takes(m, EntriesOf(dk, dk.data, d), n)
    PROVE  LET e == EntriesOf(dk, dk.data, d)
               s == SlotFor(e, n)
               i == InodeFor(m, e, n)
           IN  /\ s \in Slots /\ i \in Inodes /\ Entered(dk, e, s, n, i)
               /\ (Child(dk, dk.data, d, n) = i \/ ~Used(dk, i))
               /\ (Named(e, n) = {} <=> ~Used(dk, i))
<1> DEFINE e == EntriesOf(dk, dk.data, d)
           s == SlotFor(e, n)
           i == InodeFor(m, e, n)
<1>a. /\ Named(e, n) # {} \/ (FreeSlots(e) # {} /\ FreeInodes(m) # {})
      /\ s = IF Named(e, n) # {} THEN LeastOf(Named(e, n)) ELSE LeastOf(FreeSlots(e))
      /\ i = IF Named(e, n) # {} THEN e[s].inode ELSE LeastOf(FreeInodes(m))
  BY DEF SlotFor, InodeFor, Takes
<1>b. e = EntriesOf(dk, dk.data, d)
  OBVIOUS
<1> HIDE DEF e, s, i
<1>1. d \in Directories(dk) /\ n # NoName
  BY NamesAssumption DEF IsDirectory, Directories, NoName
<1>2. CASE Named(e, n) # {}
  <2>1. s \in Slots /\ e[s].name = n
    BY <1>a, <1>2, FirstFound, VolumeSizes DEF Named
  <2>2. Used(dk, i) /\ i = e[s].inode
    BY <1>a, <1>b, <1>1, <1>2, <2>1 DEF Healthy, Checked, EntriesValid
  <2>3. i \in Inodes
    BY <2>2 DEF Used
  <2>4. Child(dk, dk.data, d, n) = i
    BY <1>a, <1>b, <1>2, <2>2 DEF Child
  <2> QED
    BY <1>2, <2>1, <2>2, <2>3, <2>4 DEF Entered, e, s, i
<1>3. CASE Named(e, n) = {}
  <2>1. s \in Slots /\ e[s].name = NoName
    BY <1>a, <1>3, FirstFound, VolumeSizes DEF FreeSlots, Named
  <2>2. i \in Inodes /\ ~Used(dk, i)
    BY <1>a, <1>3, FirstFound, VolumeSizes DEF FreeInodes, Used
  <2> QED
    BY <1>3, <2>1, <2>2 DEF Entered, e, s, i
<1> QED
  BY <1>2, <1>3 DEF e, s, i

EntryPut(e, s, n, i) == [e EXCEPT ![s] = [name |-> n, inode |-> i]]

LEMMA EntryMade ==
    ASSUME NEW dk, NEW e \in [Slots -> Entry], NEW s \in Slots, NEW n \in Names, NEW i \in Inodes,
           Entered(dk, e, s, n, i)
    PROVE  LET f == EntryPut(e, s, n, i)
           IN  /\ Reentered(e, f, s, n) /\ f[s] = [name |-> n, inode |-> i]
               /\ Used(dk, i) => f = e
<1>1. [name |-> n, inode |-> i] \in Entry
  BY EntryFormed
<1>2. Used(dk, i) => e[s] = [name |-> n, inode |-> i]
  BY DEF Entered, Entry
<1> QED
  BY <1>1, <1>2 DEF Reentered, Entered, EntryPut

\* The text of a file of n sectors that hold x.
LEMMA TextRead ==
    ASSUME NEW t, NEW data, NEW i, NEW a \in Nat, NEW n \in Nat, NEW x,
           t.inode[i].start = a, t.inode[i].len = n, t.inode[i].size = n,
           \A k \in a .. a + n - 1 : data[k].text = x
    PROVE  TextOf(t, data, i) = FileOf(x, n).text
<1>1. \A k \in 1 .. n : a + k - 1 \in a .. a + n - 1
  OBVIOUS
<1>2. \A k \in 1 .. n : data[a + k - 1].text = x
  BY <1>1
<1>3. TextOf(t, data, i) = [k \in 1 .. n |-> data[a + k - 1].text]
  BY DEF TextOf
<1> QED
  BY <1>2, <1>3 DEF FileOf

\* A disk on which the file has been written and entered.
LEMMA FileEntered ==
    ASSUME NEW dk \in Disk, Healthy(dk, dk.data), NEW p \in Seq(Names), p # <<>>, NEW n \in Nat,
           NEW d, d = Walk(dk, dk.data, Front(p)), IsDirectory(dk, d), NEW i \in Inodes, d # i,
           Walk(dk, dk.data, p) = i \/ ~Used(dk, i),
           NEW e, e = EntriesOf(dk, dk.data, d), e \in [Slots -> Entry],
           NEW s \in Slots, Entered(dk, e, s, Last(p), i),
           NEW f, f = [e EXCEPT ![s] = [name |-> Last(p), inode |-> i]],
           NEW y \in Nearby(dk, i, d, f), EntriesOf(y, y.data, d) = f, Sound(y), NEW a \in Nat,
           y.inode[i] = [type |-> "file", start |-> a, len |-> n, size |-> n],
           y.map = (dk.map \ Extent(dk, i)) \union Extent(y, i),
           \A k \in a .. a + n - 1 : y.data[k] = TextSector(p)
    PROVE  Healthy(y, y.data) /\ Seen(y, p) = FileOf(p, n)
<1>1. Last(p) \in Names /\ Front(p) \in Apart(p)
  BY Fronts, ApartClosed
<1>2. Reentered(e, f, s, Last(p)) /\ f[s] = [name |-> Last(p), inode |-> i] /\ (Used(dk, i) => f = e)
  BY <1>1, EntryMade DEF EntryPut
<1>3. d \in Directories(dk)
  BY DEF IsDirectory, Directories
<1>4. Used(y, i) /\ ~(i \in Directories(y))
  BY VolumeSizes DEF Used, Directories, Inodes, Root
<1>5. Healthy(y, y.data)
  <2>1. \/ Used(y, i) /\ f[s] = e[s]
        \/ Used(y, i) /\ ~Used(dk, i) /\ f[s] = [name |-> Last(p), inode |-> i] /\ Named(e, Last(p)) = {}
    BY <1>2, <1>4 DEF Entered
  <2> QED
    BY <1>1, <1>2, <1>3, <1>4, <2>1, StillHealthy
<1>6. Walk(y, y.data, Front(p)) = Walk(dk, dk.data, Front(p))
  <2>1. Change(dk, p, i, d, s, f)
    BY <1>2, <1>3 DEF Change
  <2> QED
    BY <1>1, <2>1, NearbyAlike DEF Same
<1>7. d \in Directories(y)
  BY <1>3 DEF Directories, Nearby, Near
<1>8. y \in Disk
  BY DEF Nearby
<1>9. Lookup(y, y.data, p) = i
  <2>1. f[s].name = Last(p) /\ f[s].inode = i
    BY <1>2
  <2> QED
    BY <1>4, <1>5, <1>6, <1>7, <1>8, <2>1, PathReads
<1>10. TextOf(y, y.data, i) = FileOf(p, n).text
  <2>1. \A k \in a .. a + n - 1 : y.data[k].text = p
    BY DEF TextSector
  <2> DEFINE data == y.data
  <2> HIDE DEF data
  <2>2. \A k \in a .. a + n - 1 : data[k].text = p
    BY <2>1 DEF data
  <2>3. y.inode[i].start = a /\ y.inode[i].len = n /\ y.inode[i].size = n
    OBVIOUS
  <2>4. TextOf(y, data, i) = FileOf(p, n).text
    BY <2>2, <2>3, TextRead, SMTT(40)
  <2> QED
    BY <2>4 DEF data
<1>11. Seen(y, p) = FileOf(p, n)
  <2>1. i # Absent
    BY VolumeSizes DEF Inodes, Absent
  <2>2. FileOf(p, n) = [type |-> "file", text |-> FileOf(p, n).text]
    BY DEF FileOf
  <2>3. y.inode[i].type = "file"
    OBVIOUS
  <2> QED
    BY <1>9, <1>10, <2>1, <2>2, <2>3 DEF Seen, View
<1> QED
  BY <1>5, <1>11

\* The tables after an inode has been freed, given n sectors and made a file.
IsFile(c, i, a, n) == c.inode[i] = [type |-> "file", start |-> a, len |-> n, size |-> n]

OthersKept(c, m, i) == \A j \in Inodes \ {i} : c.inode[j] = m.inode[j]

FileMade(m1, i, n, m3, m4) ==
    /\ m3 \in SoundMemory /\ m4 \in SoundMemory
    /\ OthersKept(m4, m1, i) /\ m4.dir = m1.dir /\ m4.mounted = m1.mounted
    /\ m4.map = (m1.map \ Extent(m1, i)) \union Extent(m4, i)
    /\ \E a \in 0 .. MaxSector : /\ m3.inode[i].start = a /\ IsFile(m4, i, a, n)
                                 /\ Extent(m4, i) = a .. a + n - 1

LEMMA FileTables ==
    ASSUME NEW m1 \in SoundMemory, NEW i \in Inodes, NEW n \in Nat, HasRoom(Freed(m1, i).map, n)
    PROVE  /\ Freed(m1, i) \in SoundMemory
           /\ FileMade(m1, i, n, Allotted(Freed(m1, i), i, n), Filed(Allotted(Freed(m1, i), i, n), i, n))
<1> DEFINE m2 == Freed(m1, i)
           m3 == Allotted(m2, i, n)
           m4 == Filed(m3, i, n)
<1>a. /\ m2 = Freed(m1, i) /\ m3 = Allotted(m2, i, n) /\ m4 = Filed(m3, i, n)
      /\ HasRoom(m2.map, n)
  OBVIOUS
<1> HIDE DEF m2, m3, m4
<1> DEFINE a == FirstRun(m2.map, n)
           o2 == WithExtent(m1.inode[i], 0, 0)
           o3 == WithExtent(m2.inode[i], a, n)
           AsFile(o) == [o EXCEPT !.type = "file", !.size = n]
<1>1. TableSet(SoundMemory) /\ m1 \in Memory
  BY DEF TableSet, SoundMemory
<1>2. m2 \in SoundMemory /\ Extent(m2, i) = {} /\ m2.inode[i] = o2 /\ m2.dir = m1.dir
  BY <1>a, <1>1, FreedWithin
<1>3. m2 \in Memory
  BY <1>2 DEF SoundMemory
<1>4. m3 \in SoundMemory /\ m3.dir = m2.dir /\ m3.inode[i].start \in 0 .. MaxSector
  BY <1>a, <1>1, <1>2, AllottedWithin
<1>5. m3 \in Memory
  BY <1>4 DEF SoundMemory
<1>6. m4 \in SoundMemory /\ m4.dir = m3.dir
  BY <1>a, <1>1, <1>4, FiledWithin
<1>7. /\ m2.map = m1.map \ Extent(m1, i) /\ m2.mounted = m1.mounted
      /\ \A j \in Inodes \ {i} : m2.inode[j] = m1.inode[j]
  BY <1>a, <1>1 DEF Freed, Memory
<1>8. m2.inode[i] \in Inode
  BY <1>3 DEF Memory
<1> HIDE DEF a, o2
<1>9. m3 = [m2 EXCEPT !.map = m2.map \union RunSet(a, n), !.inode[i] = o3]
  BY <1>a DEF Allotted, a
<1>10. o3.start = a /\ o3.len = n /\ DOMAIN o3 = {"type", "start", "len", "size"}
  BY <1>8 DEF WithExtent, Inode
<1> HIDE DEF o3
<1>11. /\ m3.map = m2.map \union RunSet(a, n) /\ m3.inode[i] = o3 /\ m3.mounted = m2.mounted
       /\ \A j \in Inodes \ {i} : m3.inode[j] = m2.inode[j]
  BY <1>3, <1>9 DEF Memory
<1>12. o3 \in Inode
  BY <1>5, <1>11 DEF Memory
<1>13. AsFile(o3) = [type |-> "file", start |-> a, len |-> n, size |-> n]
  <2> DEFINE I == [type : {"free", "file", "dir"}, start : 0 .. MaxSector, len : 0 .. MaxSector, size : Nat]
             r == AsFile(o3)
  <2>1. o3 \in I
    BY <1>12 DEF Inode
  <2>2. r \in I /\ r.type = "file" /\ r.start = o3.start /\ r.len = o3.len /\ r.size = n
    BY <2>1
  <2>3. \A u \in I : u = [type |-> u.type, start |-> u.start, len |-> u.len, size |-> u.size]
    OBVIOUS
  <2> HIDE DEF I, r
  <2> QED
    BY <1>10, <2>2, <2>3 DEF r
<1>14. m4 = [m3 EXCEPT !.inode[i] = AsFile(o3)]
  BY <1>a, <1>11 DEF Filed
<1> HIDE DEF AsFile
<1>15. /\ m4.map = m3.map /\ m4.inode[i] = AsFile(o3) /\ m4.mounted = m3.mounted
       /\ \A j \in Inodes \ {i} : m4.inode[j] = m3.inode[j]
  BY <1>5, <1>14 DEF Memory
<1>16. IsFile(m4, i, a, n) /\ Extent(m4, i) = a .. a + n - 1
  BY <1>13, <1>15 DEF IsFile, Extent
<1>17. m4.map = (m1.map \ Extent(m1, i)) \union Extent(m4, i)
  BY <1>7, <1>11, <1>15, <1>16 DEF RunSet
<1>18. OthersKept(m4, m1, i)
  BY <1>7, <1>11, <1>15 DEF OthersKept
<1>19. a \in 0 .. MaxSector /\ m3.inode[i].start = a
  BY <1>4, <1>10, <1>11
<1>20. m2 \in SoundMemory /\ FileMade(m1, i, n, m3, m4)
  BY <1>2, <1>4, <1>6, <1>7, <1>11, <1>15, <1>16, <1>17, <1>18, <1>19 DEF FileMade
<1> QED
  BY <1>a, <1>20

\* Soundness is about inodes and bitmap only.
LEMMA SoundSame ==
    ASSUME NEW t, NEW u, t.inode = u.inode, t.map = u.map
    PROVE  Sound(t) <=> Sound(u)
BY DEF Sound, Extent

LEMMA SyncFacts ==
    ASSUME NEW m \in Memory, NEW dk \in Disk, InSync(m, dk)
    PROVE  /\ m \in SoundMemory /\ Healthy(dk, dk.data) /\ Sound(dk)
           /\ m.mounted /\ m.inode = dk.inode /\ m.dir = dk.dir /\ m.map = dk.map
           /\ \A i : Extent(m, i) = Extent(dk, i)
<1>1. Healthy(dk, dk.data) /\ Sound(dk) /\ m.mounted /\ m.inode = dk.inode /\ m.dir = dk.dir /\ m.map = dk.map
  BY DEF InSync, Matches, Healthy
<1>2. Sound(m)
  BY <1>1, SoundSame
<1> QED
  BY <1>1, <1>2 DEF SoundMemory, Extent

\* The tables a new file starts from.
LEMMA FirstTables ==
    ASSUME NEW m \in SoundMemory, NEW dk \in Disk, InSync(m, dk), NEW i \in Inodes, ~Used(dk, i),
           NEW c, c = WithInode(m, i, "file")
    PROVE  /\ c \in SoundMemory /\ OthersKept(c, m, i) /\ Extent(c, i) = {}
           /\ c.dir = m.dir /\ c.map = m.map /\ c.mounted = m.mounted
<1> DEFINE o == [FreeInode EXCEPT !.type = "file"]
<1>1. TableSet(SoundMemory) /\ m \in Memory
  BY DEF TableSet, SoundMemory
<1>2. c \in SoundMemory
  BY <1>1, InodeTaken
<1>3. c = [m EXCEPT !.inode[i] = o]
  BY DEF WithInode
<1>4. o.start = 0 /\ o.len = 0
  BY DEF FreeInode
<1> HIDE DEF o
<1>5. /\ c.inode[i] = o /\ c.dir = m.dir /\ c.map = m.map /\ c.mounted = m.mounted
      /\ \A j \in Inodes \ {i} : c.inode[j] = m.inode[j]
  BY <1>1, <1>3 DEF Memory
<1> QED
  BY <1>2, <1>4, <1>5 DEF OthersKept, Extent

\* A path of one name.
LEMMA OneName ==
    ASSUME NEW p \in Seq(Names), Len(p) = 1, NEW t, NEW data
    PROVE  p # <<>> /\ Last(p) = p[1] /\ p[1] \in Names /\ Walk(t, data, Front(p)) = Root
<1>1. p # <<>> /\ p[1] \in Names
  OBVIOUS
<1>2. Last(p) = p[1] /\ Front(p) \in Seq(Names) /\ Len(Front(p)) = 0
  BY <1>1, Fronts
<1>3. Front(p) = <<>>
  BY <1>2
<1> QED
  BY <1>1, <1>2, <1>3, WalkUnfolds

\* The disk as it is, marked or not.
LEMMA StartNear ==
    ASSUME NEW dk \in Disk, NEW i, NEW d, NEW f
    PROVE  /\ dk \in Nearby(dk, i, d, f)
           /\ LET x == Flagged(dk, "dirty")
              IN  /\ x \in Nearby(dk, i, d, f) /\ x.super = "dirty" /\ x.data = dk.data
                  /\ x.inode = dk.inode /\ x.dir = dk.dir /\ x.map = dk.map
<1> DEFINE x == Flagged(dk, "dirty")
<1>1. dk \in Nearby(dk, i, d, f)
  BY DEF Nearby, Near
<1>2. x \in Disk
  BY FlagWithin
<1>3. x.super = "dirty" /\ x.data = dk.data /\ x.inode = dk.inode /\ x.dir = dk.dir /\ x.map = dk.map
  BY DEF Flagged, Disk
<1> HIDE DEF x
<1>4. x \in Nearby(dk, i, d, f)
  BY <1>2, <1>3 DEF Nearby, Near
<1> QED
  BY <1>1, <1>3, <1>4 DEF x

\* The sector of directory d is written.
SectorPut(dk, x, z, d, f) ==
    /\ z.super = x.super /\ z.inode = x.inode /\ z.dir = x.dir /\ z.map = x.map
    /\ \A k \in Sectors : k \notin Extent(dk, d) => z.data[k] = x.data[k]
    /\ \A t : t.inode[d] = dk.inode[d] => EntriesOf(t, z.data, d) = f

LEMMA PutNear ==
    ASSUME NEW dk \in Disk, Sound(dk), NEW i, NEW d \in Inodes, d # i, NEW f \in [Slots -> Entry],
           NEW x \in Nearby(dk, i, d, f), NEW m, m.inode[d] = dk.inode[d], m.inode[d].len # 0
    PROVE  PutEntries(x, m, d, f) \in Nearby(dk, i, d, f) /\ SectorPut(dk, x, PutEntries(x, m, d, f), d, f)
<1> DEFINE z == PutEntries(x, m, d, f)
<1> DEFINE a == dk.inode[d].start
<1>1. x \in Disk /\ Near(dk, x, i, d, f)
  BY DEF Nearby
<1>2. a \in Extent(dk, d) /\ a \in Sectors
  BY FirstSector, DiskFormed
<1>3. z = [x EXCEPT !.data[a] = DirSector(f)]
  BY DEF PutEntries
<1> HIDE DEF a, z
<1>4. z \in Disk
  BY <1>1, <1>3, SectorsWithin DEF Disk
<1>5. /\ z.super = x.super /\ z.inode = x.inode /\ z.dir = x.dir /\ z.map = x.map
      /\ z.data[a] = DirSector(f) /\ \A k \in Sectors : k # a => z.data[k] = x.data[k]
  BY <1>1, <1>2, <1>3 DEF Disk
<1>6. Near(dk, z, i, d, f)
  <2>1. \A j \in Inodes \ {i} : z.inode[j] = dk.inode[j]
    BY <1>1, <1>5 DEF Near
  <2>2. \A r \in Slots : z.dir[r] = dk.dir[r] \/ (d = Root /\ z.dir[r] = f[r])
    BY <1>1, <1>5 DEF Near
  <2>3. ASSUME NEW j \in Inodes \ {i}, NEW k \in Extent(dk, j)
        PROVE  z.data[k] = dk.data[k] \/ (j = d /\ k = a /\ z.data[k] = DirSector(f))
    <3>1. k \in Sectors
      <4>1. dk.inode[j] \in Inode
        BY DEF Disk
      <4> QED
        BY <2>3, <4>1, VolumeSizes DEF Extent, Inode, Sectors
    <3>2. CASE k = a
      <4>1. j = d
        BY <1>2, <2>3, <3>2 DEF Sound
      <4> QED
        BY <1>5, <3>2, <4>1
    <3>3. CASE k # a
      BY <1>1, <1>5, <2>3, <3>1, <3>3 DEF Near, a
    <3> QED
      BY <3>2, <3>3
  <2> QED
    BY <2>1, <2>2, <2>3 DEF Near, a
<1>7. ASSUME NEW t, t.inode[d] = dk.inode[d] PROVE EntriesOf(t, z.data, d) = f
  <2>1. d # Root
    BY VolumeSizes DEF Root, Inodes
  <2> QED
    BY <1>5, <1>7, <2>1, SectorRead DEF EntriesOf, a
<1> QED
  BY <1>2, <1>4, <1>5, <1>6, <1>7 DEF Nearby, SectorPut, z

\* A file written and entered, and the tables flushed: the command has achieved it.
Remapped(m, dk, i) == m.map = (dk.map \ Extent(dk, i)) \union Extent(m, i)
CleanCopy(y, m) == y.super = "clean" /\ y.inode = m.inode /\ y.dir = m.dir /\ y.map = m.map
Holds(y, a, n, p) == \A k \in a .. a + n - 1 : y.data[k] = TextSector(p)
IsWrite(o, p, m, n) == o.end = m /\ o.path = p /\ o.want = FileOf(p, n) /\ o.kind \in {"write", "open"}

LEMMA FileAchieved ==
    ASSUME NEW dk, NEW p, NEW i, NEW d, NEW s, NEW f, Change(dk, p, i, d, s, f), NEW n \in Nat,
           Entered(dk, EntriesOf(dk, dk.data, d), s, Last(p), i),
           f = EntryPut(EntriesOf(dk, dk.data, d), s, Last(p), i),
           NEW m \in SoundMemory, m.mounted, NEW a \in Nat, IsFile(m, i, a, n),
           Remapped(m, dk, i), NEW y \in Nearby(dk, i, d, f), CleanCopy(y, m),
           EntriesOf(y, y.data, d) = f, Holds(y, a, n, p), NEW o, IsWrite(o, p, m, n), NEW h
    PROVE  Achieved(o, h, y)
<1>a. /\ f = [EntriesOf(dk, dk.data, d) EXCEPT ![s] = [name |-> Last(p), inode |-> i]]
      /\ m.map = (dk.map \ Extent(dk, i)) \union Extent(m, i)
      /\ y.super = "clean" /\ y.inode = m.inode /\ y.dir = m.dir /\ y.map = m.map
      /\ \A k \in a .. a + n - 1 : y.data[k] = TextSector(p)
      /\ o.end = m /\ o.path = p /\ o.want = FileOf(p, n) /\ o.kind \in {"write", "open"}
  BY DEF EntryPut, Remapped, CleanCopy, Holds, IsWrite
<1>1. Sound(m)
  BY DEF SoundMemory
<1>2. Sound(y) /\ Extent(y, i) = Extent(m, i)
  BY <1>a, <1>1, SoundSame DEF Extent
<1>3. d \in Inodes \union {Root} /\ IsDirectory(dk, d)
  BY DEF Change, Directories, IsDirectory
<1> DEFINE e == EntriesOf(dk, dk.data, d)
<1>4. e \in [Slots -> Entry]
  BY <1>3, EntriesFormed, DiskFormed DEF Change
<1>5. y.inode[i] = [type |-> "file", start |-> a, len |-> n, size |-> n]
  BY <1>a DEF IsFile
<1>6. y.map = (dk.map \ Extent(dk, i)) \union Extent(y, i)
  BY <1>a, <1>2
<1>b. f = [e EXCEPT ![s] = [name |-> Last(p), inode |-> i]]
  BY <1>a
<1>c. \A k \in a .. a + n - 1 : y.data[k] = TextSector(p)
  BY <1>a
<1>d. Entered(dk, e, s, Last(p), i)
  OBVIOUS
<1>e. e = EntriesOf(dk, dk.data, d)
  OBVIOUS
<1>f. /\ dk \in Disk /\ Healthy(dk, dk.data) /\ p \in Seq(Names) /\ p # <<>> /\ i \in Inodes
      /\ Walk(dk, dk.data, p) = i \/ ~Used(dk, i)
      /\ d = Walk(dk, dk.data, Front(p)) /\ d # i /\ s \in Slots
  BY DEF Change
<1> HIDE DEF e
<1>7. Healthy(y, y.data) /\ Seen(y, p) = FileOf(p, n)
  BY <1>b, <1>c, <1>d, <1>e, <1>f, <1>2, <1>3, <1>4, <1>5, <1>6, FileEntered
<1> QED
  BY <1>a, <1>7 DEF Achieved, InSync, Matches

LEMMA WriteRootPlans ==
    ASSUME VolumeWithin(Memory), InSync(mem, disk), NEW kind \in {"write", "open"},
           NEW p \in Paths, Len(p) = 1, NEW n \in Nat, WriteRoot(kind, p, n), NEW h
    PROVE  op' = op \/ Planned(op', disk, h)
<1> DEFINE old == Named(mem.dir, p[1])
           s == IF old # {} THEN LeastOf(old) ELSE LeastOf(FreeSlots(mem.dir))
           i == IF old # {} THEN mem.dir[s].inode ELSE LeastOf(FreeInodes(mem))
           entry == [name |-> p[1], inode |-> i]
           m1 == IF old # {} THEN mem ELSE [WithInode(mem, i, "file") EXCEPT !.dir[s] = entry]
           m2 == Freed(m1, i)
           m3 == Allotted(m2, i, n)
           m4 == Filed(m3, i, n)
           text == Fill(disk, m3.inode[i].start, n, TextSector(p))
           flush == FlushTables(EndOf(disk, text), m4, TRUE)
           todo == At(m3, text) \o At(m4, flush)
           f == [mem.dir EXCEPT ![s] = entry]
<1>1. /\ old # {} \/ (FreeSlots(mem.dir) # {} /\ FreeInodes(mem) # {})
      /\ IF HasRoom(m2.map, n)
         THEN op' = Command(kind, p, mem, disk, todo, m4, TRUE, FileOf(p, n))
         ELSE UNCHANGED op
  BY DEF WriteRoot
<1>2. mem \in Memory /\ disk \in Disk
  BY DEF VolumeWithin
<1>3. /\ mem \in SoundMemory /\ Healthy(disk, disk.data) /\ Sound(disk)
      /\ mem.mounted /\ mem.inode = disk.inode /\ mem.dir = disk.dir /\ mem.map = disk.map
      /\ \A j : Extent(mem, j) = Extent(disk, j)
  BY <1>2, SyncFacts
<1>4. p \in Seq(Names) /\ p \in Texts
  BY CommandsAssumption DEF Texts
<1>5. /\ p # <<>> /\ Last(p) = p[1] /\ p[1] \in Names /\ Walk(disk, disk.data, Front(p)) = Root
  BY <1>4, OneName
<1>6. EntriesOf(disk, disk.data, Root) = mem.dir /\ IsDirectory(disk, Root)
  BY <1>3 DEF EntriesOf, IsDirectory
<1>7. /\ s \in Slots /\ i \in Inodes /\ Entered(disk, mem.dir, s, p[1], i)
      /\ (Child(disk, disk.data, Root, p[1]) = i \/ ~Used(disk, i))
      /\ (old = {} <=> ~Used(disk, i))
  <2> DEFINE e == mem.dir
  <2>1. mem.inode = disk.inode /\ e = EntriesOf(disk, disk.data, Root)
    BY <1>3, <1>6
  <2>2. s = SlotFor(e, p[1]) /\ i = InodeFor(mem, e, p[1])
    BY SMTT(30) DEF SlotFor, InodeFor
  <2>3. Takes(mem, e, p[1])
    BY <1>1 DEF Takes
  <2> HIDE DEF s, i, e
  <2>4. /\ s \in Slots /\ i \in Inodes /\ Entered(disk, e, s, p[1], i)
        /\ (Child(disk, disk.data, Root, p[1]) = i \/ ~Used(disk, i))
        /\ (Named(e, p[1]) = {} <=> ~Used(disk, i))
    BY <1>2, <1>3, <1>5, <1>6, <2>1, <2>2, <2>3, EntryChosen
  <2> QED
    BY <2>4 DEF e
<1> HIDE DEF s, i
<1>8. entry \in Entry /\ mem.dir \in [Slots -> Entry]
  BY <1>2, <1>5, <1>7, EntryFormed DEF Memory
<1>9. Reentered(mem.dir, f, s, p[1]) /\ f[s] = entry /\ (Used(disk, i) => f = mem.dir)
  <2>1. f = EntryPut(mem.dir, s, p[1], i)
    BY DEF EntryPut
  <2> HIDE DEF f
  <2> QED
    BY <1>5, <1>7, <1>8, <2>1, EntryMade
<1>10. Root # i
  BY <1>7, VolumeSizes DEF Root, Inodes
<1>11. Change(disk, p, i, Root, s, f)
  <2>1. Walk(disk, disk.data, p) = Child(disk, disk.data, Root, p[1])
    BY <1>4, <1>5, WalkUnfolds
  <2>2. Root \in Directories(disk)
    BY DEF Directories
  <2> HIDE DEF f
  <2>3. Reentered(EntriesOf(disk, disk.data, Root), f, s, Last(p))
    BY <1>5, <1>6, <1>9
  <2> QED
    BY <1>2, <1>3, <1>4, <1>5, <1>7, <1>10, <2>1, <2>2, <2>3 DEF Change
<1>12. /\ m1 \in SoundMemory /\ OthersKept(m1, disk, i) /\ m1.dir = f /\ m1.mounted
       /\ m1.map \ Extent(m1, i) = disk.map \ Extent(disk, i)
  <2>1. CASE old # {}
    <3>1. m1 = mem
      BY <2>1
    <3> HIDE DEF m1, old, f
    <3> QED
      BY <1>3, <1>7, <1>9, <2>1, <3>1 DEF OthersKept
  <2>2. CASE old = {}
    <3> DEFINE c == WithInode(mem, i, "file")
    <3>1. c \in SoundMemory /\ OthersKept(c, mem, i) /\ Extent(c, i) = {}
          /\ c.dir = mem.dir /\ c.map = mem.map /\ c.mounted = mem.mounted
      BY <1>2, <1>3, <1>7, <2>2, FirstTables
    <3>2. TableSet(SoundMemory) /\ c \in Memory
      BY <3>1 DEF TableSet, SoundMemory
    <3>3. m1 = [c EXCEPT !.dir[s] = entry]
      BY <2>2
    <3>4. [c EXCEPT !.dir[s] = entry] \in SoundMemory
      BY <1>3, <1>7, <1>8, <3>2, InodeTaken
    <3> HIDE DEF c, m1
    <3>5. /\ m1.inode = c.inode /\ m1.map = c.map /\ m1.mounted = c.mounted
          /\ m1.dir = [c.dir EXCEPT ![s] = entry]
      BY <3>2, <3>3 DEF Memory
    <3>6. Extent(m1, i) = {} /\ Extent(disk, i) = {}
      BY <1>3, <1>7, <2>2, <3>1, <3>5, FreeEmpty DEF Extent
    <3> QED
      BY <1>3, <3>1, <3>3, <3>4, <3>5, <3>6 DEF OthersKept
  <2> QED
    BY <2>1, <2>2
<1> HIDE DEF old, entry, m1, f, m2, m3, m4
<1>13. CASE ~HasRoom(m2.map, n)
  BY <1>1, <1>13
<1>14. CASE HasRoom(m2.map, n)
  <2>1. FileMade(m1, i, n, m3, m4)
    <3>1. m2 = Freed(m1, i)
      BY DEF m2
    <3>2. m3 = Allotted(m2, i, n)
      BY DEF m3
    <3>3. m4 = Filed(m3, i, n)
      BY DEF m4
    <3> QED
      BY <1>7, <1>12, <1>14, <3>1, <3>2, <3>3, FileTables
  <2>2. PICK a \in 0 .. MaxSector : /\ m3.inode[i].start = a /\ IsFile(m4, i, a, n)
                                    /\ Extent(m4, i) = a .. a + n - 1
    BY <2>1 DEF FileMade
  <2>3. a \in Nat /\ m3 \in Memory /\ m4 \in Memory /\ Sound(m4)
    BY <2>1 DEF FileMade, SoundMemory
  <2>4. OthersKept(m4, disk, i) /\ m4.dir = f /\ m4.mounted
        /\ m4.map = (disk.map \ Extent(disk, i)) \union Extent(m4, i)
    BY <1>12, <2>1 DEF FileMade, OthersKept
  <2>5. \A j \in Inodes \ {i} : Extent(disk, j) \cap (a .. a + n - 1) = {}
    BY <1>7, <2>2, <2>3, <2>4 DEF Sound, OthersKept, Extent
  <2> DEFINE N == Nearby(disk, i, Root, f)
             z == EndOf(disk, text)
  <2>6. disk \in N
    BY <1>2, StartNear
  <2>7. text \in Seq(Marks(disk, i, Root, f, disk.super)) /\ z \in N /\ FilledWith(disk, z, a, n, TextSector(p))
    <3>1. text = Fill(disk, a, n, TextSector(p))
      BY <2>2
    <3>2. TextSector(p) \in Sector
      BY <1>4, SectorsWithin
    <3> HIDE DEF text
    <3> QED
      BY <1>2, <2>3, <2>5, <2>6, <3>1, <3>2, FillNear
  <2> HIDE DEF text, z
  <2>8. PICK y \in N : FlushedTo(z, y, m4, TRUE) /\ flush \in Seq(Marking(disk, i, Root, f, z.super, y))
    <3>1. TablesNear(m4, disk, i, Root, f)
      BY <2>4 DEF OthersKept, TablesNear
    <3>2. flush = FlushTables(z, m4, TRUE)
      BY DEF z
    <3> HIDE DEF flush
    <3> QED
      BY <1>2, <2>3, <2>7, <3>1, <3>2, FlushNear
  <2>flush. \A v : EndOf(v, flush) = y
    BY <2>8 DEF FlushedTo, z
  <2> HIDE DEF flush
  <2>9. todo \in Ahead(N) /\ EndAt(disk, todo) = y
    <3>1. text \in Seq(N) /\ flush \in Seq(N)
      <4>1. Marking(disk, i, Root, f, z.super, y) \subseteq N /\ Marks(disk, i, Root, f, disk.super) \subseteq N
        BY DEF Marking, Marks
      <4> HIDE DEF N
      <4> QED
        BY <2>7, <2>8, <4>1, MoreDisks
    <3> HIDE DEF N
    <3>2. At(m3, text) \in Ahead(N) /\ At(m4, flush) \in Ahead(N)
          /\ EndAt(EndAt(disk, At(m3, text)), At(m4, flush)) = y
      BY <2>3, <2>flush, <3>1, AtAhead
    <3> QED
      BY <3>2, AheadJoined
  <2> HIDE DEF todo, N
  <2> DEFINE o == op'
             want == FileOf(p, n)
  <2>10. o = Command(kind, p, mem, disk, todo, m4, TRUE, want)
    BY <1>1, <1>14
  <2> HIDE DEF o, want
  <2>11. o.kind = kind /\ o.path = p /\ o.todo = todo /\ o.end = m4 /\ o.want = want
    BY <2>10 DEF Command
  <2>12. Achieved(o, h, y)
    <3>1. f = EntryPut(EntriesOf(disk, disk.data, Root), s, Last(p), i)
      BY <1>5, <1>6 DEF f, entry, EntryPut
    <3>2. CleanCopy(y, m4)
      BY <2>8 DEF Carries, FlushedTo, CleanCopy
    <3>3. EntriesOf(y, y.data, Root) = f
      BY <2>4, <3>2 DEF EntriesOf, CleanCopy
    <3>4. Holds(y, a, n, p)
      <4>1. a .. a + n - 1 \subseteq Sectors
        <5>1. m4.map \in SUBSET Sectors
          BY <2>3 DEF Memory
        <5> QED
          BY <1>7, <2>2, <2>3, <5>1 DEF Sound
      <4> QED
        BY <2>7, <2>8, <4>1 DEF FilledWith, FlushedTo, Holds
    <3>5. y \in Nearby(disk, i, Root, f) /\ Remapped(m4, disk, i)
      BY <2>4, <2>8 DEF N, Remapped
    <3>6. Entered(disk, EntriesOf(disk, disk.data, Root), s, Last(p), i)
      BY <1>5, <1>6, <1>7
    <3>7. IsWrite(o, p, m4, n)
      BY <2>11 DEF want, IsWrite
    <3>8. m4 \in SoundMemory /\ m4.mounted /\ IsFile(m4, i, a, n)
      BY <2>1, <2>2, <2>4 DEF FileMade
    <3> QED
      BY <1>11, <3>1, <3>2, <3>3, <3>4, <3>5, <3>6, <3>7, <3>8, FileAchieved
  <2>13. ~Marked(o) /\ o.kind \in PathKinds
    <3>1. o.kind \in {"write", "open"} /\ Len(o.path) = 1
      BY <2>11
    <3>2. ~(1 > 1)
      OBVIOUS
    <3> QED
      BY <3>1, <3>2 DEF Marked, PathKinds
  <2>14. N \subseteq Nearby(disk, i, Root, f)
    BY DEF N
  <2>15. Planned(o, disk, h)
    BY <1>11, <2>9, <2>11, <2>12, <2>13, <2>14, PathPlanned
  <2> QED
    BY <2>15 DEF o
<1> QED
  BY <1>13, <1>14

\* The sectors of a directory and those of a file are not the same.
LEMMA FileApart ==
    ASSUME NEW m, Sound(m), NEW i \in Inodes, NEW d \in Inodes, d # i,
           NEW dk, m.inode[d] = dk.inode[d]
    PROVE  Extent(m, i) \cap Extent(dk, d) = {}
BY DEF Sound, Extent

LEMMA WriteBelowPlans ==
    ASSUME VolumeWithin(Memory), InSync(mem, disk), NEW kind \in {"write", "open"},
           NEW p \in Paths, Len(p) > 1, NEW n \in Nat, WriteBelow(kind, p, n), NEW h
    PROVE  Planned(op', disk, h)
<1> DEFINE d == ParentOf(mem, disk.data, p)
           e == EntriesOf(mem, disk.data, d)
           old == Named(e, Last(p))
           s == IF old # {} THEN LeastOf(old) ELSE LeastOf(FreeSlots(e))
           i == IF old # {} THEN e[s].inode ELSE LeastOf(FreeInodes(mem))
           m1 == IF old # {} THEN mem ELSE WithInode(mem, i, "file")
           m2 == Freed(m1, i)
           m3 == Allotted(m2, i, n)
           m4 == Filed(m3, i, n)
           d1 == Flagged(disk, "dirty")
           text == Fill(d1, m3.inode[i].start, n, TextSector(p))
           d2 == EndOf(d1, text)
           f == [e EXCEPT ![s] = [name |-> Last(p), inode |-> i]]
           d3 == PutEntries(d2, m4, d, f)
           flush == FlushTables(d3, m4, FALSE)
           t1 == At(m1, <<d1>>)
           t2 == t1 \o At(m3, text)
           t3 == t2 \o At(m4, <<d3>> \o flush)
<1>1. /\ d # Absent
      /\ Takes(mem, e, Last(p))
      /\ ~HasRoom(m2.map, n) => op' = Command(kind, p, mem, disk, t1, m2, FALSE, Nothing)
      /\ HasRoom(m2.map, n) /\ ~CanFlushSubdir(m4, d) => op' = Command(kind, p, mem, disk, t2, m4, FALSE, Nothing)
      /\ HasRoom(m2.map, n) /\ CanFlushSubdir(m4, d) => op' = Command(kind, p, mem, disk, t3, m4, TRUE, FileOf(p, n))
  BY DEF WriteBelow, Takes
<1>2. mem \in Memory /\ disk \in Disk
  BY DEF VolumeWithin
<1>3. /\ mem \in SoundMemory /\ Healthy(disk, disk.data) /\ Sound(disk)
      /\ mem.mounted /\ mem.inode = disk.inode /\ mem.dir = disk.dir /\ mem.map = disk.map
      /\ \A j : Extent(mem, j) = Extent(disk, j)
  BY <1>2, SyncFacts
<1>4. p \in Seq(Names) /\ p \in Texts /\ p # <<>>
  BY CommandsAssumption DEF Texts
<1>5. Last(p) \in Names
  BY <1>4, Fronts
<1>6. d = ParentOf(disk, disk.data, p) /\ e = EntriesOf(disk, disk.data, d)
  BY <1>3, <1>4, SameTables
<1>7. s = SlotFor(e, Last(p)) /\ i = InodeFor(mem, e, Last(p))
  BY DEF SlotFor, InodeFor
<1> HIDE DEF d, e, s, i
<1>8. d = Walk(disk, disk.data, Front(p)) /\ IsDirectory(disk, d)
  BY <1>1, <1>6, SMTT(30) DEF ParentOf
<1>9. /\ s \in Slots /\ i \in Inodes /\ Entered(disk, e, s, Last(p), i)
      /\ (Child(disk, disk.data, d, Last(p)) = i \/ ~Used(disk, i))
      /\ (Named(e, Last(p)) = {} <=> ~Used(disk, i))
  BY <1>1, <1>2, <1>3, <1>5, <1>6, <1>7, <1>8, EntryChosen
<1>10. Walk(disk, disk.data, p) = i \/ ~Used(disk, i)
  BY <1>4, <1>8, <1>9, WalkUnfolds
<1>11. d \in Directories(disk) /\ d # i /\ d \in Inodes \union {Root}
  BY <1>1, <1>2, <1>3, <1>4, <1>6, <1>9, <1>10, ParentFound
<1>12. e \in [Slots -> Entry]
  BY <1>2, <1>6, <1>11, DiskFormed, EntriesFormed
<1>13. f \in [Slots -> Entry] /\ Reentered(e, f, s, Last(p)) /\ f = EntryPut(e, s, Last(p), i)
       /\ (d = Root /\ Used(disk, i) => f = e)
  <2>2. f = EntryPut(e, s, Last(p), i)
    BY DEF EntryPut
  <2> HIDE DEF f
  <2>1. Reentered(e, f, s, Last(p)) /\ (Used(disk, i) => f = e)
    BY <1>5, <1>9, <1>12, <2>2, EntryMade
  <2> QED
    BY <2>1, <2>2 DEF Reentered
<1> HIDE DEF f
<1>14. Change(disk, p, i, d, s, f)
  BY <1>2, <1>3, <1>4, <1>6, <1>8, <1>9, <1>10, <1>11, <1>13 DEF Change
<1>15. /\ m1 \in SoundMemory /\ OthersKept(m1, disk, i) /\ m1.dir = disk.dir /\ m1.mounted
       /\ m1.map \ Extent(m1, i) = disk.map \ Extent(disk, i)
  <2>1. CASE old # {}
    <3>1. m1 = mem
      BY <2>1
    <3> HIDE DEF m1, old
    <3> QED
      BY <1>3, <3>1 DEF OthersKept
  <2>2. CASE old = {}
    <3>1. m1 = WithInode(mem, i, "file") /\ ~Used(disk, i)
      BY <1>9, <2>2
    <3> HIDE DEF m1, old
    <3>2. m1 \in SoundMemory /\ OthersKept(m1, mem, i) /\ Extent(m1, i) = {}
          /\ m1.dir = mem.dir /\ m1.map = mem.map /\ m1.mounted = mem.mounted
      BY <1>2, <1>3, <1>9, <3>1, FirstTables
    <3>3. Extent(disk, i) = {}
      BY <1>3, <1>9, <3>1, FreeEmpty
    <3> QED
      BY <1>3, <3>2, <3>3 DEF OthersKept
  <2> QED
    BY <2>1, <2>2
<1>16. m2 = Freed(m1, i)
  OBVIOUS
<1>17. m3 = Allotted(m2, i, n) /\ m4 = Filed(m3, i, n)
  OBVIOUS
<1> HIDE DEF old, m1, m2, m3, m4
<1> DEFINE N == Marks(disk, i, d, f, "dirty")
<1>18. d1 \in Nearby(disk, i, d, f) /\ d1.super = "dirty" /\ d1.data = disk.data
       /\ d1.inode = disk.inode /\ d1.dir = disk.dir /\ d1.map = disk.map
  BY <1>2, StartNear
<1>19. d1 \in N
  BY <1>18 DEF Marks
<1> HIDE DEF d1
<1>20. m1 \in Memory /\ t1 \in Ahead(N)
  <2>1. m1 \in Memory /\ <<d1>> \in Seq(N)
    BY <1>15, <1>19 DEF SoundMemory
  <2> HIDE DEF N
  <2> QED
    BY <2>1, AtAhead
<1>21. N \subseteq Nearby(disk, i, d, f) /\ \A x \in N : Tidy(x)
  BY DEF Marks, Tidy
<1> DEFINE o == op'
<1>22. CASE ~HasRoom(m2.map, n)
  <2>1. o = Command(kind, p, mem, disk, t1, m2, FALSE, Nothing)
    BY <1>1, <1>22
  <2> HIDE DEF o, t1, N
  <2>2. o.todo = t1 /\ o.kind \in PathKinds /\ o.path = p /\ ~o.ok
    BY <2>1 DEF Command, PathKinds
  <2>3. Planned(o, disk, h)
    BY <1>14, <1>20, <1>21, <2>2, PathPlanned
  <2> QED
    BY <2>3 DEF o
<1>23. CASE HasRoom(m2.map, n)
  <2>1. FileMade(m1, i, n, m3, m4)
    BY <1>9, <1>15, <1>16, <1>17, <1>23, FileTables
  <2>2. PICK a \in 0 .. MaxSector : /\ m3.inode[i].start = a /\ IsFile(m4, i, a, n)
                                    /\ Extent(m4, i) = a .. a + n - 1
    BY <2>1 DEF FileMade
  <2>3. a \in Nat /\ m3 \in Memory /\ m4 \in Memory /\ m4 \in SoundMemory /\ Sound(m4)
    BY <2>1 DEF FileMade, SoundMemory
  <2>4. OthersKept(m4, disk, i) /\ m4.dir = disk.dir /\ m4.mounted /\ Remapped(m4, disk, i)
    BY <1>15, <2>1 DEF FileMade, OthersKept, Remapped
  <2>5. \A j \in Inodes \ {i} : Extent(disk, j) \cap (a .. a + n - 1) = {}
    BY <1>9, <2>2, <2>3, <2>4 DEF Sound, OthersKept, Extent
  <2>6. text \in Seq(N) /\ d2 \in N /\ FilledWith(d1, d2, a, n, TextSector(p))
    <3>1. text = Fill(d1, a, n, TextSector(p)) /\ d2 = EndOf(d1, text)
      BY <2>2
    <3>2. TextSector(p) \in Sector
      BY <1>4, SectorsWithin
    <3> HIDE DEF text, d2
    <3>3. text \in Seq(Marks(disk, i, d, f, d1.super)) /\ d2 \in Nearby(disk, i, d, f)
          /\ FilledWith(d1, d2, a, n, TextSector(p))
      BY <1>2, <1>18, <2>3, <2>5, <3>1, <3>2, FillNear
    <3> QED
      BY <1>18, <3>3 DEF FilledWith, Marks
  <2> HIDE DEF text, d2
  <2>7. t2 \in Ahead(N)
    <3> HIDE DEF N, t1
    <3> QED
      BY <1>20, <2>3, <2>6, AtAhead, AheadJoined
  <2> HIDE DEF t1, t2
  <2>8. CASE ~CanFlushSubdir(m4, d)
    <3>1. o = Command(kind, p, mem, disk, t2, m4, FALSE, Nothing)
      BY <1>1, <1>23, <2>8
    <3> HIDE DEF o, N
    <3>2. o.todo = t2 /\ o.kind \in PathKinds /\ o.path = p /\ ~o.ok
      BY <3>1 DEF Command, PathKinds
    <3>3. Planned(o, disk, h)
      BY <1>14, <1>21, <2>7, <3>2, PathPlanned
    <3> QED
      BY <3>3 DEF o
  <2>9. CASE CanFlushSubdir(m4, d)
    <3>1. d \in Inodes /\ m4.inode[d].len # 0 /\ m4.inode[d] = disk.inode[d]
      BY <1>11, <2>4, <2>9 DEF CanFlushSubdir, OthersKept
    <3>2. d2 \in Nearby(disk, i, d, f) /\ d2.super = "dirty"
      BY <2>6 DEF Marks
    <3>a. d3 = PutEntries(d2, m4, d, f)
      OBVIOUS
    <3> HIDE DEF d3
    <3>b. d3 \in Nearby(disk, i, d, f) /\ SectorPut(disk, d2, d3, d, f)
      BY <1>2, <1>3, <1>11, <1>13, <3>a, <3>1, <3>2, PutNear
    <3>3. /\ d3 \in Nearby(disk, i, d, f)
          /\ d3.super = d2.super /\ d3.inode = d2.inode /\ d3.dir = d2.dir /\ d3.map = d2.map
          /\ \A k \in Sectors : k \notin Extent(disk, d) => d3.data[k] = d2.data[k]
          /\ \A t : t.inode[d] = disk.inode[d] => EntriesOf(t, d3.data, d) = f
      BY <3>b DEF SectorPut
    <3>4. d3 \in N
      BY <3>2, <3>3 DEF Marks
    <3>5. PICK y \in Nearby(disk, i, d, f) :
             FlushedTo(d3, y, m4, FALSE) /\ flush \in Seq(Marking(disk, i, d, f, d3.super, y))
      <4>1. TablesNear(m4, disk, i, d, f)
        BY <2>4 DEF OthersKept, TablesNear
      <4>2. flush = FlushTables(d3, m4, FALSE) /\ FALSE \in BOOLEAN
        OBVIOUS
      <4> HIDE DEF flush
      <4> QED
        BY <1>2, <2>3, <3>3, <4>1, <4>2, FlushNear
    <3> DEFINE S == Marking(disk, i, d, f, "dirty", y)
    <3>6. flush \in Seq(S) /\ \A v : EndOf(v, flush) = y
      BY <3>2, <3>3, <3>5 DEF FlushedTo
    <3> HIDE DEF flush
    <3>7. N \subseteq S /\ S \subseteq Nearby(disk, i, d, f) /\ y \in S /\ d3 \in S
      BY <3>4, <3>5 DEF Marking, Marks
    <3>8. t3 \in Ahead(S) /\ EndAt(disk, t3) = y
      <4> HIDE DEF S, N
      <4>1. t2 \in Ahead(S)
        BY <2>7, <3>7, MoreDisks
      <4>2. <<d3>> \in Seq(S)
        BY <3>7
      <4>3. <<d3>> \o flush \in Seq(S) /\ EndOf(EndAt(disk, t2), <<d3>> \o flush) = y
        <5> DEFINE u == <<d3>>
                   w == u \o flush
        <5>1. w \in Seq(S) /\ EndOf(d3, w) = EndOf(EndOf(d3, u), flush)
          <6>1. u \in Seq(S)
            BY <4>2
          <6> HIDE DEF u
          <6> QED
            BY <3>6, <3>7, <6>1, EndJoined
        <5>2. w # <<>>
          BY <3>6, <4>2, ConcatProperties
        <5> HIDE DEF w
        <5>3. EndOf(d3, w) = y
          BY <3>6, <5>1
        <5>4. EndOf(EndAt(disk, t2), w) = EndOf(d3, w)
          BY <5>2 DEF EndOf
        <5> QED
          BY <5>1, <5>3, <5>4 DEF w
      <4>4. At(m4, <<d3>> \o flush) \in Ahead(S) /\ EndAt(EndAt(disk, t2), At(m4, <<d3>> \o flush)) = y
        BY <2>3, <4>3, AtAhead
      <4> QED
        BY <4>1, <4>4, AheadJoined
    <3> HIDE DEF t3
    <3>9. o = Command(kind, p, mem, disk, t3, m4, TRUE, FileOf(p, n))
      BY <1>1, <1>23, <2>9
    <3> HIDE DEF o, N, S
    <3>10. o.todo = t3 /\ o.kind \in PathKinds /\ o.path = p /\ IsWrite(o, p, m4, n)
      BY <3>9 DEF Command, PathKinds, IsWrite
    <3>11. Achieved(o, h, y)
      <4>1. f = EntryPut(EntriesOf(disk, disk.data, d), s, Last(p), i)
            /\ Entered(disk, EntriesOf(disk, disk.data, d), s, Last(p), i)
        BY <1>6, <1>9, <1>13
      <4>2. CleanCopy(y, m4)
        <5>1. d3.dir = m4.dir
          BY <1>18, <2>4, <2>6, <3>3 DEF FilledWith
        <5> QED
          BY <3>5, <5>1 DEF Carries, FlushedTo, CleanCopy
      <4>3. EntriesOf(y, y.data, d) = f
        BY <3>1, <3>3, <3>5, <4>2 DEF CleanCopy, FlushedTo
      <4>4. Holds(y, a, n, p)
        <5>1. a .. a + n - 1 \subseteq Sectors
          <6>1. m4.map \in SUBSET Sectors
            BY <2>3 DEF Memory
          <6> QED
            BY <1>9, <2>2, <2>3, <6>1 DEF Sound
        <5>2. Extent(m4, i) \cap Extent(disk, d) = {}
          BY <1>9, <1>11, <2>3, <3>1, FileApart
        <5>3. \A k \in a .. a + n - 1 : k \in Sectors /\ k \notin Extent(disk, d)
          BY <2>2, <5>1, <5>2
        <5> QED
          BY <2>6, <3>3, <3>5, <5>3 DEF FilledWith, FlushedTo, Holds
      <4>5. m4 \in SoundMemory /\ m4.mounted /\ IsFile(m4, i, a, n) /\ Remapped(m4, disk, i)
        BY <2>2, <2>3, <2>4
      <4> QED
        BY <1>14, <2>3, <3>5, <3>10, <4>1, <4>2, <4>3, <4>4, <4>5, FileAchieved
    <3>12. \A x \in S : Tidy(x)
      <4>1. Tidy(y)
        BY <3>11 DEF Achieved, InSync, Healthy, Tidy
      <4> QED
        BY <1>21, <4>1 DEF S, N, Marking
    <3>13. Planned(o, disk, h)
      BY <1>14, <3>7, <3>8, <3>10, <3>11, <3>12, PathPlanned
    <3> QED
      BY <3>13 DEF o
  <2> QED
    BY <2>8, <2>9
<1> QED
  BY <1>22, <1>23, SMTT(30)

-----------------------------------------------------------------------------
(* Making and removing directories, removing files.                        *)

\* How these commands end: directory d gets entries f, and tables m are flushed.
EntryFlush(z, m, d, f) ==
    IF d = Root THEN At(m, FlushTables(z, m, TRUE))
    ELSE IF CanFlushSubdir(m, d) THEN At(m, <<PutEntries(z, m, d, f)>> \o FlushTables(PutEntries(z, m, d, f), m, FALSE))
    ELSE <<>>

\* Disk y holds tables m, directory d of disk dk as f, and the other sectors of z.
EndsWith(dk, z, y, m, d, f) ==
    /\ CleanCopy(y, m)
    /\ EntriesOf(y, y.data, d) = f
    /\ \A k \in Sectors : (d # Root => k \notin Extent(dk, d)) => y.data[k] = z.data[k]

Flushing(dk, z, y, m, i, d, f) ==
    /\ y \in Nearby(dk, i, d, f) /\ EndsWith(dk, z, y, m, d, f)
    /\ EntryFlush(z, m, d, f) \in Ahead(Marking(dk, i, d, f, "dirty", y))
    /\ \A v : EndAt(v, EntryFlush(z, m, d, f)) = y

LEMMA OneFirst ==
    ASSUME NEW S, NEW x \in S, NEW b \in Seq(S), NEW y, \A v : EndOf(v, b) = y
    PROVE  <<x>> \o b \in Seq(S) /\ \A v : EndOf(v, <<x>> \o b) = y
<1> DEFINE a == <<x>>
           w == a \o b
<1>1. a \in Seq(S) /\ Len(a) = 1
  OBVIOUS
<1> HIDE DEF a
<1>2. w \in Seq(S) /\ EndOf(x, w) = EndOf(EndOf(x, a), b)
  BY <1>1, EndJoined
<1>3. w # <<>>
  BY <1>1, ConcatProperties
<1> HIDE DEF w
<1>4. EndOf(x, w) = y
  BY <1>2
<1>5. \A v : EndOf(v, w) = EndOf(x, w)
  BY <1>3 DEF EndOf
<1> QED
  BY <1>2, <1>4, <1>5 DEF w, a

LEMMA EntryFlushed ==
    ASSUME NEW dk, NEW p, NEW i, NEW d, NEW s, NEW f, Change(dk, p, i, d, s, f), Sound(dk),
           NEW z \in Marks(dk, i, d, f, "dirty"), z.dir = dk.dir,
           NEW m \in Memory, OthersKept(m, dk, i), m.dir = (IF d = Root THEN f ELSE dk.dir)
    PROVE  IF d = Root \/ CanFlushSubdir(m, d) THEN \E y : Flushing(dk, z, y, m, i, d, f)
           ELSE EntryFlush(z, m, d, f) = <<>>
<1>1. z \in Nearby(dk, i, d, f) /\ z.super = "dirty"
  BY DEF Marks
<1>2. dk \in Disk /\ d # i /\ f \in [Slots -> Entry]
  BY DEF Change, Reentered
<1>3. TablesNear(m, dk, i, d, f)
  BY DEF TablesNear, OthersKept
<1>4. CASE d = Root
  <2>1. TRUE \in BOOLEAN
    OBVIOUS
  <2> DEFINE root == TRUE
  <2> HIDE DEF root
  <2>2. PICK y \in Nearby(dk, i, d, f) :
           FlushedTo(z, y, m, root) /\ FlushTables(z, m, root) \in Seq(Marking(dk, i, d, f, z.super, y))
    <3>1. root \in BOOLEAN
      BY DEF root
    <3> QED
      BY <1>1, <1>2, <1>3, <3>1, FlushNear
  <2> DEFINE w == FlushTables(z, m, root)
             S == Marking(dk, i, d, f, "dirty", y)
  <2>3. w \in Seq(S) /\ (\A v : EndOf(v, w) = y) /\ EntryFlush(z, m, d, f) = At(m, w)
    BY <1>1, <1>4, <2>2 DEF FlushedTo, EntryFlush, root
  <2> HIDE DEF w, S
  <2>4. At(m, w) \in Ahead(S) /\ \A v : EndAt(v, At(m, w)) = y
    BY <2>3, AtAhead
  <2>5. EndsWith(dk, z, y, m, d, f)
    BY <1>4, <2>2 DEF EndsWith, CleanCopy, FlushedTo, Carries, EntriesOf, root
  <2>6. Flushing(dk, z, y, m, i, d, f)
    BY <2>2, <2>3, <2>4, <2>5 DEF Flushing, S
  <2> QED
    BY <1>4, <2>6
<1>5. CASE d # Root /\ CanFlushSubdir(m, d)
  <2> DEFINE x == PutEntries(z, m, d, f)
             root == FALSE
  <2>1. d \in Inodes /\ m.inode[d] = dk.inode[d] /\ m.inode[d].len # 0
    BY <1>2, <1>5 DEF CanFlushSubdir, OthersKept
  <2>2. x \in Nearby(dk, i, d, f) /\ SectorPut(dk, z, x, d, f)
    BY <1>1, <1>2, <2>1, PutNear
  <2>3. root \in BOOLEAN
    OBVIOUS
  <2>a. EntryFlush(z, m, d, f) = At(m, <<x>> \o FlushTables(x, m, root))
    BY <1>5 DEF EntryFlush
  <2> HIDE DEF x, root
  <2>4. PICK y \in Nearby(dk, i, d, f) :
           FlushedTo(x, y, m, root) /\ FlushTables(x, m, root) \in Seq(Marking(dk, i, d, f, x.super, y))
    BY <1>1, <1>2, <1>3, <2>2, <2>3, FlushNear
  <2> DEFINE u == FlushTables(x, m, root)
             w == <<x>> \o u
             S == Marking(dk, i, d, f, "dirty", y)
  <2>5. u \in Seq(S) /\ (\A v : EndOf(v, u) = y) /\ x \in S
    BY <1>1, <2>2, <2>4 DEF FlushedTo, SectorPut, Marking, Marks
  <2> HIDE DEF u, S
  <2>6. w \in Seq(S) /\ \A v : EndOf(v, w) = y
    BY <2>5, OneFirst
  <2>b. EntryFlush(z, m, d, f) = At(m, w)
    BY <2>a DEF u
  <2> HIDE DEF w
  <2>7. At(m, w) \in Ahead(S) /\ \A v : EndAt(v, At(m, w)) = y
    BY <2>6, AtAhead
  <2>8. EndsWith(dk, z, y, m, d, f)
    <3>1. CleanCopy(y, m)
      BY <1>5, <2>2, <2>4 DEF FlushedTo, Carries, SectorPut, CleanCopy, root
    <3>2. EntriesOf(y, y.data, d) = f
      BY <2>1, <2>2, <2>4, <3>1 DEF SectorPut, FlushedTo, CleanCopy
    <3> QED
      BY <1>5, <2>2, <2>4, <3>1, <3>2 DEF EndsWith, SectorPut, FlushedTo
  <2>9. Flushing(dk, z, y, m, i, d, f)
    BY <2>4, <2>b, <2>7, <2>8 DEF Flushing, S
  <2> QED
    BY <1>5, <2>9
<1>6. CASE d # Root /\ ~CanFlushSubdir(m, d)
  BY <1>6 DEF EntryFlush
<1> QED
  BY <1>4, <1>5, <1>6

\* A command that begins with dirty disks and ends that way is planned.
DirAfter(m, dk, d, f) == m.dir = IF d = Root THEN f ELSE dk.dir
IsEntryCommand(o, p, begin, z, m, d, f) ==
    /\ o.todo = begin \o EntryFlush(z, m, d, f) /\ o.kind \in PathKinds /\ o.path = p
    /\ o.ok <=> (d = Root \/ CanFlushSubdir(m, d))
EndAchieves(o, h, dk, z, m, i, d, f) ==
    \A y \in Nearby(dk, i, d, f) : EndsWith(dk, z, y, m, d, f) => Achieved(o, h, y)

LEMMA EntryPlanned ==
    ASSUME NEW dk, NEW p, NEW i, NEW d, NEW s, NEW f, Change(dk, p, i, d, s, f), Sound(dk),
           NEW z \in Marks(dk, i, d, f, "dirty"), z.dir = dk.dir,
           NEW m \in Memory, OthersKept(m, dk, i), DirAfter(m, dk, d, f),
           NEW begin \in Ahead(Marks(dk, i, d, f, "dirty")),
           NEW o, IsEntryCommand(o, p, begin, z, m, d, f), NEW h, EndAchieves(o, h, dk, z, m, i, d, f)
    PROVE  Planned(o, dk, h)
<1>a. /\ o.todo = begin \o EntryFlush(z, m, d, f) /\ o.kind \in PathKinds /\ o.path = p
      /\ o.ok <=> (d = Root \/ CanFlushSubdir(m, d))
      /\ m.dir = IF d = Root THEN f ELSE dk.dir
  BY DEF IsEntryCommand, DirAfter
<1>b. \A y \in Nearby(dk, i, d, f) : EndsWith(dk, z, y, m, d, f) => Achieved(o, h, y)
  BY DEF EndAchieves
<1> DEFINE N == Marks(dk, i, d, f, "dirty")
           rest == EntryFlush(z, m, d, f)
           todo == begin \o rest
<1>1. N \subseteq Nearby(dk, i, d, f) /\ \A x \in N : Tidy(x)
  BY DEF Marks, Tidy
<1>2. o.todo = todo
  BY <1>a
<1>3. CASE d = Root \/ CanFlushSubdir(m, d)
  <2>1. PICK y : Flushing(dk, z, y, m, i, d, f)
    BY <1>a, <1>3, EntryFlushed
  <2> DEFINE S == Marking(dk, i, d, f, "dirty", y)
  <2>2. N \subseteq S /\ S \subseteq Nearby(dk, i, d, f)
    BY <2>1 DEF Marking, Marks, Flushing
  <2>3. rest \in Ahead(S) /\ \A v : EndAt(v, rest) = y
    BY <2>1 DEF Flushing
  <2>4. Achieved(o, h, y)
    BY <1>b, <2>1 DEF Flushing
  <2>5. \A x \in S : Tidy(x)
    BY <1>1, <2>4 DEF Marking, Achieved, InSync, Healthy, Tidy
  <2> HIDE DEF N, S, rest
  <2>6. begin \in Ahead(S)
    BY <2>2, MoreDisks DEF N
  <2>7. todo \in Ahead(S) /\ EndAt(dk, todo) = y
    BY <2>3, <2>6, AheadJoined
  <2> HIDE DEF todo
  <2> QED
    BY <1>a, <1>2, <2>2, <2>4, <2>5, <2>7, PathPlanned
<1>4. CASE ~(d = Root \/ CanFlushSubdir(m, d))
  <2>1. rest = <<>>
    BY <1>a, <1>4, EntryFlushed
  <2> HIDE DEF rest
  <2>2. todo = begin
    BY <2>1 DEF Ahead
  <2>3. todo \in Ahead(N)
    BY <2>2
  <2>4. ~o.ok
    BY <1>a, <1>4
  <2> HIDE DEF todo, N
  <2> QED
    BY <1>a, <1>1, <1>2, <2>3, <2>4, PathPlanned
<1> QED
  BY <1>3, <1>4

\* Inode i is a directory of one sector, k.
DirInode(k) == [type |-> "dir", start |-> k, len |-> 1, size |-> 1]
TakesSector(m, dk, i, k) ==
    k \notin dk.map /\ m.mounted /\ m.inode[i] = DirInode(k) /\ m.map = dk.map \union {k}

\* The directory is there and empty once its entry and the tables are on the disk.
LEMMA DirectoryMade ==
    ASSUME NEW dk, NEW p, NEW i, NEW d, NEW s, NEW f, Change(dk, p, i, d, s, f), Sound(dk), ~Used(dk, i),
           Named(EntriesOf(dk, dk.data, d), Last(p)) = {},
           f = EntryPut(EntriesOf(dk, dk.data, d), s, Last(p), i),
           NEW k \in Sectors, NEW m \in SoundMemory, TakesSector(m, dk, i, k),
           NEW z, z.data[k] = Zeroed, NEW y \in Nearby(dk, i, d, f), EndsWith(dk, z, y, m, d, f)
    PROVE  InSync(m, y) /\ y.super = "clean" /\ Seen(y, p) = EmptyDirectory
<1>1. /\ dk \in Disk /\ Healthy(dk, dk.data) /\ p \in Seq(Names) /\ p # <<>> /\ i \in Inodes /\ s \in Slots
      /\ d = Walk(dk, dk.data, Front(p)) /\ d \in Directories(dk) /\ d # i
      /\ Reentered(EntriesOf(dk, dk.data, d), f, s, Last(p))
  BY DEF Change
<1>2. CleanCopy(y, m) /\ EntriesOf(y, y.data, d) = f /\ y \in Disk
  BY DEF EndsWith, Nearby
<1>3. m \in Memory /\ Sound(m)
  BY DEF SoundMemory
<1>4. y.inode = m.inode /\ y.map = m.map /\ y.dir = m.dir /\ y.super = "clean"
  BY <1>2 DEF CleanCopy
<1>b. k \notin dk.map /\ m.mounted /\ m.inode[i] = DirInode(k) /\ m.map = dk.map \union {k}
  BY DEF TakesSector
<1>5. Sound(y)
  BY <1>3, <1>4, SoundSame
<1>6. y.inode[i].type = "dir" /\ y.inode[i].start = k /\ y.inode[i].len = 1
  BY <1>4, <1>b DEF DirInode
<1>7. Extent(y, i) = {k} /\ Extent(dk, i) = {}
  <2>1. k .. k + 1 - 1 = {k}
    BY VolumeSizes DEF Sectors
  <2>2. Extent(dk, i) = {}
    BY <1>1, FreeEmpty
  <2> QED
    BY <1>6, <2>1, <2>2 DEF Extent
<1>8. y.data[k] = Zeroed
  <2>1. d # Root => k \notin Extent(dk, d)
    BY <1>1, <1>b, SMTT(30) DEF Sound, Directories
  <2> QED
    BY <2>1 DEF EndsWith
<1>9. EntriesOf(y, y.data, i) = NoEntries
  <2>1. i # Root
    BY <1>1, VolumeSizes DEF Root, Inodes
  <2> QED
    <3>1. Zeroed.entries = NoEntries
      BY DEF Zeroed
    <3> QED
      BY <1>6, <1>8, <2>1, <3>1 DEF EntriesOf
<1>10. Used(y, i)
  BY <1>1, <1>6 DEF Used
<1>11. Last(p) \in Names /\ Front(p) \in Apart(p)
  BY <1>1, Fronts, ApartClosed
<1>12. f[s] = [name |-> Last(p), inode |-> i]
  BY <1>1 DEF EntryPut, Reentered
<1>13. y.map = (dk.map \ Extent(dk, i)) \union Extent(y, i)
  BY <1>4, <1>7, <1>b
<1>14. Healthy(y, y.data)
  BY <1>1, <1>2, <1>5, <1>9, <1>10, <1>11, <1>12, <1>13, StillHealthy
<1>15. Walk(y, y.data, Front(p)) = Walk(dk, dk.data, Front(p))
  BY <1>11, NearbyAlike DEF Same
<1>16. d \in Directories(y)
  BY <1>1 DEF Directories, Nearby, Near
<1>17. Lookup(y, y.data, p) = i
  <2>1. f[s].name = Last(p) /\ f[s].inode = i
    BY <1>12
  <2> QED
    BY <1>1, <1>2, <1>10, <1>14, <1>15, <1>16, <2>1, PathReads
<1>18. Seen(y, p) = EmptyDirectory
  <2>1. i # Absent
    BY <1>1, VolumeSizes DEF Inodes, Absent
  <2> QED
    BY <1>6, <1>17, <2>1 DEF Seen, View, EmptyDirectory
<1> QED
  BY <1>4, <1>14, <1>18, <1>b DEF InSync, Matches

LEMMA MkdirSinglePlans ==
    ASSUME NEW m \in Memory, NEW dk \in Disk, InSync(m, dk), NEW p \in Seq(Names), p # <<>>,
           CanMkdir(m, dk, p), NEW goal, NEW h
    PROVE  Planned(MkdirSingle(goal, p, m, dk), dk, h)
<1> DEFINE d == ParentOf(m, dk.data, p)
           e == EntriesOf(m, dk.data, d)
           s == LeastOf(FreeSlots(e))
           i == LeastOf(FreeInodes(m))
           k == FirstRun(m.map, 1)
           entry == [name |-> Last(p), inode |-> i]
           m1 == [m EXCEPT !.map = @ \union {k}]
           m2 == [m1 EXCEPT !.inode[i] = [type |-> "dir", start |-> k, len |-> 1, size |-> 1],
                            !.dir = IF d = Root THEN [@ EXCEPT ![s] = entry] ELSE @]
           d1 == Flagged(dk, "dirty")
           d2 == [d1 EXCEPT !.data[k] = Zeroed]
           f == [e EXCEPT ![s] = entry]
           begin == At(m1, <<d1, d2>>)
           ok == d = Root \/ CanFlushSubdir(m2, d)
           o == MkdirSingle(goal, p, m, dk)
<1>1. /\ d # Absent /\ Named(e, Last(p)) = {} /\ FreeSlots(e) # {} /\ FreeInodes(m) # {} /\ HasRoom(m.map, 1)
      /\ Takes(m, e, Last(p))
  BY DEF CanMkdir, Takes
<1>2. /\ o.todo = begin \o EntryFlush(d2, m2, d, f) /\ o.kind = "mkdir" /\ o.path = p /\ o.end = m2
      /\ o.ok = ok /\ o.want = EmptyDirectory
  BY DEF MkdirSingle, Command, EntryFlush
<1>3. /\ m \in SoundMemory /\ Healthy(dk, dk.data) /\ Sound(dk)
      /\ m.mounted /\ m.inode = dk.inode /\ m.dir = dk.dir /\ m.map = dk.map
      /\ \A j : Extent(m, j) = Extent(dk, j)
  BY SyncFacts
<1>4. Last(p) \in Names
  BY Fronts
<1>5. d = ParentOf(dk, dk.data, p) /\ e = EntriesOf(dk, dk.data, d)
  BY <1>3, SameTables
<1>6. s = SlotFor(e, Last(p)) /\ i = InodeFor(m, e, Last(p))
  BY <1>1 DEF SlotFor, InodeFor
<1>7. k \in Sectors /\ k \notin m.map
  <2>1. 1 \in Nat /\ 1 # 0 /\ m.map \in SUBSET Sectors
    BY DEF Memory
  <2>2. k \in Sectors /\ RunSet(k, 1) \cap m.map = {}
    BY <1>1, <2>1, RunFound
  <2> HIDE DEF k
  <2>3. k \in RunSet(k, 1)
    BY <2>2 DEF RunSet, Sectors
  <2> QED
    BY <2>2, <2>3
<1>a. e = EntriesOf(m, dk.data, d)
  OBVIOUS
<1> HIDE DEF d, e, s, i, k, o
<1>8. d = Walk(dk, dk.data, Front(p)) /\ IsDirectory(dk, d)
  BY <1>1, <1>5 DEF ParentOf
<1>9. /\ s \in Slots /\ i \in Inodes /\ ~Used(dk, i)
  BY <1>1, <1>3, <1>4, <1>5, <1>6, <1>8, EntryChosen
<1>b. Entered(dk, e, s, Last(p), i)
  BY <1>1, <1>3, <1>4, <1>5, <1>6, <1>8, EntryChosen
<1>10. d \in Directories(dk) /\ d # i /\ d \in Inodes \union {Root}
  BY <1>1, <1>3, <1>5, <1>9, ParentFound
<1>11. e \in [Slots -> Entry]
  BY <1>5, <1>10, DiskFormed, EntriesFormed
<1>12. f = EntryPut(e, s, Last(p), i)
  BY DEF EntryPut
<1> HIDE DEF f
<1>13. Reentered(e, f, s, Last(p)) /\ f \in [Slots -> Entry]
  <2>1. Reentered(e, f, s, Last(p))
    BY <1>4, <1>9, <1>b, <1>11, <1>12, EntryMade
  <2> QED
    BY <2>1 DEF Reentered
<1>14. Change(dk, p, i, d, s, f)
  BY <1>3, <1>5, <1>8, <1>9, <1>10, <1>13 DEF Change
<1>15. Extent(dk, i) = {}
  BY <1>3, <1>9, FreeEmpty
<1>16. entry \in Entry
  BY <1>9, NamesFound
<1> HIDE DEF entry
<1>17. m1 \in Memory
  BY <1>7 DEF Memory
<1>18. /\ m2 \in Memory /\ m2.inode[i] = DirInode(k) /\ m2.map = dk.map \union {k} /\ m2.mounted
       /\ OthersKept(m2, dk, i) /\ m2.dir = IF d = Root THEN f ELSE dk.dir
  <2>1. DirInode(k) \in Inode
    BY <1>7, VolumeSizes DEF Inode, Sectors, DirInode
  <2>2. m2 = [m1 EXCEPT !.inode[i] = DirInode(k), !.dir = IF d = Root THEN [m1.dir EXCEPT ![s] = entry] ELSE @]
    BY DEF DirInode
  <2>3. m1.mounted = m.mounted /\ m1.inode = m.inode /\ m1.dir = m.dir /\ m1.map = m.map \union {k}
    BY DEF Memory
  <2> HIDE DEF m1, m2
  <2>4. /\ m2 \in Memory /\ m2.inode[i] = DirInode(k) /\ m2.map = m1.map /\ m2.mounted = m1.mounted
        /\ \A j \in Inodes \ {i} : m2.inode[j] = m1.inode[j]
        /\ m2.dir = IF d = Root THEN [m1.dir EXCEPT ![s] = entry] ELSE m1.dir
    BY <1>9, <1>16, <1>17, <2>1, <2>2 DEF Memory
  <2>5. d = Root => f = [m1.dir EXCEPT ![s] = entry]
    BY <1>a, <2>3 DEF f, EntriesOf
  <2> QED
    BY <1>3, <2>3, <2>4, <2>5 DEF OthersKept
<1> HIDE DEF m1, m2
<1>19. m2 \in SoundMemory
  <2>1. Extent(m2, i) = {k}
    <3>1. k .. k + 1 - 1 = {k}
      BY <1>7, VolumeSizes DEF Sectors
    <3> QED
      BY <1>18, <3>1 DEF Extent, DirInode
  <2>2. \A j \in Inodes \ {i} : Extent(m2, j) = Extent(dk, j)
    BY <1>18 DEF OthersKept, Extent
  <2>3. Sound(m2)
    <3>1. \A j \in Inodes : Extent(m2, j) \subseteq m2.map
      BY <1>3, <1>18, <2>1, <2>2 DEF Sound
    <3>2. \A j \in Inodes \ {i} : k \notin Extent(m2, j)
      BY <1>3, <1>7, <2>2 DEF Sound
    <3>3. \A x, y \in Inodes : x # y => Extent(m2, x) \cap Extent(m2, y) = {}
      BY <1>3, <2>1, <2>2, <3>2 DEF Sound
    <3> QED
      BY <3>1, <3>3 DEF Sound
  <2> QED
    BY <1>18, <2>3 DEF SoundMemory
<1>20. d1 \in Nearby(dk, i, d, f) /\ d1.super = "dirty" /\ d1.data = dk.data
       /\ d1.inode = dk.inode /\ d1.dir = dk.dir /\ d1.map = dk.map
  BY StartNear
<1> HIDE DEF d1
<1> DEFINE N == Marks(dk, i, d, f, "dirty")
<1>21. d2 \in N /\ d2.dir = dk.dir /\ d2.data[k] = Zeroed
  <2>1. d1 \in Disk /\ Near(dk, d1, i, d, f)
    BY <1>20 DEF Nearby
  <2>2. /\ d2 \in Disk /\ d2.super = d1.super /\ d2.inode = d1.inode /\ d2.dir = d1.dir
        /\ d2.data[k] = Zeroed /\ \A x \in Sectors : x # k => d2.data[x] = d1.data[x]
    BY <1>7, <2>1, SectorsWithin DEF Disk
  <2> HIDE DEF d2
  <2>3. \A j \in Inodes \ {i} : \A x \in Extent(dk, j) : x \in Sectors /\ x # k
    <3>1. dk.map \subseteq Sectors
      BY DEF Disk
    <3> QED
      BY <1>3, <1>7, <3>1 DEF Sound
  <2>4. Near(dk, d2, i, d, f)
    BY <2>1, <2>2, <2>3 DEF Near
  <2> QED
    BY <1>20, <2>2, <2>4 DEF Nearby, Marks
<1> HIDE DEF d2
<1>22. begin \in Ahead(N)
  <2>1. <<d1, d2>> \in Seq(N)
    BY <1>20, <1>21 DEF Marks
  <2> HIDE DEF N
  <2> QED
    BY <1>17, <2>1, AtAhead
<1> HIDE DEF begin, N
<1>23. ASSUME NEW y \in Nearby(dk, i, d, f), EndsWith(dk, d2, y, m2, d, f)
       PROVE  Achieved(o, h, y)
  <2>1. Named(EntriesOf(dk, dk.data, d), Last(p)) = {} /\ f = EntryPut(EntriesOf(dk, dk.data, d), s, Last(p), i)
        /\ TakesSector(m2, dk, i, k)
    BY <1>1, <1>3, <1>5, <1>7, <1>12, <1>18 DEF TakesSector
  <2>2. InSync(m2, y) /\ y.super = "clean" /\ Seen(y, p) = EmptyDirectory
    BY <1>3, <1>7, <1>9, <1>14, <1>19, <1>21, <1>23, <2>1, DirectoryMade, ZenonT(60)
  <2> QED
    BY <1>2, <2>2 DEF Achieved
<1>24. IsEntryCommand(o, p, begin, d2, m2, d, f) /\ DirAfter(m2, dk, d, f) /\ EndAchieves(o, h, dk, d2, m2, i, d, f)
  BY <1>2, <1>18, <1>23 DEF PathKinds, IsEntryCommand, DirAfter, EndAchieves
<1> HIDE DEF ok
<1>25. Planned(o, dk, h)
  <2>1. d2 \in Marks(dk, i, d, f, "dirty") /\ begin \in Ahead(Marks(dk, i, d, f, "dirty"))
    BY <1>21, <1>22 DEF N
  <2> QED
    BY <1>3, <1>14, <1>18, <1>21, <1>24, <2>1, EntryPlanned
<1> QED
  BY <1>25 DEF o

\* Inode i is freed, with its sectors.
GivesUp(m, dk, i) == m.mounted /\ m.inode[i] = FreeInode /\ m.map = dk.map \ Extent(dk, i)

\* Nothing is left at the path once its entry and the tables are on the disk.
LEMMA NodeRemoved ==
    ASSUME NEW dk, NEW p, NEW i, NEW d, NEW s, NEW f, Change(dk, p, i, d, s, f),
           EntriesOf(dk, dk.data, d)[s] = [name |-> Last(p), inode |-> i],
           f[s] = FreeEntry, Named(f, Last(p)) = {},
           NEW m \in SoundMemory, GivesUp(m, dk, i),
           NEW z, NEW y \in Nearby(dk, i, d, f), EndsWith(dk, z, y, m, d, f)
    PROVE  InSync(m, y) /\ y.super = "clean" /\ Seen(y, p) = Nothing
<1>1. /\ dk \in Disk /\ Healthy(dk, dk.data) /\ p \in Seq(Names) /\ p # <<>> /\ i \in Inodes /\ s \in Slots
      /\ d = Walk(dk, dk.data, Front(p)) /\ d \in Directories(dk) /\ d # i
      /\ Reentered(EntriesOf(dk, dk.data, d), f, s, Last(p))
  BY DEF Change
<1>2. EntriesOf(y, y.data, d) = f /\ y \in Disk
  BY DEF EndsWith, Nearby
<1>3. m.mounted /\ m.inode[i] = FreeInode /\ m.map = dk.map \ Extent(dk, i) /\ Sound(m)
  BY DEF GivesUp, SoundMemory
<1>4. y.inode = m.inode /\ y.map = m.map /\ y.dir = m.dir /\ y.super = "clean"
  BY DEF EndsWith, CleanCopy
<1>5. Sound(y)
  BY <1>3, <1>4, SoundSame
<1>6. Extent(y, i) = {} /\ ~Used(y, i) /\ i \notin Directories(y)
  BY <1>1, <1>3, <1>4, VolumeSizes DEF FreeInode, Extent, Used, Directories, Root, Inodes
<1>7. Last(p) \in Names /\ Front(p) \in Apart(p)
  BY <1>1, Fronts, ApartClosed
<1>8. y.map = (dk.map \ Extent(dk, i)) \union Extent(y, i)
  BY <1>3, <1>4, <1>6
<1>9. Healthy(y, y.data)
  <2>1. EntriesOf(dk, dk.data, d)[s].name = Last(p) /\ EntriesOf(dk, dk.data, d)[s].inode = i
    OBVIOUS
  <2> QED
    BY <1>1, <1>2, <1>5, <1>6, <1>7, <1>8, <2>1, StillHealthy
<1>10. Walk(y, y.data, Front(p)) = Walk(dk, dk.data, Front(p))
  BY <1>7, NearbyAlike DEF Same
<1>11. d \in Directories(y)
  BY <1>1 DEF Directories, Nearby, Near
<1>12. Seen(y, p) = Nothing
  BY <1>1, <1>2, <1>9, <1>10, <1>11, PathReads DEF Seen
<1> QED
  BY <1>3, <1>4, <1>9, <1>12 DEF InSync, Matches

LEMMA RemovePathPlans ==
    ASSUME VolumeWithin(Memory), InSync(mem, disk), NEW p \in Paths, RemovePath(p), NEW h
    PROVE  Planned(op', disk, h)
<1> DEFINE d == ParentOf(mem, disk.data, p)
           e == EntriesOf(mem, disk.data, d)
           s == LeastOf(Named(e, Last(p)))
           i == Lookup(mem, disk.data, p)
           m0 == Freed(mem, i)
           m1 == [m0 EXCEPT !.inode[i] = FreeInode,
                            !.dir = IF d = Root THEN [@ EXCEPT ![s] = FreeEntry] ELSE @]
           d1 == Flagged(disk, "dirty")
           f == [e EXCEPT ![s] = FreeEntry]
           begin == At(mem, <<d1>>)
           ok == d = Root \/ CanFlushSubdir(m1, d)
           o == op'
<1>1. /\ d # Absent /\ i # Absent
      /\ o.todo = begin \o EntryFlush(d1, m1, d, f) /\ o.kind = "remove" /\ o.path = p /\ o.end = m1
      /\ o.ok = ok /\ o.want = Nothing
  BY DEF RemovePath, Command, EntryFlush
<1>2. mem \in Memory /\ disk \in Disk
  BY DEF VolumeWithin
<1>3. /\ mem \in SoundMemory /\ Healthy(disk, disk.data) /\ Sound(disk)
      /\ mem.mounted /\ mem.inode = disk.inode /\ mem.dir = disk.dir /\ mem.map = disk.map
      /\ \A j : Extent(mem, j) = Extent(disk, j)
  BY <1>2, SyncFacts
<1>4. p \in Seq(Names) /\ p # <<>>
  BY CommandsAssumption
<1>5. d = ParentOf(disk, disk.data, p) /\ e = EntriesOf(disk, disk.data, d) /\ i = Lookup(disk, disk.data, p)
  BY <1>3, <1>4, SameTables
<1>6. d = Root => e = mem.dir
  BY SMTT(30) DEF EntriesOf
<1> HIDE DEF d, e, i, o
<1>7. i \in Inodes /\ Walk(disk, disk.data, p) = i /\ Used(disk, i)
  BY <1>1, <1>5 DEF Lookup, Used
<1>8. /\ d = Walk(disk, disk.data, Front(p)) /\ IsDirectory(disk, d) /\ d \in Directories(disk) /\ d # i
      /\ d \in Inodes \union {Root} /\ Child(disk, disk.data, d, Last(p)) = i
  BY <1>1, <1>2, <1>3, <1>4, <1>5, <1>7, ParentFound
<1>9. Last(p) \in Names /\ Last(p) # NoName
  BY <1>4, Fronts, NamesAssumption DEF NoName
<1>10. e \in [Slots -> Entry]
  BY <1>2, <1>5, <1>8, DiskFormed, EntriesFormed
<1>11. s \in Slots /\ e[s].name = Last(p) /\ e[s].inode = i /\ Named(e, Last(p)) = {s}
  <2>1. i # Absent /\ NamedOnce(disk, disk.data)
    BY <1>1, <1>3 DEF Healthy
  <2>2. PICK r \in Slots : e[r].name = Last(p) /\ e[r].inode = i
    BY <1>5, <1>8, <2>1, ChildEntry
  <2>3. Named(e, Last(p)) = {r} /\ LeastOf(Named(e, Last(p))) = r
    BY <1>5, <1>8, <1>9, <2>1, <2>2, NameLeads
  <2> QED
    BY <2>2, <2>3
<1> HIDE DEF s
<1>12. f \in [Slots -> Entry] /\ f[s] = FreeEntry /\ \A r \in Slots \ {s} : f[r] = e[r]
  BY <1>10, <1>11, Blanks DEF TableSet
<1>13. FreeEntry.name = NoName
  BY DEF FreeEntry
<1>14. d = Root => f = [mem.dir EXCEPT ![s] = FreeEntry]
  BY <1>6
<1> HIDE DEF f
<1>15. Reentered(e, f, s, Last(p)) /\ Named(f, Last(p)) = {}
  BY <1>9, <1>11, <1>12, <1>13 DEF Reentered, Named
<1>16. Change(disk, p, i, d, s, f)
  BY <1>2, <1>3, <1>4, <1>5, <1>7, <1>8, <1>11, <1>15 DEF Change
<1>17. e[s] = [name |-> Last(p), inode |-> i]
  BY <1>10, <1>11 DEF Entry
<1>18. m0 \in SoundMemory /\ m0 \in Memory /\ m0.dir = mem.dir /\ m0.map = disk.map \ Extent(disk, i) /\ m0.mounted
       /\ \A j \in Inodes \ {i} : m0.inode[j] = disk.inode[j]
  <2>1. TableSet(SoundMemory)
    BY DEF TableSet
  <2>2. m0 \in SoundMemory
    BY <1>3, <1>7, <2>1, FreedWithin
  <2> QED
    BY <1>2, <1>3, <1>7, <2>2 DEF Freed, Memory, SoundMemory
<1> HIDE DEF m0
<1>19. /\ m1 \in Memory /\ m1.inode[i] = FreeInode /\ m1.map = disk.map \ Extent(disk, i) /\ m1.mounted
       /\ OthersKept(m1, disk, i) /\ DirAfter(m1, disk, d, f) /\ m1 \in SoundMemory
  <2>1. FreeInode \in Inode /\ FreeEntry \in Entry /\ Span(FreeInode) = {}
    BY Blanks DEF TableSet, Span, FreeInode
  <2>2. /\ m1 \in Memory /\ m1.inode[i] = FreeInode /\ m1.map = m0.map /\ m1.mounted = m0.mounted
        /\ \A j \in Inodes \ {i} : m1.inode[j] = m0.inode[j]
        /\ m1.dir = IF d = Root THEN [m0.dir EXCEPT ![s] = FreeEntry] ELSE m0.dir
    BY <1>7, <1>18, <2>1 DEF Memory
  <2> HIDE DEF m1
  <2>3. Sound(m0) => Fits(m0, i, m1.inode[i], m1.map)
    BY <1>7, <2>1, <2>2 DEF Fits, Sound
  <2>6. m1 \in Memory /\ \A j \in Inodes \ {i} : m1.inode[j] = m0.inode[j]
    BY <2>2
  <2>4. TableSet(SoundMemory)
    BY DEF TableSet
  <2>5. m1 \in SoundMemory
    BY <1>7, <1>18, <2>6, <2>3, <2>4, ChangedWithin
  <2> QED
    BY <1>3, <1>14, <1>18, <2>2, <2>5 DEF OthersKept, DirAfter
<1> HIDE DEF m1
<1>20. d1 \in Nearby(disk, i, d, f) /\ d1.super = "dirty" /\ d1.dir = disk.dir
  BY <1>2, StartNear
<1> HIDE DEF d1
<1> DEFINE N == Marks(disk, i, d, f, "dirty")
<1>21. d1 \in N
  BY <1>20 DEF Marks
<1>22. begin \in Ahead(N)
  <2>1. <<d1>> \in Seq(N)
    BY <1>21
  <2> HIDE DEF N
  <2> QED
    BY <1>2, <2>1, AtAhead
<1> HIDE DEF begin, N
<1>23. ASSUME NEW y \in Nearby(disk, i, d, f), EndsWith(disk, d1, y, m1, d, f)
       PROVE  Achieved(o, h, y)
  <2>1. GivesUp(m1, disk, i)
    BY <1>19 DEF GivesUp
  <2>2. EntriesOf(disk, disk.data, d)[s] = [name |-> Last(p), inode |-> i]
    BY <1>5, <1>17
  <2>3. InSync(m1, y) /\ y.super = "clean" /\ Seen(y, p) = Nothing
    BY <1>12, <1>15, <1>16, <1>19, <1>23, <2>1, <2>2, NodeRemoved
  <2> QED
    BY <1>1, <2>3 DEF Achieved
<1>24. IsEntryCommand(o, p, begin, d1, m1, d, f) /\ EndAchieves(o, h, disk, d1, m1, i, d, f)
  BY <1>1, <1>23 DEF PathKinds, IsEntryCommand, EndAchieves
<1>25. Planned(o, disk, h)
  <2>1. d1 \in Marks(disk, i, d, f, "dirty") /\ begin \in Ahead(Marks(disk, i, d, f, "dirty"))
    BY <1>21, <1>22 DEF N
  <2> HIDE DEF ok
  <2> QED
    BY <1>3, <1>16, <1>19, <1>20, <1>24, <2>1, EntryPlanned
<1> QED
  BY <1>25, SMTT(30) DEF o

-----------------------------------------------------------------------------
(* Writing through a descriptor: only a file's inode and its sectors       *)
(* change, and no name does.                                               *)
FdNear(dk, i) == {x \in Nearby(dk, i, Root, dk.dir) : x.inode[i].type = "file"}
FdMarks(dk, i) == {x \in FdNear(dk, i) : x.super = "dirty"}

LEMMA FdNearEntries ==
    ASSUME NEW dk \in Disk, NEW i \in Inodes, dk.inode[i].type = "file", NEW x \in FdNear(dk, i)
    PROVE  /\ x \in Disk /\ Near(dk, x, i, Root, dk.dir)
           /\ \A v : (IsDirectory(x, v) <=> IsDirectory(dk, v)) /\ (Used(x, v) <=> Used(dk, v))
           /\ \A v : IsDirectory(dk, v) => \A r \in Slots : EntriesOf(x, x.data, v)[r] = EntriesOf(dk, dk.data, v)[r]
<1>1. x \in Disk /\ Near(dk, x, i, Root, dk.dir) /\ x \in Nearby(dk, i, Root, dk.dir) /\ x.inode[i].type = "file"
  BY DEF FdNear, Nearby
<1>2. \A j \in Inodes \ {i} : x.inode[j] = dk.inode[j]
  BY <1>1 DEF Near
<1>3. \A v : (IsDirectory(x, v) <=> IsDirectory(dk, v)) /\ (Used(x, v) <=> Used(dk, v))
  BY <1>1, <1>2 DEF IsDirectory, Used
<1>4. ASSUME NEW v, IsDirectory(dk, v), NEW r \in Slots
      PROVE  EntriesOf(x, x.data, v)[r] = EntriesOf(dk, dk.data, v)[r]
  <2>1. v \in Directories(dk) \ {i}
    BY <1>4, VolumeSizes DEF Directories, IsDirectory, Root, Inodes
  <2>2. Root # i
    BY VolumeSizes DEF Root, Inodes
  <2>3. \/ EntriesOf(x, x.data, v)[r] = EntriesOf(dk, dk.data, v)[r]
        \/ v = Root /\ EntriesOf(x, x.data, v)[r] = dk.dir[r]
    <3> DEFINE f == dk.dir
    <3>1. x \in Nearby(dk, i, Root, f)
      BY <1>1
    <3> HIDE DEF f
    <3>2. \/ EntriesOf(x, x.data, v)[r] = EntriesOf(dk, dk.data, v)[r]
          \/ v = Root /\ EntriesOf(x, x.data, v)[r] = f[r]
      BY <2>1, <2>2, <3>1, EntriesNear
    <3> QED
      BY <3>2 DEF f
  <2>4. v = Root => EntriesOf(dk, dk.data, v) = dk.dir
    BY DEF EntriesOf
  <2> QED
    BY <2>3, <2>4
<1> QED
  BY <1>1, <1>3, <1>4

\* Every path finds what it found, and reads the same but for the file written.
FoundSame(dk, x, i) ==
    \A q \in Seq(Names) : /\ FoundOn(dk, q) = FoundOn(x, q)
                          /\ FoundOn(dk, q) # i => Seen(dk, q) = Seen(x, q)

LEMMA FdAlike ==
    ASSUME NEW dk \in Disk, NEW i \in Inodes, dk.inode[i].type = "file", NEW x \in FdNear(dk, i)
    PROVE  FoundSame(dk, x, i)
<1>1. /\ x \in Disk /\ Near(dk, x, i, Root, dk.dir)
      /\ \A v : (IsDirectory(x, v) <=> IsDirectory(dk, v)) /\ (Used(x, v) <=> Used(dk, v))
      /\ \A v : IsDirectory(dk, v) => \A r \in Slots : EntriesOf(x, x.data, v)[r] = EntriesOf(dk, dk.data, v)[r]
  BY FdNearEntries
<1>2. ASSUME NEW v, NEW n PROVE Child(x, x.data, v, n) = Child(dk, dk.data, v, n)
  BY <1>1, ChildKept
<1>3. \A q \in Seq(Names) : Walk(x, x.data, q) = Walk(dk, dk.data, q)
  <2> DEFINE P == Seq(Names)
  <2>1. \A q \in P : q # <<>> =>
           /\ Front(q) \in P
           /\ LET v == Walk(dk, dk.data, Front(q))
              IN  Child(x, x.data, v, Last(q)) = Child(dk, dk.data, v, Last(q))
    BY <1>2, Fronts
  <2>2. P \in SUBSET Seq(Names)
    OBVIOUS
  <2> HIDE DEF P
  <2>3. \A q \in P : Walk(x, x.data, q) = Walk(dk, dk.data, q)
    BY <2>1, <2>2, WalksAgree
  <2> QED
    BY <2>3 DEF P
<1>4. \A q \in Seq(Names) : FoundOn(dk, q) = FoundOn(x, q)
  BY <1>1, <1>3 DEF FoundOn, Lookup
<1>5. ASSUME NEW q \in Seq(Names), FoundOn(dk, q) # i
      PROVE  Seen(dk, q) = Seen(x, q)
  <2> DEFINE j == FoundOn(dk, q)
  <2>1. Lookup(x, x.data, q) = j /\ Lookup(dk, dk.data, q) = j
    BY <1>4 DEF FoundOn
  <2> HIDE DEF j
  <2>2. CASE j = Absent
    BY <2>1, <2>2 DEF Seen, View
  <2>3. CASE j # Absent
    <3>1. j \in Inodes \ {i}
      BY <1>5, <2>1, <2>3 DEF j, Lookup, Used
    <3>2. x.inode[j] = dk.inode[j] /\ \A k \in Extent(dk, j) : x.data[k] = dk.data[k]
      <4>1. j # Root
        BY <3>1, VolumeSizes DEF Root, Inodes
      <4> QED
        BY <1>1, <3>1, <4>1 DEF Near
    <3>3. TextOf(x, x.data, j) = TextOf(dk, dk.data, j)
      BY <3>1, <3>2, DiskFormed, TextKept
    <3> QED
      BY <2>1, <2>3, <3>2, <3>3 DEF Seen, View
  <2> QED
    BY <2>2, <2>3
<1> QED
  BY <1>4, <1>5 DEF FoundSame

LEMMA FdHealthy ==
    ASSUME NEW dk \in Disk, Healthy(dk, dk.data), NEW i \in Inodes, dk.inode[i].type = "file",
           NEW x \in FdNear(dk, i), Sound(x), Remapped(x, dk, i)
    PROVE  Healthy(x, x.data)
<1>1. /\ x \in Disk /\ Near(dk, x, i, Root, dk.dir)
      /\ \A v : (IsDirectory(x, v) <=> IsDirectory(dk, v)) /\ (Used(x, v) <=> Used(dk, v))
      /\ \A v : IsDirectory(dk, v) => \A r \in Slots : EntriesOf(x, x.data, v)[r] = EntriesOf(dk, dk.data, v)[r]
  BY FdNearEntries
<1>2. Used(x, i) /\ Used(dk, i)
  BY <1>1 DEF Used
<1>3. dk.map = ExpectedMap(dk) /\ Sound(dk) /\ NamedOnce(dk, dk.data)
      /\ \A v \in Directories(dk) : EntriesValid(dk, EntriesOf(dk, dk.data, v))
  BY DEF Healthy, Checked
<1>4. Directories(x) = Directories(dk) /\ \A v \in Directories(dk) : IsDirectory(dk, v)
  <2>1. \A v : v \in Directories(x) <=> IsDirectory(x, v)
    BY DEF Directories, IsDirectory
  <2>2. \A v : v \in Directories(dk) <=> IsDirectory(dk, v)
    BY DEF Directories, IsDirectory
  <2> QED
    BY <1>1, <2>1, <2>2
<1>5. \A v \in Directories(dk) : \A r \in Slots : EntriesOf(x, x.data, v)[r] = EntriesOf(dk, dk.data, v)[r]
  BY <1>1, <1>4
<1>6. x.map = ExpectedMap(x)
  <2>1. \A j \in Inodes \ {i} : Extent(dk, j) \cap Extent(dk, i) = {} /\ Extent(x, j) = Extent(dk, j)
    BY <1>1, <1>3 DEF Sound, Near, Extent
  <2>4. dk.map = UNION {Extent(dk, j) : j \in {j \in Inodes : Used(dk, j)}}
    BY <1>3 DEF ExpectedMap
  <2>5. \A k : k \in dk.map \ Extent(dk, i) <=> \E j \in Inodes \ {i} : Used(dk, j) /\ k \in Extent(dk, j)
    BY <1>2, <2>1, <2>4
  <2>6. \A k : k \in x.map <=> \E j \in Inodes : Used(x, j) /\ k \in Extent(x, j)
    BY <1>1, <1>2, <2>1, <2>5 DEF Remapped
  <2>7. ExpectedMap(x) = UNION {Extent(x, j) : j \in {j \in Inodes : Used(x, j)}}
    BY DEF ExpectedMap
  <2> QED
    BY <2>6, <2>7
<1>7. Checked(x, x.data)
  BY <1>1, <1>3, <1>4, <1>5, <1>6 DEF Checked, EntriesValid
<1>8. NamedOnce(x, x.data)
  BY <1>3, <1>4, <1>5 DEF NamedOnce
<1> QED
  BY <1>7, <1>8 DEF Healthy

LEMMA FdPlanned ==
    ASSUME NEW dk \in Disk, Healthy(dk, dk.data), NEW i \in Inodes, dk.inode[i].type = "file",
           NEW S, S \subseteq FdNear(dk, i), \A x \in S : Tidy(x),
           NEW o, NEW todo, o.todo = todo, todo \in Ahead(S), o.kind = "fdwrite",
           o.ok => Achieved(o, i, EndAt(dk, todo))
    PROVE  Planned(o, dk, i)
<1>1. Tidy(dk)
  BY DEF Healthy, Tidy
<1>2. o.kind \notin PathKinds
  BY DEF PathKinds
<1>3. ASSUME NEW k \in DOMAIN todo
      PROVE  Alike(o, i, dk, todo[k].disk) /\ Tidy(todo[k].disk)
  <2> DEFINE x == todo[k].disk
  <2>1. x \in S
    BY <1>3, Written
  <2> HIDE DEF x
  <2>2. FoundSame(dk, x, i)
    BY <2>1, FdAlike
  <2>3. Alike(o, i, dk, x)
    BY <1>2, <2>2 DEF Alike, FoundSame
  <2> QED
    BY <2>1, <2>3 DEF x
<1> QED
  BY <1>1, <1>3 DEF Planned

\* Copying into sectors that belong to no inode but i.
CopiedTo(x, z, from, to, n) ==
    /\ z.super = x.super /\ z.inode = x.inode /\ z.dir = x.dir /\ z.map = x.map
    /\ \A u \in Sectors : z.data[u] = IF u \in to .. to + n - 1 THEN x.data[from + u - to] ELSE x.data[u]

LEMMA CopyNear ==
    ASSUME NEW dk \in Disk, NEW i, NEW d, NEW f, NEW x \in Nearby(dk, i, d, f),
           NEW from \in Nat, NEW to \in Nat, NEW n \in Nat, from .. from + n - 1 \subseteq Sectors,
           \A j \in Inodes \ {i} : Extent(dk, j) \cap (to .. to + n - 1) = {}
    PROVE  LET w == Copy(x, from, to, n)
               z == EndOf(x, w)
           IN  w \in Seq(Marks(dk, i, d, f, x.super)) /\ z \in Nearby(dk, i, d, f) /\ CopiedTo(x, z, from, to, n)
<1> DEFINE one(k) == [x EXCEPT !.data = [u \in Sectors |-> IF u \in to .. to + k - 1 THEN @[from + u - to] ELSE @[u]]]
           S == {y \in Nearby(dk, i, d, f) : y.super = x.super}
           w == Copy(x, from, to, n)
<1>1. x \in Disk /\ Near(dk, x, i, d, f)
  BY DEF Nearby
<1>a. \A k \in 0 .. n : \A u \in to .. to + k - 1 : from + u - to \in Sectors
  <2>1. \A k \in 0 .. n : \A u \in to .. to + k - 1 : from + u - to \in from .. from + n - 1
    OBVIOUS
  <2> QED
    BY <2>1
<1>2. \A k \in 0 .. n : /\ one(k) \in Disk /\ one(k).super = x.super
                        /\ one(k).inode = x.inode /\ one(k).dir = x.dir /\ one(k).map = x.map
                        /\ \A u \in Sectors : one(k).data[u] = IF u \in to .. to + k - 1 THEN x.data[from + u - to] ELSE x.data[u]
  BY <1>1, <1>a DEF Disk
<1>3. w = [k \in 1 .. n |-> one(k)]
  BY DEF Copy
<1>4. \A k \in 0 .. n : \A u \in to .. to + k - 1 : u \in to .. to + n - 1
  OBVIOUS
<1> HIDE DEF one
<1>5. ASSUME NEW k \in 0 .. n PROVE one(k) \in S
  <2>2. ASSUME NEW j \in Inodes \ {i}, NEW u \in Extent(dk, j)
        PROVE  one(k).data[u] = x.data[u]
    <3>1. u \notin to .. to + k - 1
      BY <1>4, <2>2
    <3>2. u \in Sectors
      <4>1. dk.inode[j] \in Inode
        BY DEF Disk
      <4> QED
        BY <2>2, <4>1, VolumeSizes DEF Extent, Inode, Sectors
    <3> QED
      BY <1>2, <3>1, <3>2
  <2>3. Near(dk, one(k), i, d, f)
    BY <1>1, <1>2, <2>2 DEF Near
  <2> QED
    BY <1>2, <2>3 DEF Nearby
<1>6. n = 0 => one(n) = x
  <2> SUFFICES ASSUME n = 0 PROVE one(n) = x
    OBVIOUS
  <2>1. to .. to + n - 1 = {}
    OBVIOUS
  <2>2. x.data = [u \in Sectors |-> x.data[u]]
    BY <1>1 DEF Disk
  <2>3. x = [x EXCEPT !.data = x.data]
    BY <1>1 DEF Disk
  <2> QED
    BY <2>1, <2>2, <2>3 DEF one
<1> HIDE DEF S, w
<1>7. w \in Seq(S) /\ Len(w) = n /\ (n # 0 => w[n] = one(n)) /\ (w = <<>> <=> n = 0)
  BY <1>3, <1>5
<1>8. EndOf(x, w) = one(n)
  BY <1>6, <1>7 DEF EndOf, Last
<1>9. one(n) \in S
  BY <1>5
<1> QED
  BY <1>2, <1>7, <1>8, <1>9 DEF S, w, Marks, CopiedTo

LEMMA FdFlushed ==
    ASSUME NEW dk \in Disk, NEW i \in Inodes, NEW x \in FdMarks(dk, i), NEW m \in Memory,
           OthersKept(m, dk, i), m.inode[i].type = "file", m.dir = dk.dir
    PROVE  \E y \in FdNear(dk, i) : FlushedTo(x, y, m, FALSE) /\ FlushTables(x, m, FALSE) \in Seq(FdMarks(dk, i) \union {y})
<1> DEFINE root == FALSE
<1>1. x \in Disk /\ Near(dk, x, i, Root, dk.dir) /\ x.inode[i].type = "file" /\ x.super = "dirty" /\ root \in BOOLEAN
  BY DEF Nearby, FdNear, FdMarks
<1>0. root = FALSE
  OBVIOUS
<1> HIDE DEF root
<1>2. PICK w \in Seq(Moves(x, m, root)) :
         /\ FlushTables(x, m, root) = w \o <<Flagged(EndOf(x, w), "clean")>>
         /\ EndOf(x, w) \in Moves(x, m, root)
         /\ Carries(x, EndOf(x, w), m, root)
  BY <1>1, FlushMade
<1> DEFINE y == Flagged(EndOf(x, w), "clean")
           S == FdMarks(dk, i) \union {y}
<1>3. ASSUME NEW z \in Moves(x, m, root) PROVE z \in FdMarks(dk, i)
  <2>1. Near(dk, z, i, Root, dk.dir) /\ z \in Disk
    BY <1>0, <1>1 DEF Moves, Moved, Near, OthersKept
  <2>2. z.inode[i].type = "file" /\ z.super = "dirty"
    BY <1>1 DEF Moves, Moved
  <2> QED
    BY <2>1, <2>2 DEF Nearby, FdNear, FdMarks
<1>4. /\ y \in Disk /\ y.super = "clean" /\ y.data = x.data /\ y.inode = EndOf(x, w).inode
      /\ y.dir = EndOf(x, w).dir /\ y.map = EndOf(x, w).map
  BY <1>2 DEF Moves, Moved, Flagged, Disk
<1>5. y \in FdNear(dk, i)
  <2>1. EndOf(x, w) \in FdMarks(dk, i)
    BY <1>2, <1>3
  <2>2. Near(dk, EndOf(x, w), i, Root, dk.dir) /\ EndOf(x, w).inode[i].type = "file" /\ EndOf(x, w).data = x.data
    BY <1>2, <2>1 DEF Nearby, FdNear, FdMarks, Moves, Moved
  <2>3. Near(dk, y, i, Root, dk.dir)
    BY <1>4, <2>2 DEF Near
  <2> QED
    BY <1>4, <2>2, <2>3 DEF Nearby, FdNear
<1>6. Carries(x, y, m, root)
  BY <1>2, <1>4 DEF Carries
<1> HIDE DEF y
<1>7. w \in Seq(S) /\ <<y>> \in Seq(S)
  <2>1. Moves(x, m, root) \subseteq S
    BY <1>3
  <2>2. y \in S
    OBVIOUS
  <2> HIDE DEF S
  <2> QED
    BY <2>1, <2>2
<1>8. w \o <<y>> \in Seq(S) /\ \A v : EndOf(v, w \o <<y>>) = y
  <2> HIDE DEF S
  <2>2. /\ w \o <<y>> \in Seq(S) /\ Len(w \o <<y>>) = Len(w) + 1 /\ (w \o <<y>>)[Len(w) + 1] = y
        /\ Len(w) \in Nat
    BY <1>7
  <2> QED
    BY <2>2 DEF EndOf, Last
<1>9. FlushedTo(x, y, m, root) /\ FlushTables(x, m, root) \in Seq(S)
  BY <1>2, <1>4, <1>6, <1>8 DEF y, FlushedTo
<1> QED
  BY <1>0, <1>5, <1>9

\* What the file holds after a write through a descriptor: its extent starts at b
\* with l2 sectors, it held sectors from a to a + l - 1, and the n sectors
\* written are those after off.
FdSized(l, z, l2, z2, need) ==
    /\ l2 = (IF need > l THEN need ELSE l)
    /\ z2 = (IF need > z THEN need ELSE z)
FdHolds(data, data2, a, l, b, off, n) ==
    /\ \A x \in off + 1 .. off + n : data2[b + x - 1].text = FdText
    /\ \A x \in 1 .. l : x \notin off + 1 .. off + n => data2[b + x - 1].text = data[a + x - 1].text

FdSectorsOf(t, i, a, l, z) ==
    /\ a \in Nat /\ l \in Nat /\ z \in Nat
    /\ t.inode[i].start = a /\ t.inode[i].len = l /\ t.inode[i].size = z

FdReach(off, n, need) == off \in Nat /\ n \in Nat /\ n # 0 /\ need = off + n

LEMMA FdTextRead ==
    ASSUME NEW t, NEW data, NEW u, NEW data2, NEW i, NEW a, NEW l, NEW z, NEW b, NEW l2, NEW z2,
           NEW off, NEW n, NEW need, FdReach(off, n, need),
           FdSectorsOf(t, i, a, l, z), FdSectorsOf(u, i, b, l2, z2),
           FdSized(l, z, l2, z2, need), FdHolds(data, data2, a, l, b, off, n),
           Overwritten(t, data, i, off, n) # Nothing
    PROVE  TextOf(u, data2, i) = Overwritten(t, data, i, off, n).text
<1> DEFINE old == TextOf(t, data, i)
           m == IF z < l THEN z ELSE l
           size == IF off + n > m THEN off + n ELSE m
           m2 == IF z2 < l2 THEN z2 ELSE l2
           X(o) == [x \in 1 .. size |-> IF x \in off + 1 .. off + n THEN FdText ELSE o[x]]
<1> USE DEF FdSectorsOf, FdReach
<1>1. old = [x \in 1 .. m |-> data[a + x - 1].text] /\ m \in Nat
  BY DEF TextOf
<1>2. Len(old) = m
  BY <1>1
<1>3. \A x \in 1 .. m : old[x] = data[a + x - 1].text
  BY <1>1
<1> HIDE DEF old
<1>4. off <= m /\ Overwritten(t, data, i, off, n).text = X(old)
  <2>1. Overwritten(t, data, i, off, n) =
           IF off > Len(old) THEN Nothing
           ELSE [type |-> "file",
                 text |-> [x \in 1 .. (IF off + n > Len(old) THEN off + n ELSE Len(old)) |->
                              IF x \in off + 1 .. off + n THEN FdText ELSE old[x]]]
    BY DEF Overwritten, old
  <2>2. ~(off > Len(old))
    BY <2>1
  <2>3. off <= m
    BY <1>1, <1>2, <2>2
  <2>4. Overwritten(t, data, i, off, n) = [type |-> "file", text |-> X(old)]
    BY <1>2, <2>1, <2>2
  <2> HIDE DEF X
  <2> QED
    BY <2>3, <2>4
<1>5. m2 = size
  BY <1>4 DEF FdSized
<1>6. TextOf(u, data2, i) = [x \in 1 .. m2 |-> data2[b + x - 1].text]
  BY DEF TextOf
<1>7. ASSUME NEW x \in 1 .. size
      PROVE  data2[b + x - 1].text = IF x \in off + 1 .. off + n THEN FdText ELSE old[x]
  <2>1. CASE x \in off + 1 .. off + n
    BY <2>1 DEF FdHolds
  <2>2. CASE x \notin off + 1 .. off + n
    <3>1. x \in 1 .. m /\ x \in 1 .. l
      BY <1>1, <1>4, <2>2
    <3> HIDE DEF m, size
    <3> QED
      BY <1>3, <2>2, <3>1 DEF FdHolds
  <2> QED
    BY <2>1, <2>2
<1> HIDE DEF size, m2, m
<1> QED
  BY <1>4, <1>5, <1>6, <1>7

Unowned(dk, i, R) == \A j \in Inodes \ {i} : Extent(dk, j) \cap R = {}

LEMMA FdSectors ==
    ASSUME NEW dk, NEW i, NEW x \in FdMarks(dk, i), NEW w \in Seq(Marks(dk, i, Root, dk.dir, "dirty")),
           \A k \in DOMAIN w : w[k].inode = x.inode
    PROVE  w \in Seq(FdMarks(dk, i))
<1>1. \A k \in DOMAIN w : w[k] \in FdMarks(dk, i)
  BY DEF FdMarks, FdNear, Marks
<1> QED
  BY <1>1

LEMMA FdFilled ==
    ASSUME NEW dk \in Disk, NEW i, NEW x \in FdMarks(dk, i), NEW s \in Nat, NEW n \in Nat,
           NEW sector \in Sector, Unowned(dk, i, s .. s + n - 1)
    PROVE  LET w == Fill(x, s, n, sector)
               z == EndOf(x, w)
           IN  w \in Seq(FdMarks(dk, i)) /\ z \in FdMarks(dk, i) /\ FilledWith(x, z, s, n, sector)
<1> DEFINE w == Fill(x, s, n, sector)
           z == EndOf(x, w)
           d == Root
           f == dk.dir
<1>1. x \in Nearby(dk, i, d, f) /\ x.super = "dirty" /\ x \in Disk /\ x.inode[i].type = "file"
  BY DEF FdMarks, FdNear, Nearby
<1>2. \A j \in Inodes \ {i} : Extent(dk, j) \cap (s .. s + n - 1) = {}
  BY DEF Unowned
<1>3. \A k \in DOMAIN w : w[k].inode = x.inode
  BY <1>1 DEF Fill, Disk
<1>d. d = Root /\ f = dk.dir
  OBVIOUS
<1> HIDE DEF d, f
<1>4. w \in Seq(Marks(dk, i, d, f, x.super)) /\ z \in Nearby(dk, i, d, f) /\ FilledWith(x, z, s, n, sector)
  BY <1>1, <1>2, FillNear
<1> HIDE DEF w, z
<1>5. w \in Seq(FdMarks(dk, i))
  BY <1>1, <1>3, <1>4, <1>d, FdSectors
<1>6. z \in FdMarks(dk, i)
  BY <1>1, <1>4, <1>d DEF FdMarks, FdNear, FilledWith
<1> QED
  BY <1>4, <1>5, <1>6 DEF w, z

LEMMA FdCopied ==
    ASSUME NEW dk \in Disk, NEW i, NEW x \in FdMarks(dk, i), NEW from \in Nat, NEW to \in Nat, NEW n \in Nat,
           from .. from + n - 1 \subseteq Sectors, Unowned(dk, i, to .. to + n - 1)
    PROVE  LET w == Copy(x, from, to, n)
               z == EndOf(x, w)
           IN  w \in Seq(FdMarks(dk, i)) /\ z \in FdMarks(dk, i) /\ CopiedTo(x, z, from, to, n)
<1> DEFINE w == Copy(x, from, to, n)
           z == EndOf(x, w)
           d == Root
           f == dk.dir
<1>1. x \in Nearby(dk, i, d, f) /\ x.super = "dirty" /\ x \in Disk /\ x.inode[i].type = "file"
  BY DEF FdMarks, FdNear, Nearby
<1>2. \A j \in Inodes \ {i} : Extent(dk, j) \cap (to .. to + n - 1) = {}
  BY DEF Unowned
<1>3. \A k \in DOMAIN w : w[k].inode = x.inode
  BY <1>1 DEF Copy, Disk
<1>d. d = Root /\ f = dk.dir
  OBVIOUS
<1> HIDE DEF d, f
<1>4. w \in Seq(Marks(dk, i, d, f, x.super)) /\ z \in Nearby(dk, i, d, f) /\ CopiedTo(x, z, from, to, n)
  BY <1>1, <1>2, CopyNear
<1> HIDE DEF w, z
<1>5. w \in Seq(FdMarks(dk, i))
  BY <1>1, <1>3, <1>4, <1>d, FdSectors
<1>6. z \in FdMarks(dk, i)
  BY <1>1, <1>4, <1>d DEF FdMarks, FdNear, CopiedTo
<1> QED
  BY <1>4, <1>5, <1>6 DEF w, z

\* The tables of a descriptor's write: sectors k and on are taken if the file
\* grows, and its size follows.
FdTables(mem0, i, k, need, m1, m2, m3) ==
    LET old == mem0.inode[i]
        n2 == IF need > old.len THEN WithExtent(old, k, need) ELSE old
    IN  /\ m1 \in Memory /\ m2 \in Memory /\ m3 \in Memory
        /\ m2.inode[i].start = n2.start
        /\ m3.inode[i].type = old.type /\ m3.inode[i].start = n2.start /\ m3.inode[i].len = n2.len
        /\ m3.inode[i].size = (IF need > old.size THEN need ELSE old.size)
        /\ OthersKept(m3, mem0, i) /\ m3.dir = mem0.dir /\ m3.mounted = mem0.mounted
        /\ m3.map = IF need > old.len THEN (mem0.map \union RunSet(k, need)) \ Extent(mem0, i) ELSE mem0.map

\* Tables c are m with inode i replaced, and the bitmap.
InodePut(m, i, n, map, c) ==
    /\ c \in Memory /\ c.inode[i] = n /\ (\A j \in Inodes \ {i} : c.inode[j] = m.inode[j])
    /\ c.dir = m.dir /\ c.mounted = m.mounted /\ c.map = map

LEMMA InodePlaced ==
    ASSUME NEW m \in Memory, NEW i \in Inodes, NEW n \in Inode, NEW map \in SUBSET Sectors
    PROVE  /\ InodePut(m, i, n, map, [m EXCEPT !.map = map, !.inode[i] = n])
           /\ InodePut(m, i, n, m.map, [m EXCEPT !.inode[i] = n])
BY DEF Memory, InodePut

\* Its three steps, each where the code has it: before the copying, between it
\* and the text, and after the text.
FdRoom(m0, i, k, need) ==
    need > m0.inode[i].len =>
        /\ k \in 0 .. MaxSector /\ need \in 0 .. MaxSector
        /\ need # 0 => k \in Sectors /\ k + need - 1 \in Sectors
        /\ RunSet(k, need) \subseteq Sectors
FdFirst(m0, i, k, need) ==
    IF need > m0.inode[i].len THEN [m0 EXCEPT !.map = @ \union RunSet(k, need)] ELSE m0
FdSecond(m0, m1, i, k, need) ==
    IF need > m0.inode[i].len
    THEN [m1 EXCEPT !.map = @ \ Extent(m0, i), !.inode[i] = WithExtent(@, k, need)] ELSE m1
FdThird(m0, m2, i, need) ==
    IF need > m0.inode[i].size THEN [m2 EXCEPT !.inode[i] = [@ EXCEPT !.size = need]] ELSE m2

LEMMA FdTablesMade ==
    ASSUME NEW m0 \in Memory, NEW i \in Inodes, NEW need \in Nat, NEW k, NEW m1, NEW m2, NEW m3,
           FdRoom(m0, i, k, need), m1 = FdFirst(m0, i, k, need),
           m2 = FdSecond(m0, m1, i, k, need), m3 = FdThird(m0, m2, i, need)
    PROVE  FdTables(m0, i, k, need, m1, m2, m3)
<1> USE DEF FdRoom, FdFirst, FdSecond, FdThird
<1> DEFINE old == m0.inode[i]
           grow == need > old.len
           n2 == IF grow THEN WithExtent(old, k, need) ELSE old
           map == IF grow THEN (m0.map \union RunSet(k, need)) \ Extent(m0, i) ELSE m0.map
           Sized(o) == [o EXCEPT !.size = need]
<1>1. old \in Inode
  BY DEF Memory
<1>2. n2 \in Inode /\ n2.type = old.type /\ n2.size = old.size
  <2>1. CASE grow
    <3> HIDE DEF old
    <3> QED
      BY <1>1, <2>1, ExtentPut DEF old
  <2>2. CASE ~grow
    BY <1>1, <2>2
  <2> QED
    BY <2>1, <2>2
<1>3. /\ m1 \in Memory /\ m1.inode = m0.inode /\ m1.dir = m0.dir /\ m1.mounted = m0.mounted
      /\ grow => m1.map = m0.map \union RunSet(k, need)
      /\ ~grow => m1 = m0
  <2>1. CASE grow
    <3>1. m1 = [m0 EXCEPT !.map = m0.map \union RunSet(k, need)]
      BY <2>1
    <3>2. RunSet(k, need) \subseteq Sectors
      BY <2>1
    <3> HIDE DEF grow
    <3> QED
      BY <2>1, <3>1, <3>2 DEF Memory
  <2>2. CASE ~grow
    BY <2>2
  <2> QED
    BY <2>1, <2>2
<1>4. /\ m2 \in Memory /\ m2.inode[i] = n2 /\ (\A j \in Inodes \ {i} : m2.inode[j] = m0.inode[j])
      /\ m2.dir = m0.dir /\ m2.mounted = m0.mounted /\ m2.map = map
  <2>1. CASE grow
    <3>1. m2 = [m1 EXCEPT !.map = m1.map \ Extent(m0, i), !.inode[i] = n2]
      BY <1>3, <2>1
    <3>2. map = m1.map \ Extent(m0, i)
      BY <1>3, <2>1
    <3>3. map \in SUBSET Sectors
      BY <1>3, <3>2 DEF Memory
    <3> HIDE DEF n2, map, grow
    <3>4. InodePut(m1, i, n2, map, [m1 EXCEPT !.map = map, !.inode[i] = n2])
      BY <1>2, <1>3, <3>3, InodePlaced
    <3> QED
      BY <1>3, <3>1, <3>2, <3>4 DEF InodePut
  <2>2. CASE ~grow
    <3>1. m2 = m0
      BY <1>3, <2>2, SMTT(30)
    <3> QED
      BY <2>2, <3>1
  <2> QED
    BY <2>1, <2>2
<1> HIDE DEF n2, map
<1>5. /\ m3 \in Memory /\ m3.inode[i].type = n2.type /\ m3.inode[i].start = n2.start /\ m3.inode[i].len = n2.len
      /\ m3.inode[i].size = (IF need > old.size THEN need ELSE old.size)
      /\ (\A j \in Inodes \ {i} : m3.inode[j] = m2.inode[j])
      /\ m3.dir = m2.dir /\ m3.mounted = m2.mounted /\ m3.map = m2.map
  <2>1. CASE need > old.size
    <3>1. m3 = [m2 EXCEPT !.inode[i] = Sized(n2)]
      BY <1>4, <2>1
    <3>2. Sized(n2) \in Inode /\ Sized(n2).type = n2.type /\ Sized(n2).start = n2.start /\ Sized(n2).len = n2.len
          /\ Sized(n2).size = need
      BY <1>2 DEF Inode
    <3> HIDE DEF Sized
    <3>3. /\ m3 \in Memory /\ m3.inode[i] = Sized(n2)
          /\ (\A j \in Inodes \ {i} : m3.inode[j] = m2.inode[j])
          /\ m3.dir = m2.dir /\ m3.mounted = m2.mounted /\ m3.map = m2.map
      <4>1. InodePut(m2, i, Sized(n2), m2.map, [m2 EXCEPT !.inode[i] = Sized(n2)])
        BY <1>4, <3>2, InodePlaced
      <4> QED
        BY <3>1, <4>1 DEF InodePut
    <3>4. m3.inode[i].type = n2.type /\ m3.inode[i].start = n2.start /\ m3.inode[i].len = n2.len
          /\ m3.inode[i].size = need
      BY <3>2, <3>3
    <3> HIDE DEF old
    <3>5. m3.inode[i].size = (IF need > old.size THEN need ELSE old.size)
      BY <2>1, <3>4
    <3> QED
      BY <3>3, <3>4, <3>5
  <2>2. CASE ~(need > old.size)
    <3>1. m3 = m2
      BY <2>2, SMTT(30)
    <3> QED
      BY <1>2, <1>4, <2>2, <3>1
  <2> QED
    BY <2>1, <2>2, SMTT(30)
<1>6. OthersKept(m3, m0, i)
  BY <1>4, <1>5 DEF OthersKept
<1> QED
  BY <1>2, <1>3, <1>4, <1>5, <1>6 DEF FdTables, n2, map

\* The sectors taken are free; where the file's sectors are then.
FdApart(m0, i, k, need) == need > m0.inode[i].len => RunSet(k, need) \cap m0.map = {}

LEMMA FdTablesSound ==
    ASSUME NEW m0 \in SoundMemory, NEW dk \in Disk, InSync(m0, dk), NEW i \in Inodes,
           NEW k, NEW need \in Nat, NEW m1, NEW m2, NEW m3,
           FdTables(m0, i, k, need, m1, m2, m3), FdRoom(m0, i, k, need), FdApart(m0, i, k, need)
    PROVE  /\ Sound(m3) /\ Remapped(m3, dk, i) /\ Unowned(dk, i, Extent(m3, i))
           /\ need > m0.inode[i].len => Extent(m3, i) = RunSet(k, need)
<1> DEFINE old == m0.inode[i]
           R == Extent(m3, i)
<1>1. /\ m0 \in Memory /\ Sound(m0) /\ m0.inode = dk.inode /\ m0.map = dk.map
      /\ \A j : Extent(m0, j) = Extent(dk, j)
  BY DEF SoundMemory, InSync, Matches, Extent
<1>2. old \in Inode /\ old.start \in Nat /\ old.len \in Nat
  BY <1>1, VolumeSizes DEF Memory, Inode
<1>3. \A j \in Inodes \ {i} : Extent(m3, j) = Extent(m0, j)
  BY DEF FdTables, OthersKept, Extent
<1>4. CASE need > old.len
  <2>1. k \in Nat
    BY <1>4 DEF FdRoom
  <2>2. m3.inode[i].start = k /\ m3.inode[i].len = need /\ m3.map = (m0.map \union RunSet(k, need)) \ Extent(m0, i)
    BY <1>4 DEF FdTables, WithExtent
  <2>3. R = RunSet(k, need) /\ R \cap m0.map = {}
    BY <1>4, <2>2 DEF Extent, RunSet, FdApart
  <2>4. Extent(m0, i) \subseteq m0.map /\ \A j \in Inodes : Extent(m0, j) \subseteq m0.map
    BY <1>1 DEF Sound
  <2>5. m3.map = (m0.map \ Extent(m0, i)) \union R
    BY <2>2, <2>3, <2>4
  <2>6. \A j \in Inodes \ {i} : Extent(m0, j) \cap R = {} /\ Extent(m0, j) \subseteq m0.map \ Extent(m0, i)
    BY <1>1, <2>3, <2>4 DEF Sound
  <2>7. Sound(m3)
    BY <1>1, <1>3, <2>5, <2>6 DEF Sound
  <2> QED
    BY <1>1, <2>3, <2>5, <2>6, <2>7 DEF Remapped, Unowned
<1>5. CASE ~(need > old.len)
  <2>1. m3.inode[i].start = old.start /\ m3.inode[i].len = old.len /\ m3.map = m0.map
    BY <1>5 DEF FdTables
  <2>2. R = Extent(m0, i)
    BY <2>1 DEF Extent
  <2>3. Sound(m3)
    BY <1>1, <1>3, <2>1, <2>2 DEF Sound
  <2>4. m3.map = (m0.map \ Extent(m0, i)) \union R
    BY <1>1, <2>1, <2>2 DEF Sound
  <2>5. \A j \in Inodes \ {i} : Extent(m0, j) \cap R = {}
    BY <1>1, <2>2 DEF Sound
  <2> QED
    BY <1>1, <1>5, <2>3, <2>4, <2>5 DEF Remapped, Unowned
<1> QED
  BY <1>4, <1>5

\* Part of what is unowned is unowned.
LEMMA UnownedPart ==
    ASSUME NEW dk, NEW i, NEW R, Unowned(dk, i, R), NEW Q, Q \subseteq R
    PROVE  Unowned(dk, i, Q)
BY DEF Unowned

\* Where the text goes is part of the file's new extent, and it is then held there.
LEMMA FdPlace ==
    ASSUME NEW m0 \in Memory, NEW i \in Inodes, NEW k, NEW off \in Nat, NEW n \in Nat, NEW m1, NEW m2, NEW m3,
           FdTables(m0, i, k, off + n, m1, m2, m3), FdRoom(m0, i, k, off + n)
    PROVE  LET b == m3.inode[i].start
           IN  /\ b \in Nat /\ m2.inode[i].start = b
               /\ b + off .. b + off + n - 1 \subseteq Extent(m3, i)
               /\ FdSized(m0.inode[i].len, m0.inode[i].size, m3.inode[i].len, m3.inode[i].size, off + n)
               /\ off + n > m0.inode[i].len => b = k /\ k \in Nat /\ k .. k + m0.inode[i].len - 1 \subseteq RunSet(k, off + n)
               /\ ~(off + n > m0.inode[i].len) => b = m0.inode[i].start
<1> DEFINE old == m0.inode[i]
           b == m3.inode[i].start
<1>1. old \in Inode /\ old.start \in Nat /\ old.len \in Nat /\ old.size \in Nat
  BY VolumeSizes DEF Memory, Inode
<1>2. m2.inode[i].start = b /\ m3.inode[i].size = (IF off + n > old.size THEN off + n ELSE old.size)
  BY DEF FdTables
<1>3. CASE off + n > old.len
  <2>1. b = k /\ m3.inode[i].len = off + n
    BY <1>3 DEF FdTables, WithExtent
  <2>2. k \in Nat
    BY <1>3 DEF FdRoom
  <2>3. b + off .. b + off + n - 1 \subseteq Extent(m3, i)
    BY <2>1, <2>2 DEF Extent
  <2> HIDE DEF old, b
  <2>4. k .. k + old.len - 1 \subseteq RunSet(k, off + n)
    BY <1>1, <1>3, <2>2 DEF RunSet
  <2> QED
    BY <1>2, <1>3, <2>1, <2>2, <2>3, <2>4 DEF FdSized, old, b
<1>4. CASE ~(off + n > old.len)
  <2>1. b = old.start /\ m3.inode[i].len = old.len
    BY <1>4 DEF FdTables
  <2>2. b + off .. b + off + n - 1 \subseteq Extent(m3, i)
    BY <1>1, <1>4, <2>1 DEF Extent
  <2> QED
    BY <1>1, <1>2, <1>4, <2>1, <2>2 DEF FdSized
<1> QED
  BY <1>3, <1>4

LEMMA FdHeld ==
    ASSUME NEW x, NEW y, NEW z, NEW a \in Nat, NEW l \in Nat, NEW b \in Nat, NEW off \in Nat, NEW n \in Nat,
           b + off .. b + off + n - 1 \subseteq Sectors, b .. b + l - 1 \subseteq Sectors,
           CopiedTo(x, y, a, b, l) \/ (y = x /\ a = b),
           FilledWith(y, z, b + off, n, TextSector(FdText))
    PROVE  FdHolds(x.data, z.data, a, l, b, off, n)
<1>1. ASSUME NEW u \in off + 1 .. off + n
      PROVE  z.data[b + u - 1].text = FdText
  <2>1. b + u - 1 \in b + off .. b + off + n - 1 /\ b + u - 1 \in Sectors
    BY <1>1
  <2>2. TextSector(FdText).text = FdText
    BY DEF TextSector
  <2> QED
    BY <2>1, <2>2 DEF FilledWith
<1>2. ASSUME NEW u \in 1 .. l, u \notin off + 1 .. off + n
      PROVE  z.data[b + u - 1].text = x.data[a + u - 1].text
  <2>1. b + u - 1 \notin b + off .. b + off + n - 1 /\ b + u - 1 \in b .. b + l - 1
    BY <1>2
  <2>2. b + u - 1 \in Sectors
    BY <2>1
  <2>3. z.data[b + u - 1] = y.data[b + u - 1]
    BY <2>1, <2>2 DEF FilledWith
  <2>4. CASE CopiedTo(x, y, a, b, l)
    <3>1. y.data[b + u - 1] = x.data[a + (b + u - 1) - b]
      BY <2>1, <2>2, <2>4 DEF CopiedTo
    <3>2. a + (b + u - 1) - b = a + u - 1
      OBVIOUS
    <3> QED
      BY <2>3, <3>1, <3>2
  <2>5. CASE y = x /\ a = b
    BY <2>3, <2>5
  <2> QED
    BY <2>4, <2>5
<1> QED
  BY <1>1, <1>2 DEF FdHolds

LEMMA FdWritePlans ==
    ASSUME VolumeWithin(Memory), InSync(mem, disk), NEW n \in FdSizes, FdWrite(n)
    PROVE  Planned(op', disk, fd.inode)
<1> DEFINE i == fd.inode
           off == fd.off
           old == mem.inode[i]
           need == off + n
           grow == need > old.len
           k == FirstRun(mem.map, need)
           m1 == IF grow THEN [mem EXCEPT !.map = @ \union RunSet(k, need)] ELSE mem
           m2 == IF grow THEN [m1 EXCEPT !.map = @ \ Extent(mem, i), !.inode[i] = WithExtent(@, k, need)]
                 ELSE m1
           m3 == IF need > old.size THEN [m2 EXCEPT !.inode[i] = [@ EXCEPT !.size = need]] ELSE m2
           d1 == Flagged(disk, "dirty")
           copies == IF grow THEN Copy(d1, old.start, k, old.len) ELSE <<>>
           d2 == EndOf(d1, copies)
           from == m2.inode[i].start + off
           text == Fill(d2, from, n, TextSector(FdText))
           d3 == EndOf(d2, text)
           flush == FlushTables(d3, m3, FALSE)
           t0 == At(mem, <<d1>>)
           t1 == At(m1, copies)
           t2 == At(m2, text)
           t3 == At(m3, flush)
           todo == t0 \o t1 \o t2 \o t3
           want == Overwritten(mem, disk.data, i, off, n)
           o == op'
           N == FdMarks(disk, i)
<1>1. /\ fd.open /\ old.type = "file" /\ op = Idle
      /\ grow /\ ~HasRoom(mem.map, need) => o = Command("fdwrite", <<>>, mem, disk, At(mem, <<d1>>), mem, FALSE, Nothing)
      /\ ~(grow /\ ~HasRoom(mem.map, need)) =>
             o = [Command("fdwrite", <<>>, mem, disk, todo, m3, TRUE, want) EXCEPT !.off = need]
  BY DEF FdWrite, Ready
<1>2. mem \in Memory /\ disk \in Disk /\ i \in Inodes /\ off \in Nat /\ n \in Nat /\ n # 0 /\ need \in Nat
  <2>1. mem \in Memory /\ disk \in Disk /\ fd \in Descriptor /\ i \in Inodes
    BY <1>1 DEF VolumeWithin
  <2>2. off \in Nat /\ n \in Nat /\ n # 0
    BY <2>1, CommandsAssumption DEF Descriptor
  <2> QED
    BY <2>1, <2>2, SMTT(30)
<1>3. /\ mem \in SoundMemory /\ Healthy(disk, disk.data) /\ Sound(disk)
      /\ mem.mounted /\ mem.inode = disk.inode /\ mem.dir = disk.dir /\ mem.map = disk.map
      /\ \A j : Extent(mem, j) = Extent(disk, j)
  BY <1>2, SyncFacts
<1> HIDE DEF i, off
<1>4. old \in Inode /\ old.start \in Nat /\ old.len \in Nat /\ old.size \in Nat
  BY <1>2, VolumeSizes, SMTT(30) DEF Memory, Inode
<1>5. d1 \in N /\ disk \in FdNear(disk, i)
  <2>1. d1 \in Nearby(disk, i, Root, disk.dir) /\ d1.super = "dirty" /\ d1.inode = disk.inode
        /\ disk \in Nearby(disk, i, Root, disk.dir)
    BY <1>2, StartNear
  <2> QED
    BY <1>1, <1>3, <2>1 DEF FdMarks, FdNear
<1>6. d1.data = disk.data /\ d1 \in Disk
  BY <1>2, StartNear, FlagWithin
<1>7. N \subseteq FdNear(disk, i) /\ \A x \in N : Tidy(x)
  BY SMTT(30) DEF FdMarks, Tidy
<1>8. disk.inode[i].type = "file"
  BY <1>1, <1>3
<1> HIDE DEF d1
<1>9. CASE grow /\ ~HasRoom(mem.map, need)
  <2> DEFINE t == At(mem, <<d1>>)
  <2>1. <<d1>> \in Seq(N)
    BY <1>5
  <2>2. t \in Ahead(N)
    <3> HIDE DEF N
    <3> QED
      BY <1>2, <2>1, AtAhead
  <2>3. o.todo = t /\ o.kind = "fdwrite" /\ ~o.ok
    <3>1. o = Command("fdwrite", <<>>, mem, disk, t, mem, FALSE, Nothing)
      BY <1>1, <1>9
    <3> HIDE DEF o, t
    <3> QED
      BY <3>1 DEF Command
  <2> HIDE DEF o, t, N
  <2>4. Planned(o, disk, i)
    BY <1>2, <1>3, <1>7, <1>8, <2>2, <2>3, FdPlanned
  <2> QED
    BY <2>4 DEF o, i
<1>10. CASE ~(grow /\ ~HasRoom(mem.map, need))
  <2>1. grow => /\ k \in 0 .. MaxSector /\ need \in 0 .. MaxSector
                /\ need # 0 => k \in Sectors /\ k + need - 1 \in Sectors
                /\ RunSet(k, need) \subseteq Sectors /\ RunSet(k, need) \cap mem.map = {}
    <3> HIDE DEF old, need
    <3>1. mem.map \in SUBSET Sectors /\ need \in Nat
      BY <1>2 DEF Memory
    <3> QED
      BY <1>10, <3>1, RunFound
  <2>2. FdRoom(mem, i, k, need) /\ FdApart(mem, i, k, need)
    BY <2>1 DEF FdRoom, FdApart
  <2>3. m1 = FdFirst(mem, i, k, need) /\ m2 = FdSecond(mem, m1, i, k, need) /\ m3 = FdThird(mem, m2, i, need)
    BY SMTT(30) DEF FdFirst, FdSecond, FdThird
  <2>4. o = [Command("fdwrite", <<>>, mem, disk, todo, m3, TRUE, want) EXCEPT !.off = need]
    BY <1>1, <1>10
  <2> HIDE DEF k, m1, m2, m3, want, o
  <2>5. FdTables(mem, i, k, need, m1, m2, m3)
    BY <1>2, <2>2, <2>3, FdTablesMade
  <2>6. /\ Sound(m3) /\ Remapped(m3, disk, i) /\ Unowned(disk, i, Extent(m3, i))
        /\ grow => Extent(m3, i) = RunSet(k, need)
    BY <1>2, <1>3, <2>2, <2>5, FdTablesSound
  <2> DEFINE b == m3.inode[i].start
  <2>7. /\ b \in Nat /\ m2.inode[i].start = b /\ b + off .. b + off + n - 1 \subseteq Extent(m3, i)
        /\ FdSized(old.len, old.size, m3.inode[i].len, m3.inode[i].size, need)
        /\ grow => b = k /\ k \in Nat /\ k .. k + old.len - 1 \subseteq RunSet(k, need)
        /\ ~grow => b = old.start
    BY <1>2, <2>2, <2>5, FdPlace
  <2>8. from = b + off /\ from \in Nat
    BY <1>2, <2>7
  <2>9. Unowned(disk, i, from .. from + n - 1) /\ from .. from + n - 1 \subseteq Sectors
    <3>1. Extent(m3, i) \subseteq Sectors
      <4> DEFINE l == m3.inode[i]
      <4>1. m3 \in Memory
        BY <2>5 DEF FdTables
      <4>2. l \in Inode
        BY <1>2, <4>1 DEF Memory
      <4>3. Extent(m3, i) = l.start .. l.start + l.len - 1
        BY DEF Extent
      <4> HIDE DEF l
      <4> QED
        BY <4>2, <4>3, VolumeSizes DEF Inode, Sectors
    <3> HIDE DEF from, b
    <3>2. from .. from + n - 1 \subseteq Extent(m3, i)
      BY <2>7, <2>8
    <3> QED
      BY <2>6, <3>1, <3>2, UnownedPart
  <2>10. old.start .. old.start + old.len - 1 \subseteq Sectors
    <3> HIDE DEF old
    <3> QED
      BY <1>4, VolumeSizes DEF Inode, Sectors
  <2> HIDE DEF b, from
  <2>11. /\ copies \in Seq(N) /\ d2 \in N
         /\ (grow => CopiedTo(d1, d2, old.start, b, old.len)) /\ (~grow => d2 = d1)
    <3>1. CASE grow
      <4>1. Unowned(disk, i, k .. k + old.len - 1)
        BY <2>6, <2>7, <3>1, UnownedPart
      <4> DEFINE w == Copy(d1, old.start, k, old.len)
      <4>2. copies = w /\ d2 = EndOf(d1, w)
        BY <3>1
      <4>3. w \in Seq(N) /\ EndOf(d1, w) \in N /\ CopiedTo(d1, EndOf(d1, w), old.start, k, old.len)
        <5> HIDE DEF old, need
        <5> QED
          BY <1>2, <1>4, <1>5, <2>7, <2>10, <3>1, <4>1, FdCopied
      <4> HIDE DEF w, copies, d2, old, need, N
      <4> QED
        BY <2>7, <3>1, <4>2, <4>3
    <3>2. CASE ~grow
      <4>1. copies = <<>>
        BY <3>2
      <4>2. d2 = d1
        BY <4>1 DEF EndOf
      <4> HIDE DEF N
      <4> QED
        BY <1>5, <3>2, <4>1, <4>2
    <3> QED
      BY <3>1, <3>2
  <2> HIDE DEF copies, d2
  <2>12. text \in Seq(N) /\ d3 \in N /\ FilledWith(d2, d3, b + off, n, TextSector(FdText))
    <3> DEFINE sector == TextSector(FdText)
    <3>1. sector \in Sector
      BY SectorsWithin DEF Texts
    <3>2. text = Fill(d2, from, n, sector)
      OBVIOUS
    <3> HIDE DEF sector
    <3>3. text \in Seq(N) /\ d3 \in N /\ FilledWith(d2, d3, from, n, sector)
      BY <1>2, <2>8, <2>9, <2>11, <3>1, <3>2, FdFilled
    <3> QED
      BY <2>8, <3>3 DEF sector
  <2> HIDE DEF text, d3
  <2>13. /\ m1 \in Memory /\ m2 \in Memory /\ m3 \in Memory /\ m3.inode[i].type = "file"
         /\ OthersKept(m3, disk, i) /\ m3.dir = disk.dir /\ m3.mounted
    BY <1>1, <1>3, <2>5 DEF FdTables, OthersKept
  <2>14. PICK y \in FdNear(disk, i) : FlushedTo(d3, y, m3, FALSE) /\ flush \in Seq(N \union {y})
    BY <1>2, <2>12, <2>13, FdFlushed
  <2> DEFINE S == N \union {y}
  <2>15. S \subseteq FdNear(disk, i)
    BY <1>7, <2>14
  <2>16. /\ y.super = "clean" /\ y.data = d3.data /\ y.inode = m3.inode /\ y.map = m3.map /\ y.dir = m3.dir
         /\ EndOf(d3, flush) = y
    <3>1. d3.dir = disk.dir
      <4>1. d1.dir = disk.dir
        BY <1>2, StartNear DEF d1
      <4> QED
        BY <2>11, <2>12, <4>1 DEF FilledWith, CopiedTo
    <3> QED
      BY <2>13, <2>14, <3>1 DEF FlushedTo, Carries
  <2> HIDE DEF flush
  <2>17. Sound(y) /\ Remapped(y, disk, i)
    BY <2>6, <2>16, SoundSame DEF Remapped, Extent
  <2>18. Healthy(y, y.data)
    BY <1>2, <1>3, <1>8, <2>14, <2>17, FdHealthy
  <2>19. \A x \in S : Tidy(x)
    BY <1>7, <2>18 DEF Healthy, Tidy
  <2>20. /\ <<d1>> \in Seq(S) /\ copies \in Seq(S) /\ text \in Seq(S) /\ flush \in Seq(S)
         /\ EndOf(disk, <<d1>>) = d1 /\ EndOf(d1, copies) = d2
    <3>1. copies \in Seq(S) /\ text \in Seq(S) /\ flush \in Seq(S) /\ d1 \in S
      <4> HIDE DEF N
      <4>1. Seq(N) \subseteq Seq(S)
        BY MoreDisks
      <4> QED
        BY <1>5, <2>11, <2>12, <2>14, <4>1
    <3>2. d2 = EndOf(d1, copies)
      BY DEF d2
    <3>3. EndOf(disk, <<d1>>) = d1
      BY DEF EndOf, Last
    <3> HIDE DEF S
    <3> QED
      BY <3>1, <3>2, <3>3
  <2>21. todo \in Ahead(S) /\ EndAt(disk, todo) = y
    <3> HIDE DEF S
    <3>1. t0 \in Ahead(S) /\ EndAt(disk, t0) = d1
      BY <1>2, <2>20, AtAhead
    <3>2. t1 \in Ahead(S) /\ EndAt(d1, t1) = d2
      BY <2>13, <2>20, AtAhead
    <3>3. t2 \in Ahead(S) /\ EndAt(d2, t2) = d3
      BY <2>13, <2>20, AtAhead DEF d3
    <3>4. t3 \in Ahead(S) /\ EndAt(d3, t3) = y
      BY <2>13, <2>16, <2>20, AtAhead
    <3> HIDE DEF t0, t1, t2, t3
    <3>5. t0 \o t1 \in Ahead(S) /\ EndAt(disk, t0 \o t1) = d2
      BY <3>1, <3>2, AheadJoined
    <3>6. t0 \o t1 \o t2 \in Ahead(S) /\ EndAt(disk, t0 \o t1 \o t2) = d3
      BY <3>3, <3>5, AheadJoined
    <3> QED
      BY <3>4, <3>6, AheadJoined
  <2>22. o.todo = todo /\ o.kind = "fdwrite" /\ o.end = m3 /\ o.want = want
    <3> HIDE DEF todo, need
    <3> QED
      BY <2>4 DEF Command
  <2>23. Achieved(o, i, y)
    <3>1. InSync(m3, y)
      BY <2>13, <2>16, <2>18 DEF InSync, Matches
    <3>2. want # Nothing => TextOf(y, y.data, i) = want.text
      <4>1. FdHolds(d1.data, d3.data, old.start, old.len, b, off, n)
        <5>1. b + off .. b + off + n - 1 \subseteq Sectors /\ b .. b + old.len - 1 \subseteq Sectors
          <6>1. b + off .. b + off + n - 1 \subseteq Sectors
            BY <2>8, <2>9
          <6>2. b .. b + old.len - 1 \subseteq Sectors
            <7>1. CASE grow
              BY <2>1, <2>7, <7>1
            <7>2. CASE ~grow
              BY <2>7, <2>10, <7>2
            <7> QED
              BY <7>1, <7>2
          <6> QED
            BY <6>1, <6>2
        <5>2. CopiedTo(d1, d2, old.start, b, old.len) \/ (d2 = d1 /\ old.start = b)
          BY <2>7, <2>11
        <5> HIDE DEF old
        <5> QED
          BY <1>2, <1>4, <2>7, <2>12, <5>1, <5>2, FdHeld
      <4>2. y.data = d3.data /\ d1.data = disk.data /\ y.inode = m3.inode
        BY <1>6, <2>16
      <4>3. m3.inode[i].len \in Nat /\ m3.inode[i].size \in Nat
        BY <1>2, <2>13, VolumeSizes DEF Memory, Inode
      <4>4. want = Overwritten(mem, disk.data, i, off, n)
        BY DEF want
      <4> HIDE DEF old
      <4>5. mem.inode[i].start = old.start /\ mem.inode[i].len = old.len /\ mem.inode[i].size = old.size
            /\ y.inode[i].start = b /\ y.inode[i].len = m3.inode[i].len /\ y.inode[i].size = m3.inode[i].size
        BY <2>16 DEF old, b
      <4>6. FdSized(old.len, old.size, y.inode[i].len, y.inode[i].size, off + n)
        BY <2>7, <4>5
      <4>7. y.inode[i].len \in Nat /\ y.inode[i].size \in Nat
        BY <4>3, <4>5
      <4>8. FdHolds(disk.data, y.data, old.start, old.len, b, off, n)
        BY <4>1, <4>2
      <4>9. SUFFICES ASSUME Overwritten(mem, disk.data, i, off, n) # Nothing
            PROVE  TextOf(y, y.data, i) = Overwritten(mem, disk.data, i, off, n).text
        BY <4>4
      <4> DEFINE l2 == y.inode[i].len
                 z2 == y.inode[i].size
                 data == disk.data
                 data2 == y.data
                 a == old.start
                 l == old.len
                 z == old.size
      <4>10. FdReach(off, n, need)
        BY <1>2 DEF FdReach
      <4>11. FdSectorsOf(mem, i, a, l, z) /\ FdSectorsOf(y, i, b, l2, z2)
        BY <1>4, <2>7, <4>5, <4>7 DEF FdSectorsOf
      <4>12. FdSized(l, z, l2, z2, need) /\ FdHolds(data, data2, a, l, b, off, n)
        BY <4>6, <4>8
      <4>13. Overwritten(mem, data, i, off, n) # Nothing
        BY <4>9
      <4> HIDE DEF need, l2, z2, data, data2, a, l, z
      <4>14. TextOf(y, data2, i) = Overwritten(mem, data, i, off, n).text
        BY <4>10, <4>11, <4>12, <4>13, FdTextRead
      <4> QED
        BY <4>14 DEF data, data2
    <3>3. o.kind \notin PathKinds
      BY <2>22 DEF PathKinds
    <3> QED
      BY <2>16, <2>22, <3>1, <3>2, <3>3 DEF Achieved
  <2>24. Planned(o, disk, i)
    <3> HIDE DEF S, todo
    <3> QED
      BY <1>2, <1>3, <1>8, <2>15, <2>19, <2>21, <2>22, <2>23, FdPlanned
  <2> QED
    BY <2>24 DEF o, i
<1> QED
  BY <1>9, <1>10, SMTT(30)

-----------------------------------------------------------------------------
(* Formatting.                                                             *)

LEMMA BlankHealthy ==
    ASSUME NEW x, x.inode = BlankTables.inode, x.dir = BlankTables.dir, x.map = BlankTables.map
    PROVE  Healthy(x, x.data) /\ InSync(Loaded(BlankTables), x)
<1>1. x.dir = NoEntries /\ x.map = {} /\ \A i \in Inodes : x.inode[i] = FreeInode
  BY DEF BlankTables
<1>2. \A i \in Inodes : x.inode[i].type = "free" /\ Extent(x, i) = {}
  BY <1>1 DEF FreeInode, Extent
<1>3. Directories(x) = {Root}
  BY <1>2 DEF Directories
<1>4. EntriesOf(x, x.data, Root) = NoEntries /\ \A s \in Slots : NoEntries[s].name = NoName
  BY <1>1 DEF EntriesOf, NoEntries, FreeEntry
<1>5. ExpectedMap(x) = {}
  BY <1>2 DEF ExpectedMap, Used
<1>6. Checked(x, x.data)
  BY <1>1, <1>3, <1>4, <1>5 DEF Checked, EntriesValid
<1>7. Sound(x)
  BY <1>2 DEF Sound
<1>8. NamedOnce(x, x.data)
  BY <1>3, <1>4 DEF NamedOnce
<1>9. Matches(Loaded(BlankTables), x)
  BY DEF Matches, Loaded, Tables
<1> QED
  BY <1>6, <1>7, <1>8, <1>9 DEF Healthy, InSync

LEMMA FormatPlans ==
    ASSUME VolumeWithin(Memory), Format, NEW h
    PROVE  Planned(op', disk, h) /\ op'.kind = "format"
<1> DEFINE blank == Tables(mem.mounted, BlankTables)
           d1 == Flagged(disk, "clean")
           flush == FlushTables(d1, blank, TRUE)
           root == TRUE
           t1 == At(mem, <<d1>>)
           t2 == At(blank, Front(flush))
           todo == t1 \o t2
           o == op'
<1>1. o = Command("format", <<>>, mem, disk, todo, Loaded(BlankTables), TRUE, Nothing)
  BY DEF Format
<1>2. mem \in Memory /\ disk \in Disk
  BY DEF VolumeWithin
<1>3. blank \in Memory
  <2>1. mem.mounted \in BOOLEAN
    BY <1>2 DEF Memory
  <2>2. BlankTables.map = {}
    BY DEF BlankTables
  <2> QED
    BY <2>1, <2>2, Blanks DEF Tables, TableSet
<1>4. d1 \in Disk /\ d1.super = "clean"
  BY <1>2, FlagWithin DEF Flagged, Disk
<1>5. blank.inode = BlankTables.inode /\ blank.dir = BlankTables.dir /\ blank.map = BlankTables.map
  BY DEF Tables
<1>6. o.todo = todo /\ o.kind = "format" /\ o.end = Loaded(BlankTables)
  <2> HIDE DEF o, todo
  <2> QED
    BY <1>1 DEF Command
<1>7. root \in BOOLEAN /\ root = TRUE
  OBVIOUS
<1> HIDE DEF root, blank, d1
<1>8. flush = FlushTables(d1, blank, root)
  BY <1>7
<1> HIDE DEF flush
<1>9. PICK w \in Seq(Moves(d1, blank, root)) :
         /\ flush = w \o <<Flagged(EndOf(d1, w), "clean")>>
         /\ EndOf(d1, w) \in Moves(d1, blank, root)
         /\ Carries(d1, EndOf(d1, w), blank, root)
  BY <1>3, <1>4, <1>7, <1>8, FlushMade
<1> DEFINE y == EndOf(d1, w)
           S == {x \in Disk : x.super = "clean"}
<1>10. Moves(d1, blank, root) \subseteq S
  BY <1>4 DEF Moves, Moved
<1>11. w \in Seq(S) /\ <<d1>> \in Seq(S) /\ y \in S /\ d1 \in S
  <2> HIDE DEF y
  <2>1. y \in S
    BY <1>9, <1>10 DEF y
  <2>2. w \in Seq(S)
    <3> HIDE DEF S
    <3> QED
      BY <1>9, <1>10, MoreDisks
  <2> QED
    BY <1>4, <2>1, <2>2
<1>12. Front(flush) = w
  <2> DEFINE x == Flagged(EndOf(d1, w), "clean")
  <2>1. x \in Disk
    BY <1>11, FlagWithin
  <2> HIDE DEF x, S
  <2>2. flush = w \o <<x>>
    BY <1>9 DEF x
  <2>3. Len(w) \in Nat /\ Len(flush) = Len(w) + 1 /\ \A k \in 1 .. Len(w) : flush[k] = w[k]
    BY <1>11, <2>2
  <2>4. Front(flush) = [k \in 1 .. Len(w) |-> w[k]]
    BY <2>3 DEF Front
  <2> QED
    BY <1>11, <2>4
<1>13. t1 \in Ahead(S) /\ EndAt(disk, t1) = d1
  <2> HIDE DEF S
  <2>1. EndOf(disk, <<d1>>) = d1
    BY DEF EndOf, Last
  <2> QED
    BY <1>2, <1>11, <2>1, AtAhead
<1>14. t2 \in Ahead(S) /\ EndAt(d1, t2) = y
  <2> HIDE DEF S, y
  <2>1. t2 = At(blank, w) /\ y = EndOf(d1, w)
    BY <1>12 DEF y
  <2> HIDE DEF t2
  <2> QED
    BY <1>3, <1>11, <2>1, AtAhead
<1>15. EndAt(disk, todo) = y
  <2> HIDE DEF S, y, t1, t2
  <2> QED
    BY <1>13, <1>14, AheadJoined
<1>16. y.super = "clean" /\ InSync(Loaded(BlankTables), y)
  <2>1. y.inode = blank.inode /\ y.dir = blank.dir /\ y.map = blank.map
    BY <1>7, <1>9 DEF Carries
  <2> HIDE DEF y
  <2> QED
    BY <1>5, <1>11, <2>1, BlankHealthy
<1> HIDE DEF o, y, todo
<1>17. o.kind \notin PathKinds /\ o.kind # "fdwrite" /\ ~Marked(o)
  BY <1>6 DEF PathKinds, Marked
<1>18. Planned(o, disk, h)
  BY <1>6, <1>15, <1>16, <1>17 DEF Planned, Alike, Achieved
<1> QED
  BY <1>6, <1>18 DEF o

-----------------------------------------------------------------------------
(* Repairing only drops entries of inodes that are not in use, so what a   *)
(* path finds in use it finds afterwards.                                  *)

Dropped(a, old, new) == new = old \/ (new = FreeEntry /\ ~Used(a, old.inode))

Pruned(a, b) ==
    /\ b.inode = a.inode /\ b.map = a.map
    /\ \A d \in Directories(a), s \in Slots :
          Dropped(a, EntriesOf(a, a.data, d)[s], EntriesOf(b, b.data, d)[s])
    /\ \A i \in Inodes : a.inode[i].type = "file" => \A k \in Extent(a, i) : b.data[k].text = a.data[k].text

\* A name found before, in use, is found after.
LEMMA ChildPruned ==
    ASSUME NEW a \in Disk, NEW b \in Disk, Pruned(a, b), NEW d, NEW n \in Names,
           Used(a, Child(a, a.data, d, n))
    PROVE  Child(b, b.data, d, n) = Child(a, a.data, d, n)
<1> DEFINE e == EntriesOf(a, a.data, d)
           f == EntriesOf(b, b.data, d)
           s == LeastOf(Named(e, n))
<1>1. IsDirectory(a, d) /\ Named(e, n) # {} /\ Child(a, a.data, d, n) = e[s].inode
  BY VolumeSizes DEF Child, Used, Absent, Inodes
<1>2. IsDirectory(b, d) /\ d \in Directories(a)
  BY <1>1 DEF Pruned, IsDirectory, Directories
<1>3. Child(b, b.data, d, n) = IF Named(f, n) # {} THEN f[LeastOf(Named(f, n))].inode ELSE Absent
  BY <1>2 DEF Child
<1>4. \A r \in Slots : Dropped(a, e[r], f[r])
  BY <1>2 DEF Pruned
<1> HIDE DEF e, f
<1>5. s \in Named(e, n) /\ \A r \in Named(e, n) : s <= r
  <2>1. Named(e, n) \in SUBSET Nat
    BY VolumeSizes DEF Named, Slots
  <2> QED
    BY <1>1, <2>1, LeastNatural
<1>6. s \in Slots /\ e[s].name = n
  BY <1>5 DEF Named
<1> HIDE DEF s
<1>7. f[s] = e[s]
  BY <1>1, <1>4, <1>6 DEF Dropped
<1>8. Named(f, n) \subseteq Named(e, n)
  <2>1. FreeEntry.name # n
    BY NamesAssumption DEF FreeEntry, NoName
  <2> QED
    BY <1>4, <2>1 DEF Named, Dropped
<1>9. s \in Named(f, n)
  BY <1>6, <1>7 DEF Named
<1>10. LeastOf(Named(f, n)) = s
  <2>1. \A r \in Named(f, n) : s <= r /\ r \in Slots
    BY <1>5, <1>8 DEF Named
  <2> DEFINE S == Named(f, n)
             u == LeastOf(S)
  <2> HIDE DEF S
  <2>2. u \in S /\ \A r \in S : u <= r
    BY <1>9, <2>1 DEF LeastOf, S
  <2>3. u <= s /\ s <= u /\ u \in Slots
    BY <1>9, <2>1, <2>2 DEF S
  <2> HIDE DEF u
  <2>4. u = s
    BY <1>6, <2>3 DEF Slots
  <2> QED
    BY <2>4 DEF u, S
<1> QED
  BY <1>1, <1>3, <1>7, <1>9, <1>10

\* No name leads to the root directory.
LEMMA RootOnly ==
    ASSUME NEW x \in Disk, NEW q \in Seq(Names), Walk(x, x.data, q) = Root
    PROVE  q = <<>>
<1> SUFFICES ASSUME q # <<>> PROVE FALSE
  OBVIOUS
<1> DEFINE d == Walk(x, x.data, Front(q))
           n == Last(q)
<1>1. Child(x, x.data, d, n) = Root /\ n \in Names
  BY Fronts, WalkUnfolds
<1> HIDE DEF d, n
<1>2. Child(x, x.data, d, n) # Absent
  BY <1>1 DEF Root, Absent
<1>3. IsDirectory(x, d) /\ \E s \in Slots : /\ EntriesOf(x, x.data, d)[s].name = n
                                           /\ EntriesOf(x, x.data, d)[s].inode = Root
  BY <1>1, <1>2, ChildEntry
<1>4. d \in Inodes \union {Root}
  BY <1>3 DEF IsDirectory
<1>5. EntriesOf(x, x.data, d) \in [Slots -> Entry]
  BY <1>4, DiskFormed, EntriesFormed
<1>6. n # NoName
  BY <1>1, NamesAssumption DEF NoName
<1> QED
  BY <1>3, <1>5, <1>6 DEF Entry

LEMMA ViewsPruned ==
    ASSUME NEW a \in Disk, NEW b \in Disk, Pruned(a, b)
    PROVE  \A q \in Seq(Names) : Seen(a, q) # Nothing => Seen(b, q) = Seen(a, q)
<1> DEFINE P == {q \in Seq(Names) : q = <<>> \/ Used(a, Walk(a, a.data, q))}
<1>1. \A q \in P : Walk(b, b.data, q) = Walk(a, a.data, q)
  <2>1. ASSUME NEW q \in P, q # <<>>
        PROVE  /\ Front(q) \in P
               /\ LET v == Walk(a, a.data, Front(q))
                  IN  Child(b, b.data, v, Last(q)) = Child(a, a.data, v, Last(q))
    <3> DEFINE v == Walk(a, a.data, Front(q))
    <3>1. q \in Seq(Names) /\ Used(a, Walk(a, a.data, q)) /\ Front(q) \in Seq(Names) /\ Last(q) \in Names
      BY <2>1, Fronts
    <3>2. Walk(a, a.data, q) = Child(a, a.data, v, Last(q))
      BY <2>1, <3>1, WalkUnfolds
    <3>3. Child(b, b.data, v, Last(q)) = Child(a, a.data, v, Last(q))
      BY <3>1, <3>2, ChildPruned
    <3>4. Child(a, a.data, v, Last(q)) # Absent
      BY <3>1, <3>2, VolumeSizes DEF Used, Absent, Inodes
    <3>5. IsDirectory(a, v)
      BY <3>4, ChildEntry
    <3>6. v = Root => Front(q) = <<>>
      BY <3>1, RootOnly
    <3>7. Front(q) = <<>> \/ Used(a, v)
      BY <3>5, <3>6 DEF IsDirectory, Used
    <3> QED
      BY <3>1, <3>3, <3>7
  <2>2. P \in SUBSET Seq(Names)
    OBVIOUS
  <2> HIDE DEF P
  <2> QED
    BY <2>1, <2>2, WalksAgree
<1>2. SUFFICES ASSUME NEW q \in Seq(Names), Seen(a, q) # Nothing PROVE Seen(b, q) = Seen(a, q)
  OBVIOUS
<1> DEFINE j == Walk(a, a.data, q)
<1>3. Used(a, j) /\ Lookup(a, a.data, q) = j
  BY <1>2 DEF Seen, View, Lookup
<1>4. Walk(b, b.data, q) = j
  BY <1>1, <1>3
<1> HIDE DEF j, P
<1>5. b.inode = a.inode /\ Lookup(b, b.data, q) = j /\ j \in Inodes /\ j # Absent
  BY <1>3, <1>4, VolumeSizes DEF Pruned, Lookup, Used, Absent, Inodes
<1>6. a.inode[j].type = "file" => TextOf(b, b.data, j) = TextOf(a, a.data, j)
  <2> SUFFICES ASSUME a.inode[j].type = "file" PROVE TextOf(b, b.data, j) = TextOf(a, a.data, j)
    OBVIOUS
  <2>1. \A k \in Extent(a, j) : b.data[k].text = a.data[k].text
    BY <1>5 DEF Pruned
  <2>2. b.inode[j] = a.inode[j]
    BY <1>5
  <2> QED
    BY <1>5, <2>1, <2>2, DiskFormed, TextKept
<1> QED
  BY <1>3, <1>5, <1>6 DEF Seen, View

\* A write of a repair that is to give the root directory entries g.
Mends(g, a, b) == Pruned(a, b) /\ \A s \in Slots : b.dir[s] = a.dir[s] \/ b.dir[s] = g[s]
Before(dk, todo, k) == IF k = 1 THEN dk ELSE todo[k - 1].disk

\* The tables of a repair are those on the disk, with root entries of unused
\* inodes dropped at most, and each of its writes drops such entries only.
RepairTo(m, dk) ==
    /\ Sound(dk) /\ m.inode = dk.inode /\ m.map = dk.map
    /\ \A s \in Slots : Dropped(dk, dk.dir[s], m.dir[s])
RepairPlanned(o, dk) ==
    /\ RepairTo(o.end, dk)
    /\ \A k \in DOMAIN o.todo : Mends(o.end.dir, Before(dk, o.todo, k), o.todo[k].disk)

LEMMA RepairPlans ==
    ASSUME VolumeWithin(Memory), Repair, op'.sound
    PROVE  RepairPlanned(op', disk) /\ op'.kind = "repairing"
<1> DEFINE m1 == [mem EXCEPT !.dir = ValidOnly(mem, mem.dir)]
           c == Command("repairing", <<>>, mem, disk, <<>>, m1, TRUE, Nothing)
           rest == SetToSortSeq({i \in Inodes : mem.inode[i].type = "dir"}, <)
           sound == Matches(mem, disk) /\ Sound(disk)
           cleared == m1.dir # mem.dir
           o == op'
<1>1. o = [c EXCEPT !.sound = sound, !.cleared = cleared, !.rest = rest]
  BY DEF Repair
<1>2. mem \in Memory
  BY DEF VolumeWithin
<1>3. m1.inode = mem.inode /\ m1.map = mem.map /\ m1.dir = ValidOnly(mem, mem.dir)
  BY <1>2 DEF Memory
<1> HIDE DEF m1, rest, sound, cleared
<1>4. o.kind = "repairing" /\ o.todo = <<>> /\ o.end = m1 /\ (o.sound <=> sound)
  <2>1. sound \in BOOLEAN
    BY DEF sound, Matches, Sound
  <2> HIDE DEF o
  <2> QED
    BY <1>1, <2>1 DEF Command
<1>5. Matches(mem, disk) /\ Sound(disk)
  BY <1>4 DEF sound
<1>6. \A s \in Slots : m1.dir[s] = disk.dir[s] \/ (m1.dir[s] = FreeEntry /\ ~Used(disk, disk.dir[s].inode))
  BY <1>3, <1>5 DEF ValidOnly, Matches, Used
<1>7. RepairTo(m1, disk)
  BY <1>3, <1>5, <1>6 DEF RepairTo, Dropped, Matches
<1> HIDE DEF o
<1>8. RepairPlanned(o, disk)
  <2>1. \A k : k \notin DOMAIN o.todo
    BY <1>4
  <2> QED
    BY <1>4, <1>7, <2>1 DEF RepairPlanned
<1> QED
  BY <1>4, <1>8 DEF o

\* The sector of a directory is written without the entries of unused inodes.
LEMMA DirectoryMended ==
    ASSUME NEW dk \in Disk, NEW m \in Memory, RepairTo(m, dk), NEW i, CanFlushSubdir(m, i), NEW g
    PROVE  Mends(g, dk, PutEntries(dk, m, i, ValidOnly(m, EntriesOf(m, dk.data, i))))
<1> DEFINE e == EntriesOf(m, dk.data, i)
           f == ValidOnly(m, e)
           x == PutEntries(dk, m, i, f)
           k0 == dk.inode[i].start
<1>1. Sound(dk) /\ m.inode = dk.inode /\ m.map = dk.map
  BY DEF RepairTo
<1>2. i \in Inodes /\ dk.inode[i].type = "dir" /\ dk.inode[i].len # 0
  BY <1>1 DEF CanFlushSubdir
<1>3. k0 \in Extent(dk, i) /\ k0 \in Sectors
  BY <1>2, DiskFormed, FirstSector
<1>4. /\ x.inode = dk.inode /\ x.dir = dk.dir /\ x.map = dk.map
      /\ x.data[k0] = DirSector(f) /\ \A k : k # k0 => x.data[k] = dk.data[k]
  BY <1>1, <1>3 DEF PutEntries, Disk
<1>5. i # Root
  BY <1>2, VolumeSizes DEF Inodes, Root
<1>6. e = dk.data[k0].entries /\ EntriesOf(dk, dk.data, i) = e
  BY <1>1, <1>2, <1>5 DEF EntriesOf
<1> HIDE DEF f, x, e
<1>7. EntriesOf(x, x.data, i) = f
  BY <1>2, <1>4, <1>5, SectorRead DEF EntriesOf
<1>8. \A s \in Slots : Dropped(dk, e[s], f[s])
  BY <1>1 DEF f, ValidOnly, Dropped, Used
<1>9. \A j \in Inodes \ {i} : k0 \notin Extent(dk, j)
  BY <1>1, <1>2, <1>3 DEF Sound
<1>10. ASSUME NEW d \in Directories(dk), d # i
       PROVE  EntriesOf(x, x.data, d) = EntriesOf(dk, dk.data, d)
  <2>1. CASE d = Root
    BY <1>4, <2>1 DEF EntriesOf
  <2>2. CASE d # Root
    <3>1. d \in Inodes \ {i}
      BY <1>10, <2>2 DEF Directories
    <3>2. dk.inode[d].len # 0 => dk.inode[d].start # k0
      BY <1>9, <3>1, DiskFormed, FirstSector
    <3> QED
      BY <1>4, <2>2, <3>2 DEF EntriesOf
  <2> QED
    BY <2>1, <2>2
<1>11. \A d \in Directories(dk), s \in Slots :
          Dropped(dk, EntriesOf(dk, dk.data, d)[s], EntriesOf(x, x.data, d)[s])
  BY <1>6, <1>7, <1>8, <1>10 DEF Dropped
<1>12. \A j \in Inodes : dk.inode[j].type = "file" => \A k \in Extent(dk, j) : x.data[k].text = dk.data[k].text
  BY <1>2, <1>4, <1>9
<1>13. Mends(g, dk, x)
  BY <1>4, <1>11, <1>12 DEF Mends, Pruned
<1> QED
  BY <1>13 DEF x, f, e

LEMMA RepairDirectoryPlans ==
    ASSUME VolumeWithin(Memory), RepairPlanned(op, disk), RepairDirectory
    PROVE  RepairPlanned(op', disk) /\ op'.kind = op.kind
<1> DEFINE i == Head(op.rest)
           e == EntriesOf(op.end, disk.data, i)
           f == ValidOnly(op.end, e)
           x == PutEntries(disk, op.end, i, f)
           todo == IF f # e /\ CanFlushSubdir(op.end, i) THEN At(op.end, <<x>>) ELSE <<>>
           o == op'
<1>1. o = [op EXCEPT !.rest = Tail(@), !.todo = todo]
  BY DEF RepairDirectory
<1>2. CommandWithin(op, Memory) /\ disk \in Disk /\ op.end \in Memory
  BY DEF VolumeWithin, CommandWithin
<1> HIDE DEF todo
<1>3. o.todo = todo /\ o.end = op.end /\ o.kind = op.kind
  BY <1>1, <1>2 DEF CommandWithin
<1> HIDE DEF o
<1>4. RepairTo(op.end, disk)
  BY DEF RepairPlanned
<1>5. \A k \in DOMAIN todo : Mends(op.end.dir, Before(disk, todo, k), todo[k].disk)
  <2>1. CASE f # e /\ CanFlushSubdir(op.end, i)
    <3>1. Mends(op.end.dir, disk, x)
      BY <1>2, <1>4, <2>1, DirectoryMended
    <3> HIDE DEF x
    <3>2. todo = At(op.end, <<x>>)
      BY <2>1 DEF todo
    <3>3. DOMAIN todo = {1} /\ todo[1].disk = x
      BY <3>2 DEF At
    <3> QED
      BY <3>1, <3>3 DEF Before
  <2>2. CASE ~(f # e /\ CanFlushSubdir(op.end, i))
    <3>1. todo = <<>>
      BY <2>2 DEF todo
    <3> QED
      BY <3>1
  <2> QED
    BY <2>1, <2>2
<1>6. RepairPlanned(o, disk)
  BY <1>3, <1>4, <1>5 DEF RepairPlanned
<1> QED
  BY <1>3, <1>6 DEF o

\* Disks on the way of the root directory from what it was on dk to g.
OnTheWay(dk, g, a) ==
    /\ a.inode = dk.inode /\ a.map = dk.map /\ a.data = dk.data
    /\ \A s \in Slots : a.dir[s] = dk.dir[s] \/ a.dir[s] = g[s]

LEMMA WayMended ==
    ASSUME NEW dk, NEW m, RepairTo(m, dk), NEW a, NEW b, OnTheWay(dk, m.dir, a), OnTheWay(dk, m.dir, b),
           \A s \in Slots : a.dir[s] = m.dir[s] => b.dir[s] = m.dir[s]
    PROVE  Mends(m.dir, a, b)
<1>1. b.inode = a.inode /\ b.map = a.map /\ b.data = a.data
  BY DEF OnTheWay
<1>2. \A v : Used(a, v) <=> Used(dk, v)
  BY DEF OnTheWay, Used
<1>3. \A s \in Slots : Dropped(dk, dk.dir[s], m.dir[s])
  BY DEF RepairTo
<1>4. \A s \in Slots : b.dir[s] = a.dir[s] \/ (a.dir[s] = dk.dir[s] /\ b.dir[s] = m.dir[s])
  BY DEF OnTheWay
<1>5. \A s \in Slots : Dropped(a, a.dir[s], b.dir[s])
  BY <1>2, <1>3, <1>4 DEF Dropped
<1>6. ASSUME NEW d \in Directories(a), NEW s \in Slots
      PROVE  Dropped(a, EntriesOf(a, a.data, d)[s], EntriesOf(b, b.data, d)[s])
  <2>1. CASE d = Root
    BY <1>5, <2>1 DEF EntriesOf
  <2>2. CASE d # Root
    BY <1>1, <2>2 DEF EntriesOf, Dropped
  <2> QED
    BY <2>1, <2>2
<1> QED
  BY <1>1, <1>4, <1>6 DEF Mends, Pruned

\* The disks of a flush of the root directory, from the first on.
RootFlushed(dk, m, k) ==
    LET changed == {s \in Slots : m.dir[s] # dk.dir[s]}
    IN  [dk EXCEPT !.dir = [s \in Slots |-> IF Rank(changed, s) <= k THEN m.dir[s] ELSE @[s]]]

LEMMA RootMended ==
    ASSUME NEW dk \in Disk, NEW m \in Memory, RepairTo(m, dk)
    PROVE  LET w == FlushDirectory(dk, m)
           IN  /\ w \in Seq(Disk)
               /\ \A k \in DOMAIN w : OnTheWay(dk, m.dir, w[k])
               /\ \A k \in DOMAIN w : Mends(m.dir, IF k = 1 THEN dk ELSE w[k - 1], w[k])
<1> DEFINE changed == {s \in Slots : m.dir[s] # dk.dir[s]}
           n == Cardinality(changed)
           one(k) == RootFlushed(dk, m, k)
           w == FlushDirectory(dk, m)
<1>1. w = [k \in 1 .. n |-> one(k)] /\ n \in Nat
  BY Finite DEF FlushDirectory, RootFlushed
<1>2. \A s \in Slots : Rank(changed, s) \in Nat
  <2>1. \A s \in Slots : {j \in changed : j <= s} \in SUBSET Slots
    OBVIOUS
  <2> QED
    BY <2>1, Finite DEF Rank
<1>3. ASSUME NEW k
      PROVE  /\ one(k).inode = dk.inode /\ one(k).map = dk.map /\ one(k).data = dk.data
             /\ \A s \in Slots : one(k).dir[s] = IF Rank(changed, s) <= k THEN m.dir[s] ELSE dk.dir[s]
  BY DEF RootFlushed, Disk
<1> HIDE DEF one, n, w, changed
<1>4. \A k : OnTheWay(dk, m.dir, one(k))
  BY <1>3 DEF OnTheWay
<1>5. OnTheWay(dk, m.dir, dk)
  BY DEF OnTheWay
<1>6. w \in Seq(Disk)
  BY FlushesWithin DEF w
<1>7. ASSUME NEW k \in DOMAIN w
      PROVE  Mends(m.dir, IF k = 1 THEN dk ELSE w[k - 1], w[k])
  <2>1. k \in 1 .. n /\ w[k] = one(k)
    BY <1>1, <1>7
  <2>2. CASE k = 1
    <3>1. \A s \in Slots : dk.dir[s] = m.dir[s] => one(k).dir[s] = m.dir[s]
      BY <1>3
    <3> QED
      BY <1>4, <1>5, <2>1, <2>2, <3>1, WayMended
  <2>3. CASE k # 1
    <3>1. k - 1 \in 1 .. n /\ w[k - 1] = one(k - 1)
      BY <1>1, <2>1, <2>3
    <3> DEFINE a == one(k - 1)
               b == one(k)
    <3>2. \A s \in Slots : Rank(changed, s) <= k - 1 => Rank(changed, s) <= k
      BY <1>1, <1>2, <2>1
    <3>3. \A s \in Slots : a.dir[s] = m.dir[s] => b.dir[s] = m.dir[s]
      BY <1>3, <3>2
    <3>4. OnTheWay(dk, m.dir, a) /\ OnTheWay(dk, m.dir, b)
      BY <1>4
    <3> HIDE DEF a, b
    <3>5. Mends(m.dir, a, b)
      BY <3>3, <3>4, WayMended
    <3> QED
      BY <2>1, <2>3, <3>1, <3>5 DEF a, b
  <2> QED
    BY <2>2, <2>3
<1>8. \A k \in DOMAIN w : OnTheWay(dk, m.dir, w[k])
  BY <1>1, <1>4
<1> QED
  BY <1>6, <1>7, <1>8 DEF w

LEMMA RepairTablesPlans ==
    ASSUME VolumeWithin(Memory), RepairPlanned(op, disk), RepairTables
    PROVE  RepairPlanned(op', disk) /\ op'.kind = "repair"
<1> DEFINE m == op.end
           a == FlushBitmap(disk, m)
           d0 == EndOf(disk, a)
           b == IF op.cleared THEN FlushDirectory(d0, m) ELSE <<>>
           y == EndOf(d0, b)
           d1 == Flagged(y, "clean")
           todo == At(m, a \o b \o <<d1>>)
           o == op'
<1>1. o = [op EXCEPT !.kind = "repair", !.todo = todo]
  BY DEF RepairTables
<1>2. CommandWithin(op, Memory) /\ disk \in Disk /\ m \in Memory
  BY DEF VolumeWithin, CommandWithin
<1>3. RepairTo(m, disk)
  BY DEF RepairPlanned
<1> HIDE DEF m
<1>4. a = <<>>
  BY <1>3 DEF FlushBitmap, RepairTo
<1>5. d0 = disk
  BY <1>4 DEF EndOf
<1>6. b = IF op.cleared THEN FlushDirectory(disk, m) ELSE <<>>
  BY <1>5
<1>d. y = EndOf(disk, b)
  BY <1>5
<1> HIDE DEF a, d0
<1> DEFINE Prev(v, k) == IF k = 1 THEN disk ELSE v[k - 1]
<1>7. /\ b \in Seq(Disk)
      /\ \A k \in DOMAIN b : OnTheWay(disk, m.dir, b[k]) /\ Mends(m.dir, Prev(b, k), b[k])
  <2>1. CASE op.cleared
    BY <1>2, <1>3, <1>6, <2>1, RootMended
  <2>2. CASE ~op.cleared
    <3>1. b = <<>>
      BY <1>6, <2>2
    <3> HIDE DEF b, Prev
    <3>2. b \in Seq(Disk) /\ \A k : k \notin DOMAIN b
      BY <3>1
    <3> QED
      BY <3>2
  <2> QED
    BY <2>1, <2>2
<1> HIDE DEF b
<1>8. y \in Disk /\ OnTheWay(disk, m.dir, y) /\ y = Prev(b, Len(b) + 1)
  <2>1. CASE b = <<>>
    <3>1. y = disk
      BY <1>d, <2>1 DEF EndOf
    <3> QED
      BY <1>2, <2>1, <3>1 DEF OnTheWay
  <2>2. CASE b # <<>>
    <3>1. Len(b) \in DOMAIN b /\ Len(b) + 1 # 1 /\ Len(b) + 1 - 1 = Len(b)
      BY <1>7, <2>2
    <3>2. y = b[Len(b)]
      BY <1>d, <2>2 DEF EndOf, Last
    <3> HIDE DEF y
    <3> QED
      BY <1>7, <3>1, <3>2
  <2> QED
    BY <2>1, <2>2
<1> HIDE DEF y
<1>9. Mends(m.dir, y, d1) /\ d1 \in Disk
  <2>1. d1 \in Disk /\ d1.inode = y.inode /\ d1.dir = y.dir /\ d1.map = y.map /\ d1.data = y.data
    BY <1>8, FlagWithin DEF Flagged, Disk
  <2> HIDE DEF d1
  <2>2. OnTheWay(disk, m.dir, d1)
    BY <1>8, <2>1 DEF OnTheWay
  <2>3. \A s \in Slots : y.dir[s] = m.dir[s] => d1.dir[s] = m.dir[s]
    BY <2>1
  <2> QED
    BY <1>3, <1>8, <2>1, <2>2, <2>3, WayMended
<1> HIDE DEF d1
<1> DEFINE w == b \o <<d1>>
<1>10. /\ w \in Seq(Disk) /\ Len(w) = Len(b) + 1 /\ w[Len(b) + 1] = d1 /\ Len(b) \in Nat
       /\ \A k \in 1 .. Len(b) : w[k] = b[k]
  BY <1>7, <1>9
<1>11. todo = At(m, w)
  <2>1. a \o b \o <<d1>> = w
    BY <1>4, <1>7, <1>9
  <2> HIDE DEF w
  <2> QED
    BY <2>1
<1> HIDE DEF w, todo
<1>12. ASSUME NEW k \in DOMAIN w
       PROVE  Mends(m.dir, Prev(w, k), w[k])
  <2>1. k \in 1 .. Len(b) + 1
    BY <1>10
  <2>2. CASE k = Len(b) + 1
    <3>1. Prev(w, k) = Prev(b, Len(b) + 1)
      BY <1>10, <2>2
    <3> HIDE DEF Prev
    <3> QED
      BY <1>8, <1>9, <1>10, <2>2, <3>1
  <2>3. CASE k # Len(b) + 1
    <3>1. k \in DOMAIN b /\ w[k] = b[k]
      BY <1>7, <1>10, <2>1, <2>3
    <3>2. Prev(w, k) = Prev(b, k)
      BY <1>10, <3>1
    <3> HIDE DEF Prev
    <3> QED
      BY <1>7, <3>1, <3>2
  <2> QED
    BY <2>2, <2>3
<1>13. ASSUME NEW k \in DOMAIN todo
       PROVE  Mends(m.dir, Before(disk, todo, k), todo[k].disk)
  <2>1. k \in DOMAIN w /\ todo[k].disk = w[k]
    BY <1>11, <1>13 DEF At
  <2>2. Before(disk, todo, k) = Prev(w, k)
    <3>1. k # 1 => k - 1 \in DOMAIN w
      BY <1>10, <2>1
    <3> QED
      BY <1>11, <3>1 DEF Before, At
  <2> HIDE DEF Prev
  <2> QED
    BY <1>12, <2>1, <2>2
<1>14. o.todo = todo /\ o.end = m /\ o.kind = "repair"
  BY <1>1, <1>2 DEF CommandWithin, m
<1> HIDE DEF o
<1>15. RepairPlanned(o, disk)
  BY <1>3, <1>13, <1>14 DEF RepairPlanned
<1> QED
  BY <1>14, <1>15 DEF o

-----------------------------------------------------------------------------
(* The commands keep to their plan.                                        *)

\* The first write of a command done, the others are left.
LEMMA OneDone ==
    ASSUME NEW M, NEW todo \in Writing(M), todo # <<>>
    PROVE  LET x == Head(todo).disk
               rest == Tail(todo)
           IN  /\ 1 \in DOMAIN todo /\ x = todo[1].disk
               /\ \A k \in DOMAIN rest : k + 1 \in DOMAIN todo /\ k \in Nat \ {0} /\ rest[k] = todo[k + 1]
               /\ \A v : EndAt(x, rest) = EndAt(v, todo)
<1> DEFINE E == [mem : M, disk : Disk]
           rest == Tail(todo)
<1>1. todo \in Seq(E)
  BY DEF Writing
<1> HIDE DEF E
<1>2. Len(todo) \in Nat /\ Len(todo) # 0
  BY <1>1
<1>3. rest \in Seq(E) /\ Len(rest) = Len(todo) - 1 /\ \A k \in 1 .. Len(rest) : rest[k] = todo[k + 1]
  BY <1>1
<1>4. Head(todo) = todo[1]
  BY <1>1
<1> HIDE DEF rest
<1>5. \A k \in DOMAIN rest : k + 1 \in DOMAIN todo /\ k \in Nat \ {0} /\ rest[k] = todo[k + 1]
  BY <1>1, <1>2, <1>3
<1>6. ASSUME NEW v PROVE EndAt(Head(todo).disk, rest) = EndAt(v, todo)
  <2>1. EndAt(v, todo) = todo[Len(todo)].disk
    BY DEF EndAt, Last
  <2>2. CASE rest = <<>>
    <3>1. Len(todo) = 1
      BY <1>2, <1>3, <2>2
    <3> QED
      BY <1>4, <2>1, <2>2, <3>1 DEF EndAt
  <2>3. CASE rest # <<>>
    <3>1. Len(rest) \in 1 .. Len(rest) /\ Len(rest) + 1 = Len(todo)
      BY <1>2, <1>3, <2>3
    <3>2. EndAt(Head(todo).disk, rest) = rest[Len(rest)].disk
      BY <2>3 DEF EndAt, Last
    <3> QED
      BY <1>3, <2>1, <3>1, <3>2
  <2> QED
    BY <2>2, <2>3
<1> QED
  BY <1>1, <1>2, <1>4, <1>5, <1>6 DEF rest

\* Two commands that differ in what is left to write.
Continues(o2, o, todo) ==
    /\ o2.todo = todo /\ o2.kind = o.kind /\ o2.path = o.path /\ o2.ok = o.ok
    /\ o2.end = o.end /\ o2.want = o.want /\ o2.sound = o.sound

LEMMA PlanContinues ==
    ASSUME NEW dk, NEW i, NEW M, NEW o, o.todo \in Writing(M), o.todo # <<>>, Planned(o, dk, i),
           NEW o2, Continues(o2, o, Tail(o.todo))
    PROVE  Planned(o2, Head(o.todo).disk, i)
<1> DEFINE todo == o.todo
           x == Head(todo).disk
           rest == Tail(todo)
<1>1. /\ 1 \in DOMAIN todo /\ x = todo[1].disk
      /\ \A k \in DOMAIN rest : k + 1 \in DOMAIN todo /\ rest[k] = todo[k + 1]
      /\ EndAt(x, rest) = EndAt(dk, todo)
  BY OneDone
<1>2. /\ \A k \in DOMAIN todo : Alike(o, i, dk, todo[k].disk) /\ (Marked(o) => Tidy(todo[k].disk))
      /\ o.ok => Achieved(o, i, EndAt(dk, todo))
  BY DEF Planned
<1>3. /\ o2.todo = rest /\ o2.kind = o.kind /\ o2.path = o.path /\ o2.ok = o.ok
      /\ o2.end = o.end /\ o2.want = o.want
  BY DEF Continues
<1> HIDE DEF todo, x, rest
<1>4. Alike(o, i, dk, x) /\ (Marked(o) => Tidy(x))
  BY <1>1, <1>2
<1>5. Marked(o2) <=> Marked(o)
  BY <1>3 DEF Marked
<1>6. ASSUME NEW k \in DOMAIN rest
      PROVE  Alike(o2, i, x, rest[k].disk) /\ (Marked(o2) => Tidy(rest[k].disk))
  <2> DEFINE z == rest[k].disk
  <2>1. Alike(o, i, dk, z) /\ (Marked(o) => Tidy(z))
    BY <1>1, <1>2, <1>6
  <2> HIDE DEF z
  <2>2. Alike(o2, i, x, z)
    BY <1>3, <1>4, <2>1 DEF Alike
  <2> QED
    BY <1>5, <2>1, <2>2 DEF z
<1>7. o2.ok => Achieved(o2, i, EndAt(x, rest))
  BY <1>1, <1>2, <1>3 DEF Achieved
<1> QED
  BY <1>3, <1>4, <1>5, <1>6, <1>7 DEF Planned, x, todo

LEMMA MendsRepair ==
    ASSUME NEW m, NEW a, NEW b, RepairTo(m, a), Mends(m.dir, a, b)
    PROVE  RepairTo(m, b)
<1>1. b.inode = a.inode /\ b.map = a.map /\ Sound(b)
  BY SoundSame DEF RepairTo, Mends, Pruned
<1>2. \A v : Used(b, v) <=> Used(a, v)
  BY <1>1 DEF Used
<1>3. \A s \in Slots : Dropped(b, b.dir[s], m.dir[s])
  BY <1>2 DEF RepairTo, Mends, Dropped
<1> QED
  BY <1>1, <1>3 DEF RepairTo

LEMMA RepairContinues ==
    ASSUME NEW dk, NEW M, NEW o, o.todo \in Writing(M), o.todo # <<>>, RepairPlanned(o, dk),
           NEW o2, o2.end = o.end
    PROVE  /\ Pruned(dk, Head(o.todo).disk)
           /\ o2.todo = Tail(o.todo) => RepairPlanned(o2, Head(o.todo).disk)
           /\ o2.todo = <<>> => RepairPlanned(o2, dk) /\ RepairPlanned(o2, Head(o.todo).disk)
<1> DEFINE todo == o.todo
           x == Head(todo).disk
           rest == Tail(todo)
           g == o.end.dir
<1>1. /\ 1 \in DOMAIN todo /\ x = todo[1].disk
      /\ \A k \in DOMAIN rest : k + 1 \in DOMAIN todo /\ k \in Nat \ {0} /\ rest[k] = todo[k + 1]
  BY OneDone
<1>2. RepairTo(o.end, dk) /\ \A k \in DOMAIN todo : Mends(g, Before(dk, todo, k), todo[k].disk)
  BY DEF RepairPlanned
<1> HIDE DEF todo, x, rest
<1>3. Mends(g, dk, x)
  BY <1>1, <1>2 DEF Before
<1>4. RepairTo(o.end, x)
  BY <1>2, <1>3, MendsRepair
<1>5. ASSUME NEW k \in DOMAIN rest
      PROVE  Mends(g, Before(x, rest, k), rest[k].disk)
  <2>1. k + 1 \in DOMAIN todo /\ rest[k] = todo[k + 1] /\ k \in Nat \ {0} /\ k + 1 # 1 /\ k + 1 - 1 = k
    BY <1>1, <1>5
  <2>2. Before(x, rest, k) = Before(dk, todo, k + 1)
    <3>1. Before(dk, todo, k + 1) = todo[k].disk
      BY <2>1 DEF Before
    <3>2. CASE k = 1
      BY <1>1, <3>1, <3>2 DEF Before
    <3>3. CASE k # 1
      <4>1. k - 1 \in 1 .. Len(rest) /\ k - 1 \in DOMAIN rest
        <5>1. rest \in Seq([mem : M, disk : Disk])
          BY HeadWithin DEF rest, todo, Writing
        <5> QED
          BY <1>5, <2>1, <3>3, <5>1
      <4>2. rest[k - 1] = todo[k]
        BY <1>1, <2>1, <4>1
      <4> QED
        BY <3>1, <3>3, <4>2 DEF Before
    <3> QED
      BY <3>2, <3>3
  <2> QED
    BY <1>2, <2>1, <2>2
<1>6. \A k : k \notin DOMAIN <<>>
  OBVIOUS
<1> QED
  BY <1>2, <1>3, <1>4, <1>5, <1>6, ZenonT(60) DEF RepairPlanned, Mends, x, rest, todo

\* What kind of command has started, and when it counts as started on a healthy
\* volume.
Starting(o, kind, m, dk) == o.kind = kind /\ (o.sound <=> InSync(m, dk))

LEMMA CommandStarting ==
    ASSUME NEW kind, NEW p, NEW m, NEW dk, NEW todo, NEW end, NEW ok, NEW want
    PROVE  Starting(Command(kind, p, m, dk, todo, end, ok, want), kind, m, dk)
BY DEF Command, Starting

LEMMA WriteStarting ==
    ASSUME NEW kind, NEW p, NEW n, WriteFile(kind, p, n)
    PROVE  /\ op' = op \/ Starting(op', kind, mem, disk)
           /\ disk' = disk /\ fd' = fd
<1>1. CASE Len(p) = 1
  <2>1. WriteRoot(kind, p, n)
    BY <1>1 DEF WriteFile
  <2>2. disk' = disk /\ fd' = fd /\ (op' = op \/ \E todo, end, want : op' = Command(kind, p, mem, disk, todo, end, TRUE, want))
    BY <2>1, ZenonT(60) DEF WriteRoot
  <2> QED
    BY <2>2, CommandStarting
<1>2. CASE Len(p) # 1
  <2>1. WriteBelow(kind, p, n)
    BY <1>2 DEF WriteFile
  <2>2. Starting(op', kind, mem, disk)
    BY <2>1, ZenonT(60) DEF WriteBelow, Command, Starting
  <2>3. disk' = disk /\ fd' = fd
    BY <2>1 DEF WriteBelow
  <2> QED
    BY <2>2, <2>3
<1> QED
  BY <1>1, <1>2

LEMMA MkdirStarting ==
    ASSUME NEW goal, NEW p, NEW m, NEW dk
    PROVE  Starting(MkdirSingle(goal, p, m, dk), "mkdir", m, dk)
BY DEF MkdirSingle, Command, Starting

LEMMA RemoveStarting ==
    ASSUME NEW p, RemovePath(p)
    PROVE  Starting(op', "remove", mem, disk) /\ disk' = disk /\ fd' = fd
<1>1. disk' = disk /\ fd' = fd /\ \E todo, end, ok, want : op' = Command("remove", p, mem, disk, todo, end, ok, want)
  BY DEF RemovePath
<1> QED
  BY <1>1, CommandStarting

LEMMA FdWriteStarting ==
    ASSUME NEW n, FdWrite(n)
    PROVE  Starting(op', "fdwrite", mem, disk) /\ disk' = disk /\ fd' = fd
<1>1. /\ disk' = disk /\ fd' = fd
      /\ \E todo, end, ok, want, off :
            LET c == Command("fdwrite", <<>>, mem, disk, todo, end, ok, want)
            IN  op' = c \/ op' = [c EXCEPT !.off = off]
  BY ZenonT(60) DEF FdWrite
<1> QED
  BY <1>1 DEF Command, Starting

\* A command that started on a healthy volume has a plan and keeps to it.
Planning(o, dk, i) ==
    o.sound => \/ o.kind \in {"repairing", "repair"} /\ RepairPlanned(o, dk)
               \/ o.kind \in PathKinds \union {"fdwrite", "format"} /\ Planned(o, dk, i)
Progress == VolumeWithin(Memory) /\ Planning(op, disk, fd.inode)

LEMMA PlanMade ==
    ASSUME NEW o, NEW kind \in PathKinds \union {"fdwrite", "format"}, NEW m, NEW dk, Starting(o, kind, m, dk),
           NEW i, InSync(m, dk) => Planned(o, dk, i)
    PROVE  Planning(o, dk, i)
BY DEF Starting, Planning

LEMMA IdlePlans ==
    \A dk, i : Planning(Idle, dk, i)
BY DEF Planning, Idle

LEMMA WritePlans ==
    ASSUME VolumeWithin(Memory), op = Idle, NEW kind \in {"write", "open"}, NEW p \in Paths, NEW n \in Nat,
           WriteFile(kind, p, n)
    PROVE  Planning(op', disk', fd'.inode)
<1>1. kind \in PathKinds \union {"fdwrite", "format"}
  BY DEF PathKinds
<1>2. (op' = op \/ Starting(op', kind, mem, disk)) /\ disk' = disk /\ fd' = fd
  BY WriteStarting
<1>3. p \in Seq(Names) /\ p # <<>>
  BY CommandsAssumption
<1>4. Len(p) = 1 \/ (Len(p) > 1 /\ Len(p) # 1)
  BY <1>3, SMTT(30)
<1>5. ASSUME InSync(mem, disk) PROVE op' = op \/ Planned(op', disk, fd.inode)
  <2>1. CASE Len(p) = 1
    <3>1. WriteRoot(kind, p, n)
      BY <2>1 DEF WriteFile
    <3> QED
      BY <1>5, <2>1, <3>1, WriteRootPlans
  <2>2. CASE Len(p) > 1 /\ Len(p) # 1
    <3>1. WriteBelow(kind, p, n)
      BY <2>2 DEF WriteFile
    <3> QED
      BY <1>5, <2>2, <3>1, WriteBelowPlans
  <2> QED
    BY <1>4, <2>1, <2>2
<1>6. CASE op' = op
  BY <1>6, IdlePlans
<1>7. CASE op' # op
  <2>1. Planning(op', disk, fd.inode)
    BY <1>1, <1>2, <1>5, <1>7, PlanMade
  <2> QED
    BY <1>2, <2>1
<1> QED
  BY <1>6, <1>7

LEMMA MkdirPlans ==
    ASSUME VolumeWithin(Memory), NEW p \in Paths, Mkdir(p)
    PROVE  Planning(op', disk', fd'.inode)
<1> DEFINE q == NextPrefix(mem, disk, p)
           kind == "mkdir"
<1>1. p \in Seq(Names) /\ mem \in Memory /\ disk \in Disk /\ kind \in PathKinds \union {"fdwrite", "format"}
  BY CommandsAssumption DEF VolumeWithin, PathKinds
<1>2. MissingPrefixes(mem, disk, p) # {} /\ CanMkdir(mem, disk, q)
  BY DEF Mkdir
<1>3. op' = MkdirSingle(p, q, mem, disk) /\ disk' = disk /\ fd' = fd
  BY DEF Mkdir
<1>4. q \in Seq(Names) /\ q # <<>>
  BY <1>1, <1>2, PrefixFound
<1> HIDE DEF q
<1>5. Starting(op', kind, mem, disk)
  BY <1>3, MkdirStarting
<1>6. InSync(mem, disk) => Planned(op', disk, fd.inode)
  BY <1>1, <1>2, <1>3, <1>4, MkdirSinglePlans
<1> HIDE DEF kind
<1> QED
  BY <1>1, <1>3, <1>5, <1>6, PlanMade

LEMMA RemovePlans ==
    ASSUME VolumeWithin(Memory), NEW p \in Paths, RemovePath(p)
    PROVE  Planning(op', disk', fd'.inode)
<1> DEFINE kind == "remove"
<1>1. kind \in PathKinds \union {"fdwrite", "format"}
  BY DEF PathKinds
<1>2. Starting(op', kind, mem, disk) /\ disk' = disk /\ fd' = fd
  BY RemoveStarting
<1>3. InSync(mem, disk) => Planned(op', disk, fd.inode)
  BY RemovePathPlans
<1> HIDE DEF kind
<1> QED
  BY <1>1, <1>2, <1>3, PlanMade

LEMMA FdPlans ==
    ASSUME VolumeWithin(Memory), NEW n \in FdSizes, FdWrite(n)
    PROVE  Planning(op', disk', fd'.inode)
<1> DEFINE kind == "fdwrite"
<1>1. kind \in PathKinds \union {"fdwrite", "format"}
  OBVIOUS
<1>2. Starting(op', kind, mem, disk) /\ disk' = disk /\ fd' = fd
  BY FdWriteStarting
<1>3. InSync(mem, disk) => Planned(op', disk, fd.inode)
  BY FdWritePlans
<1> HIDE DEF kind
<1> QED
  BY <1>1, <1>2, <1>3, PlanMade

LEMMA OtherStarts ==
    ASSUME VolumeWithin(Memory), Format \/ Repair
    PROVE  Planning(op', disk', fd'.inode)
<1>1. CASE Format
  <2>1. disk' = disk /\ fd' = fd
    BY <1>1 DEF Format
  <2>2. Planned(op', disk, fd.inode) /\ op'.kind = "format"
    BY <1>1, FormatPlans
  <2> QED
    BY <2>1, <2>2 DEF Planning
<1>2. CASE Repair
  <2>1. disk' = disk /\ fd' = fd
    BY <1>2 DEF Repair
  <2>2. op'.sound => RepairPlanned(op', disk) /\ op'.kind = "repairing"
    BY <1>2, RepairPlans
  <2> QED
    BY <2>1, <2>2 DEF Planning
<1> QED
  BY <1>1, <1>2

\* The next write of a command leaves it with the rest of its plan.
LEMMA StepPlans ==
    ASSUME Progress, Step
    PROVE  Planning(op', disk', fd'.inode)
<1>1. op.todo \in Writing(Memory) /\ op.todo # <<>>
  BY DEF Progress, VolumeWithin, CommandWithin, Step
<1>2. disk' = Head(op.todo).disk /\ fd' = fd
  BY DEF Step
<1>3. Continues(op', op, Tail(op.todo)) /\ op'.todo = Tail(op.todo)
  BY DEF Progress, VolumeWithin, CommandWithin, Step, Continues
<1>4. op'.kind = op.kind /\ op'.sound = op.sound /\ op'.end = op.end
  BY <1>3 DEF Continues
<1>5. CASE op.sound /\ op.kind \in {"repairing", "repair"} /\ RepairPlanned(op, disk)
  <2>1. RepairPlanned(op', disk')
    BY <1>1, <1>2, <1>3, <1>4, <1>5, RepairContinues
  <2> QED
    BY <1>4, <1>5, <2>1 DEF Planning
<1>6. CASE /\ op.sound /\ op.kind \in PathKinds \union {"fdwrite", "format"}
           /\ Planned(op, disk, fd.inode)
  <2>1. Planned(op', disk', fd'.inode)
    BY <1>1, <1>2, <1>3, <1>6, PlanContinues
  <2> QED
    BY <1>4, <1>6, <2>1 DEF Planning
<1>7. CASE ~op.sound
  BY <1>4, <1>7 DEF Planning
<1> QED
  BY <1>5, <1>6, <1>7 DEF Progress, Planning

\* A write error ends every command but a repair, which goes on.
LEMMA ErrorPlans ==
    ASSUME Progress, WriteError
    PROVE  Planning(op', disk', fd'.inode)
<1>1. op.todo \in Writing(Memory) /\ op.todo # <<>>
  BY DEF Progress, VolumeWithin, CommandWithin, WriteError
<1>2. disk' \in {disk, Head(op.todo).disk}
  BY DEF WriteError
<1>3. CASE op.kind # "repairing"
  <2>1. op' = Idle
    BY <1>3 DEF WriteError
  <2> QED
    BY <2>1, IdlePlans
<1>4. CASE op.kind = "repairing"
  <2>1. /\ op'.todo = <<>> /\ op'.kind = "repairing" /\ op'.sound = op.sound /\ op'.end = op.end
    BY <1>4 DEF Progress, VolumeWithin, CommandWithin, WriteError
  <2>2. op.sound => RepairPlanned(op, disk)
    BY <1>4 DEF Progress, Planning, PathKinds
  <2>3. ASSUME op.sound PROVE RepairPlanned(op', disk) /\ RepairPlanned(op', Head(op.todo).disk)
    BY <1>1, <2>1, <2>2, <2>3, RepairContinues
  <2>4. op.sound => RepairPlanned(op', disk')
    BY <1>2, <2>3
  <2> QED
    BY <2>1, <2>4 DEF Planning
<1> QED
  BY <1>3, <1>4

\* A repair of the directories and of the tables.
LEMMA MendingPlans ==
    ASSUME Progress, RepairDirectory \/ RepairTables
    PROVE  Planning(op', disk', fd'.inode)
<1>1. op.kind = "repairing" /\ disk' = disk /\ VolumeWithin(Memory)
  BY DEF RepairDirectory, RepairTables, Progress
<1>2. op.sound => RepairPlanned(op, disk)
  BY <1>1 DEF Progress, Planning, PathKinds
<1>3. op'.sound = op.sound
  BY <1>1 DEF VolumeWithin, CommandWithin, RepairDirectory, RepairTables
<1>4. op.sound => RepairPlanned(op', disk) /\ op'.kind \in {"repairing", "repair"}
  BY <1>1, <1>2, RepairDirectoryPlans, RepairTablesPlans
<1> QED
  BY <1>1, <1>3, <1>4 DEF Planning

\* After a directory the command may go on with the next one of the path.
LEMMA ReturnPlans ==
    ASSUME VolumeWithin(Memory), Return
    PROVE  Planning(op', disk', fd'.inode)
<1> DEFINE m == op.end
           q == NextPrefix(m, disk, op.goal)
           kind == "mkdir"
           h == fd'.inode
<1>1. /\ m \in Memory /\ disk \in Disk /\ op.goal \in Seq(Names)
      /\ disk' = disk /\ kind \in PathKinds \union {"fdwrite", "format"}
  BY DEF VolumeWithin, CommandWithin, Return, PathKinds
<1>2. CASE /\ MissingPrefixes(m, disk, op.goal) # {} /\ CanMkdir(m, disk, q)
           /\ op' = MkdirSingle(op.goal, q, m, disk)
  <2>1. q \in Seq(Names) /\ q # <<>>
    BY <1>1, <1>2, PrefixFound
  <2>2. Starting(op', kind, m, disk)
    BY <1>2, MkdirStarting
  <2> HIDE DEF m, q, h
  <2>3. InSync(m, disk) => Planned(op', disk, h)
    BY <1>1, <1>2, <2>1, MkdirSinglePlans
  <2> HIDE DEF kind
  <2>4. Planning(op', disk, h)
    BY <1>1, <2>2, <2>3, PlanMade
  <2> QED
    BY <1>1, <2>4 DEF h
<1>3. CASE op' = Idle
  BY <1>3, IdlePlans
<1> QED
  BY <1>2, <1>3 DEF Return

\* An open creates its file or finds it.
LEMMA OpenPlans ==
    ASSUME VolumeWithin(Memory), NEW p \in FdPaths, NEW create \in BOOLEAN, FdOpen(p, create)
    PROVE  Planning(op', disk', fd'.inode)
<1>1. CASE op = Idle /\ op' = op
  BY <1>1, IdlePlans
<1>2. CASE Ready /\ WriteFile("open", p, 0)
  <2> DEFINE kind == "open"
             n == 0
  <2>1. /\ p \in Paths /\ op = Idle /\ WriteFile(kind, p, n)
        /\ kind \in {"write", "open"} /\ n \in Nat
    BY <1>2, CommandsAssumption DEF Ready
  <2> HIDE DEF kind, n
  <2> QED
    BY <2>1, WritePlans
<1> QED
  BY <1>1, <1>2 DEF FdOpen

\* Every step keeps to the plan.
LEMMA NextPlans ==
    ASSUME Progress, Next
    PROVE  Planning(op', disk', fd'.inode)
<1>1. VolumeWithin(Memory)
  BY DEF Progress
<1>2. ASSUME NEW w \in Writes, Write(w[1], w[2]) PROVE Planning(op', disk', fd'.inode)
  <2> DEFINE kind == "write"
             p == w[1]
             n == w[2]
  <2>1. p \in Paths /\ n \in Nat /\ op = Idle /\ WriteFile(kind, p, n) /\ kind \in {"write", "open"}
    BY <1>2, CommandsAssumption DEF Write, Ready
  <2> HIDE DEF kind, p, n
  <2> QED
    BY <1>1, <2>1, WritePlans
<1>3. ASSUME NEW p \in DirPaths, Mkdir(p) PROVE Planning(op', disk', fd'.inode)
  <2>1. p \in Paths
    BY CommandsAssumption
  <2> QED
    BY <1>1, <1>3, <2>1, MkdirPlans
<1>4. ASSUME NEW p \in Paths, RemovePath(p) PROVE Planning(op', disk', fd'.inode)
  BY <1>1, <1>4, RemovePlans
<1>5. ASSUME NEW p \in FdPaths, NEW create \in BOOLEAN, FdOpen(p, create)
      PROVE  Planning(op', disk', fd'.inode)
  BY <1>1, <1>5, OpenPlans
<1>6. CASE FdClose \/ (\E o \in 0 .. MaxOffset : FdSeek(o)) \/ Mount \/ Umount \/ Crash
  <2>1. op' = Idle
    BY <1>6 DEF FdClose, FdSeek, Mount, Umount, Crash
  <2> QED
    BY <2>1, IdlePlans
<1>7. ASSUME NEW n \in FdSizes, FdWrite(n) PROVE Planning(op', disk', fd'.inode)
  BY <1>1, <1>7, FdPlans
<1>8. CASE Format \/ Repair
  BY <1>1, <1>8, OtherStarts
<1>9. CASE RepairDirectory \/ RepairTables
  BY <1>9, MendingPlans
<1>10. CASE Step
  BY <1>10, StepPlans
<1>11. CASE Return
  BY <1>1, <1>11, ReturnPlans
<1>12. CASE WriteError
  BY <1>12, ErrorPlans
<1> QED
  BY <1>2, <1>3, <1>4, <1>5, <1>6, <1>7, <1>8, <1>9, <1>10, <1>11, <1>12 DEF Next

LEMMA ProgressStarts ==
    ASSUME Init
    PROVE  Progress
<1>1. VolumeWithin(Memory)
  BY InitWithin
<1>2. op = Idle
  BY DEF Init
<1> QED
  BY <1>1, <1>2, IdlePlans DEF Progress

LEMMA ProgressKept ==
    ASSUME Progress, [Next]_vars
    PROVE  Progress'
<1>1. VolumeWithin(Memory) /\ TableSet(Memory)
  BY DEF Progress, TableSet
<1>2. CASE Next
  <2>1. VolumeWithin(Memory)'
    BY <1>1, <1>2, NextKeeps, MountKeeps
  <2>2. Planning(op', disk', fd'.inode)
    BY <1>2, NextPlans
  <2> QED
    BY <2>1, <2>2 DEF Progress
<1>3. CASE UNCHANGED vars
  <2>1. VolumeWithin(Memory)'
    BY <1>1, <1>3, UnchangedKeeps
  <2>2. op' = op /\ disk' = disk /\ fd' = fd
    BY <1>3 DEF vars
  <2>3. Planning(op', disk', fd'.inode)
    BY <2>2 DEF Progress
  <2> QED
    BY <2>1, <2>3 DEF Progress
<1> QED
  BY <1>2, <1>3

\* Every command that started on a healthy volume has a plan in every state.
THEOREM PlansKept == Spec => []Progress
<1>1. Init => Progress
  BY ProgressStarts
<1>2. Progress /\ [Next]_vars => Progress'
  BY ProgressKept
<1> QED
  BY <1>1, <1>2, PTL DEF Spec

-----------------------------------------------------------------------------
\* The next write of a command spares the paths the command is not about.
LEMMA OthersSpared ==
    ASSUME Progress, op.sound, op.todo # <<>>, NEW p \in Paths,
           View(disk, disk.data, p) # Nothing, ~Touched(p)
    PROVE  View(Head(op.todo).disk, Head(op.todo).disk.data, p) = View(disk, disk.data, p)
<1> DEFINE x == Head(op.todo).disk
           M == Memory
<1>1. p \in Seq(Names) /\ disk \in Disk
  BY CommandsAssumption DEF Progress, VolumeWithin
<1>2. op.todo \in Writing(M) /\ x \in Disk
  BY HeadWithin DEF Progress, VolumeWithin, CommandWithin
<1>3. 1 \in DOMAIN op.todo /\ x = op.todo[1].disk
  <2> HIDE DEF M
  <2> QED
    BY <1>2, OneDone
<1> HIDE DEF x, M
<1>4. CASE op.kind \in {"repairing", "repair"} /\ RepairPlanned(op, disk)
  <2>1. Pruned(disk, x)
    BY <1>2, <1>4, RepairContinues DEF x
  <2>2. Seen(disk, p) # Nothing => Seen(x, p) = Seen(disk, p)
    BY <1>1, <1>2, <2>1, ViewsPruned
  <2> QED
    BY <2>2 DEF Seen, x
<1>5. CASE op.kind \in PathKinds \union {"fdwrite", "format"} /\ Planned(op, disk, fd.inode)
  <2>1. Alike(op, fd.inode, disk, x)
    BY <1>3, <1>5 DEF Planned
  <2>2. CASE op.kind \in PathKinds
    <3>1. p \in Apart(op.path)
      BY <1>1, <2>2 DEF Apart, Touched, PathKinds
    <3> QED
      BY <2>1, <2>2, <3>1 DEF Alike, Seen, x
  <2>3. CASE op.kind = "fdwrite"
    <3>1. FoundOn(disk, p) # fd.inode
      BY <2>3 DEF Touched, FoundOn
    <3> QED
      BY <1>1, <2>1, <2>3, <3>1 DEF Alike, Seen, x
  <2>4. CASE op.kind = "format"
    BY <2>4 DEF Touched
  <2> QED
    BY <1>5, <2>2, <2>3, <2>4
<1> QED
  BY <1>4, <1>5 DEF Progress, Planning

\* What the disk may become in a step.
LEMMA DiskSteps ==
    ASSUME [Next]_vars, op.sound
    PROVE  disk' = disk \/ (op.todo # <<>> /\ disk' = Head(op.todo).disk)
<1>1. op # Idle
  BY DEF Idle
<1>2. ASSUME NEW kind, NEW p, NEW n, WriteFile(kind, p, n) PROVE disk' = disk
  BY <1>2, WriteStarting, SMTT(30)
<1>3. CASE \/ \E w \in Writes : Write(w[1], w[2])
           \/ \E p \in DirPaths : Mkdir(p)
           \/ \E p \in Paths : RemovePath(p)
           \/ \E p \in FdPaths, create \in BOOLEAN : FdOpen(p, create)
           \/ FdClose \/ \E o \in 0 .. MaxOffset : FdSeek(o)
           \/ \E n \in FdSizes : FdWrite(n)
           \/ Mount \/ Umount \/ Format \/ Repair
  BY <1>1, <1>3, ZenonT(60) DEF Write, Mkdir, RemovePath, FdOpen, FdClose, FdSeek, FdWrite, Mount, Umount, Format, Repair, Ready
<1>4. CASE RepairDirectory \/ RepairTables \/ Return \/ Crash \/ UNCHANGED vars
  BY <1>4 DEF RepairDirectory, RepairTables, Return, Crash, vars
<1>5. CASE Step \/ WriteError
  BY <1>5 DEF Step, WriteError
<1> QED
  BY <1>3, <1>4, <1>5 DEF Next

-----------------------------------------------------------------------------
(* The theorems about what is on the disk.                                 *)

\* A command that starts on a healthy volume of any size leaves what it is not
\* about readable and unchanged after each of its sector writes, and so do a
\* write error and a power failure; diskfs_repair does from every sound volume.
THEOREM OthersAlwaysSurvive == Spec => OthersSurvive
<1>1. ASSUME Progress, [Next]_vars, op.sound, NEW p \in Paths,
             View(disk, disk.data, p) # Nothing, ~Touched(p)
      PROVE  View(disk', disk'.data, p) = View(disk, disk.data, p)
  BY <1>1, DiskSteps, OthersSpared
<1>2. Progress /\ [Next]_vars =>
        [op.sound => \A p \in Paths :
            LET v == View(disk, disk.data, p)
            IN  v # Nothing /\ ~Touched(p) => View(disk', disk'.data, p) = v]_vars
  BY <1>1
<1> QED
  BY <1>2, PlansKept, PTL DEF Spec, OthersSurvive

\* Whenever a command that started on a healthy volume has left the disk so that
\* diskcheck objects, the clean flag is off: mbfs_mark_dirty comes before every
\* write that may, and mbfs_mark_clean after all of them.
THEOREM UncleanAlwaysFlagged == Spec => []UncleanFlagged
<1>1. Progress => UncleanFlagged
  <2> SUFFICES ASSUME Progress, op.sound, Marked(op), ~Checked(disk, disk.data)
               PROVE  disk.super = "dirty"
    BY DEF UncleanFlagged, Marked
  <2>1. op.kind \notin {"repairing", "repair"}
    BY DEF Marked
  <2>2. Planned(op, disk, fd.inode)
    BY <2>1 DEF Progress, Planning
  <2> QED
    BY <2>2 DEF Planned, Tidy
<1> QED
  BY <1>1, PlansKept, PTL

\* A command that reports success after it started on a healthy volume has it
\* all on the disk, which is marked clean: the tables in memory, and at its path
\* or behind its descriptor what it was asked for.
THEOREM SuccessIsDurable == Spec => []SuccessDurable
<1>1. Progress => SuccessDurable
  <2> SUFFICES ASSUME Progress, Finished, op.ok, op.sound, op.kind # "repair"
               PROVE  Achieved(op, fd.inode, disk)
    BY DEF SuccessDurable, Achieved, Seen, PathKinds
  <2>1. Planned(op, disk, fd.inode)
    BY DEF Progress, Planning, Finished
  <2>2. EndAt(disk, op.todo) = disk
    BY DEF Finished, EndAt
  <2> QED
    BY <2>1, <2>2 DEF Planned
<1> QED
  BY <1>1, PlansKept, PTL
=============================================================================
