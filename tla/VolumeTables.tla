---------------------------- MODULE VolumeTables ----------------------------
(***************************************************************************)
(* The data structures of an MBFS volume and the functions that read and   *)
(* compute with them: inode table, directories, sector bitmap, lookup of a *)
(* path, allocation, the expected bitmap.  A record `t' of tables has the  *)
(* fields inode, dir and map, whether it is the kernel's copy in memory    *)
(* (mbfs_inodes, mbfs_dir, mbfs_bitmap) or the one on the disk; `data' is  *)
(* always the disk's data sectors, for nothing else is cached.             *)
(*                                                                         *)
(* Sizes are counted in sectors.  A directory is one sector (8 in the      *)
(* code, MBFS_SUBDIR_SECTORS) and an inode has at most one extent, as the  *)
(* code never writes a second one.                                         *)
(***************************************************************************)
EXTENDS Integers, FiniteSets, SequencesExt

CONSTANTS Names,      \* components of paths
          MaxSlot,    \* entries of a directory, MBFS_MAX_DIRENTS
          MaxInode,   \* inodes, MBFS_MAX_INODES
          MaxSector   \* data sectors, data_sector_count

ASSUME NamesAssumption == "" \notin Names   \* an entry without a name is free

ASSUME VolumeSizes == /\ MaxSlot \in Nat \ {0}
                      /\ MaxInode \in Nat \ {0}
                      /\ MaxSector \in Nat \ {0}

Slots == 1 .. MaxSlot
Inodes == 1 .. MaxInode
Sectors == 1 .. MaxSector
Root == 0                     \* stands for the root directory among the inodes
Absent == -1                  \* what a lookup that fails gives
BeyondTable == MaxInode + 1   \* an inode index >= MBFS_MAX_INODES
LeastOf(S) == CHOOSE s \in S : \A u \in S : s <= u

(***************************************************************************)
(* Inodes, directory entries and sectors.  A sector of text read as a      *)
(* directory shows one used entry with a name nobody asks for and an inode *)
(* beyond the table; a directory read as text is DirText.                  *)
(***************************************************************************)
NoName == ""
FreeInode == [type |-> "free", start |-> 0, len |-> 0, size |-> 0]
FreeEntry == [name |-> NoName, inode |-> Root]
NoEntries == [s \in Slots |-> FreeEntry]
TextEntries == [NoEntries EXCEPT ![1] = [name |-> "?", inode |-> BeyondTable]]
NoText == <<>>
DirText == <<"directory">>
Zeroed == [text |-> NoText, entries |-> NoEntries]
TextSector(x) == [text |-> x, entries |-> TextEntries]
DirSector(e) == IF e = NoEntries THEN Zeroed ELSE [text |-> DirText, entries |-> e]

Used(t, i) == i \in Inodes /\ t.inode[i].type # "free"
IsDirectory(t, d) == d = Root \/ (d \in Inodes /\ t.inode[d].type = "dir")
Directories(t) == {Root} \union {i \in Inodes : t.inode[i].type = "dir"}
Extent(t, i) == LET n == t.inode[i] IN n.start .. n.start + n.len - 1

BlankTables == [inode |-> [i \in Inodes |-> FreeInode], dir |-> NoEntries, map |-> {}]

(***************************************************************************)
(* Directories and paths.                                                  *)
(***************************************************************************)
EntriesOf(t, data, d) ==
    IF d = Root THEN t.dir
    ELSE IF t.inode[d].len = 0 THEN NoEntries
    ELSE data[t.inode[d].start].entries

Named(e, n) == {s \in Slots : e[s].name = n}
FreeSlots(e) == Named(e, NoName)
FreeInodes(t) == {i \in Inodes : t.inode[i].type = "free"}

\* The inode index of name n in directory d.
Child(t, data, d, n) ==
    LET e == EntriesOf(t, data, d)
    IN  IF IsDirectory(t, d) /\ Named(e, n) # {} THEN e[LeastOf(Named(e, n))].inode ELSE Absent

Walk(t, data, p) ==
    LET at[n \in 0 .. Len(p)] == IF n = 0 THEN Root ELSE Child(t, data, at[n - 1], p[n])
    IN  at[Len(p)]

\* The directory a path's last component is looked for in, or Absent.
ParentOf(t, data, p) ==
    LET d == Walk(t, data, Front(p)) IN IF IsDirectory(t, d) THEN d ELSE Absent

\* The index found for a path whose inode is in use, or Absent.
Lookup(t, data, p) == LET i == Walk(t, data, p) IN IF Used(t, i) THEN i ELSE Absent

\* What a reader sees at a path: nothing, a directory, or a file's text.
Nothing == [type |-> "free", text |-> <<>>]
TextOf(t, data, i) ==
    LET n == t.inode[i]
    IN  [k \in 1 .. (IF n.size < n.len THEN n.size ELSE n.len) |-> data[n.start + k - 1].text]
View(t, data, p) ==
    LET i == Lookup(t, data, p)
    IN  IF i = Absent THEN Nothing
        ELSE [type |-> t.inode[i].type,
              text |-> IF t.inode[i].type = "file" THEN TextOf(t, data, i) ELSE <<>>]

(***************************************************************************)
(* The bitmap.  Runs(map, n) are the runs of n free sectors; the code      *)
(* takes the first.                                                        *)
(***************************************************************************)
\* RunsPastEnd is a mutant of it: a run may leave the data area.
RunsPastEnd(map, n) == {s \in Sectors : (s .. s + n - 1) \cap map = {}}
Runs(map, n) == {s \in Sectors : s + n - 1 \in Sectors /\ (s .. s + n - 1) \cap map = {}}
HasRoom(map, n) == n = 0 \/ Runs(map, n) # {}
FirstRun(map, n) == IF n = 0 THEN 0 ELSE LeastOf(Runs(map, n))
RunSet(s, n) == s .. s + n - 1

ExpectedMap(t) == UNION {Extent(t, i) : i \in {j \in Inodes : Used(t, j)}}

EntriesValid(t, e) == \A s \in Slots : e[s].name # NoName => Used(t, e[s].inode)

\* diskfs_check finds no problem.
Checked(t, data) ==
    /\ t.map = ExpectedMap(t)
    /\ \A d \in Directories(t) : EntriesValid(t, EntriesOf(t, data, d))

\* No sector belongs to two files, nor is one of theirs marked free.
Sound(t) ==
    /\ \A i \in Inodes : Extent(t, i) \subseteq t.map
    /\ \A i, j \in Inodes : i # j => Extent(t, i) \cap Extent(t, j) = {}

\* No inode has two names, and no directory has a name twice.
NamedOnce(t, data) ==
    \A d1, d2 \in Directories(t) : \A s1, s2 \in Slots :
       LET e1 == EntriesOf(t, data, d1)[s1]
           e2 == EntriesOf(t, data, d2)[s2]
           alike == e1.inode = e2.inode \/ (d1 = d2 /\ e1.name = e2.name)
       IN  e1.name # NoName /\ e2.name # NoName /\ alike => d1 = d2 /\ s1 = s2

Healthy(t, data) == Checked(t, data) /\ Sound(t) /\ NamedOnce(t, data)
=============================================================================
