------------------------------- MODULE Volume -------------------------------
(***************************************************************************)
(* The MBFS disk file system of the kernel: the tables in memory, the disk *)
(* they are flushed to sector by sector, the commands that change both,    *)
(* and the file descriptors that hold on to inode numbers.                 *)
(*                                                                         *)
(* A command is a sequence of sector writes.  Its first action computes    *)
(* the sequence (`todo': memory as of the write, disk after the write),    *)
(* every Step carries out one write, and Return ends the command.  Between *)
(* two writes the power may fail (Crash); a write may report an error      *)
(* (WriteError), with the data on the disk or not, for ata_pio_write_sector*)
(* also fails while it waits for the cache flush.  Sector reads that fail  *)
(* leave what a failed write before them leaves, and are not told apart.   *)
(*                                                                         *)
(* Every inode, every root entry and the bitmap is a sector of its own (64 *)
(* byte records share sectors in the code), and a flush skips the sectors  *)
(* it does not change: more interruptions than the code has, never fewer.  *)
(* A command that is refused before it changes anything is not a step.     *)
(***************************************************************************)
EXTENDS VolumeTables

CONSTANTS Paths,      \* sequences of names, of which
          DirPaths,   \* are made directories, and
          FdPaths,    \* are opened through descriptors
          Writes,     \* pairs of a path and a size in sectors: the files written
          FdSizes,    \* sizes of the writes through a descriptor
          MaxOffset,  \* bound of a descriptor's offset
          MaxFaults   \* bound of the crashes, device errors and commands on a
                      \* damaged volume in a behaviour; commands end with the last

ASSUME CommandsAssumption == /\ Paths \subseteq Seq(Names) \ {<<>>}
                             /\ DirPaths \subseteq Paths /\ FdPaths \subseteq Paths
                             /\ Writes \subseteq Paths \X Nat /\ FdSizes \subseteq Nat \ {0}
                             /\ MaxOffset \in Nat /\ MaxFaults \in Nat

VARIABLES mem,     \* the kernel's tables, and diskfs_mounted
          disk,    \* superblock, inode table, root directory, bitmap, data
          op,      \* the command in progress
          fd,      \* a file descriptor over MBFS
          faults

vars == <<mem, disk, op, fd, faults>>

Tables(mounted, t) == [mounted |-> mounted, inode |-> t.inode, dir |-> t.dir, map |-> t.map]
Loaded(t) == Tables(TRUE, t)
Unmounted == Tables(FALSE, BlankTables)
Closed == [open |-> FALSE, inode |-> Root, off |-> 0]
Idle == [kind |-> "idle", goal |-> <<>>, path |-> <<>>, todo |-> <<>>, rest |-> <<>>,
         off |-> 0, cleared |-> FALSE, end |-> Unmounted, ok |-> TRUE, sound |-> FALSE, want |-> Nothing]

Init == /\ mem = Unmounted
        /\ disk = [super |-> "none", inode |-> BlankTables.inode, dir |-> BlankTables.dir,
                   map |-> BlankTables.map, data |-> [s \in Sectors |-> Zeroed]]
        /\ op = Idle
        /\ fd = Closed
        /\ faults = 0

(***************************************************************************)
(* Changes of the tables in memory.                                        *)
(***************************************************************************)
WithInode(m, i, type) == [m EXCEPT !.inode[i] = [FreeInode EXCEPT !.type = type]]

WithExtent(n, s, len) == [n EXCEPT !.start = s, !.len = len]

\* Mutant of Freed: the inode keeps its extent.
FreedKept(m, i) == [m EXCEPT !.map = @ \ Extent(m, i)]

Freed(m, i) == [m EXCEPT !.map = @ \ Extent(m, i), !.inode[i] = WithExtent(@, 0, 0)]

Allotted(m, i, n) ==
    LET s == FirstRun(m.map, n)
    IN  [m EXCEPT !.map = @ \union RunSet(s, n), !.inode[i] = WithExtent(@, s, n)]

Filed(m, i, n) == [m EXCEPT !.inode[i] = [@ EXCEPT !.type = "file", !.size = n]]

(***************************************************************************)
(* Sequences of sector writes, each given by the disk it leaves.           *)
(***************************************************************************)
Flagged(dk, flag) == [dk EXCEPT !.super = flag]

\* How many members of a set are at most i.
Rank(S, i) == Cardinality({j \in S : j <= i})

FlushInodes(dk, m) ==
    LET changed == {i \in Inodes : m.inode[i] # dk.inode[i]}
    IN  [k \in 1 .. Cardinality(changed) |->
           [dk EXCEPT !.inode = [i \in Inodes |-> IF Rank(changed, i) <= k THEN m.inode[i] ELSE @[i]]]]

FlushDirectory(dk, m) ==
    LET changed == {s \in Slots : m.dir[s] # dk.dir[s]}
    IN  [k \in 1 .. Cardinality(changed) |->
           [dk EXCEPT !.dir = [s \in Slots |-> IF Rank(changed, s) <= k THEN m.dir[s] ELSE @[s]]]]

FlushBitmap(dk, m) == IF m.map = dk.map THEN <<>> ELSE <<[dk EXCEPT !.map = m.map]>>

\* n sectors from s on, filled one after the other.
Fill(dk, s, n, sector) ==
    [k \in 1 .. n |-> [dk EXCEPT !.data = [x \in Sectors |-> IF x \in s .. s + k - 1 THEN sector ELSE @[x]]]]

Copy(dk, from, to, n) ==
    [k \in 1 .. n |-> [dk EXCEPT !.data = [x \in Sectors |-> IF x \in to .. to + k - 1 THEN @[from + x - to] ELSE @[x]]]]

EndOf(dk, writes) == IF writes = <<>> THEN dk ELSE Last(writes)

\* Mutants of FlushTables: without the bitmap; with the clean flag first.
FlushTablesNoBitmap(dk, m, root) ==
    LET a == FlushInodes(dk, m)
        b == IF root THEN FlushDirectory(EndOf(dk, a), m) ELSE <<>>
    IN  a \o b \o <<Flagged(EndOf(EndOf(dk, a), b), "clean")>>

FlushTablesCleanFirst(dk, m, root) ==
    LET d1 == Flagged(dk, "clean")
        a == FlushInodes(d1, m)
        b == IF root THEN FlushDirectory(EndOf(d1, a), m) ELSE <<>>
    IN  <<d1>> \o a \o b \o FlushBitmap(EndOf(EndOf(d1, a), b), m)

\* Inodes, root directory if asked for, bitmap, then the clean flag.
FlushTables(dk, m, root) ==
    LET a == FlushInodes(dk, m)
        b == IF root THEN FlushDirectory(EndOf(dk, a), m) ELSE <<>>
        c == FlushBitmap(EndOf(EndOf(dk, a), b), m)
    IN  a \o b \o c \o <<Flagged(EndOf(EndOf(EndOf(dk, a), b), c), "clean")>>

CanFlushSubdir(m, d) == d \in Inodes /\ m.inode[d].type = "dir" /\ m.inode[d].len # 0
PutEntries(dk, m, d, e) == [dk EXCEPT !.data[m.inode[d].start] = DirSector(e)]

At(m, writes) == [k \in DOMAIN writes |-> [mem |-> m, disk |-> writes[k]]]

\* The tables in memory are those on the disk, and nothing is wrong with them.
Matches(m, dk) == m.mounted /\ m.inode = dk.inode /\ m.dir = dk.dir /\ m.map = dk.map
InSync(m, dk) == Matches(m, dk) /\ Healthy(dk, dk.data)

\* A command may start.  Those that start on a volume already damaged, or with
\* tables in memory that are not those on the disk, count as faults.
Ready ==
    /\ op = Idle
    /\ faults < MaxFaults
    /\ faults' = IF InSync(mem, disk) THEN faults ELSE faults + 1

Command(kind, p, m, dk, todo, end, ok, want) ==
    [kind |-> kind, goal |-> p, path |-> p, todo |-> todo, rest |-> <<>>, off |-> 0, cleared |-> FALSE,
     end |-> end, ok |-> ok, sound |-> InSync(m, dk), want |-> want]

FileOf(p, n) == [type |-> "file", text |-> [k \in 1 .. n |-> p]]
EmptyDirectory == [type |-> "dir", text |-> <<>>]

(***************************************************************************)
(* diskfs_write_bytes: a file in the root directory.  What the name holds  *)
(* already is overwritten whatever it is, a directory included, and the    *)
(* clean flag is not cleared.  Without room the old sectors are freed in   *)
(* memory and the command ends there.                                      *)
(***************************************************************************)
WriteRoot(kind, p, n) ==
    LET old == Named(mem.dir, p[1])
        s == IF old # {} THEN LeastOf(old) ELSE LeastOf(FreeSlots(mem.dir))
        i == IF old # {} THEN mem.dir[s].inode ELSE LeastOf(FreeInodes(mem))
        m1 == IF old # {} THEN mem
              ELSE [WithInode(mem, i, "file") EXCEPT !.dir[s] = [name |-> p[1], inode |-> i]]
        m2 == Freed(m1, i)
        m3 == Allotted(m2, i, n)
        m4 == Filed(m3, i, n)
        text == Fill(disk, m3.inode[i].start, n, TextSector(p))
    IN  /\ old # {} \/ (FreeSlots(mem.dir) # {} /\ FreeInodes(mem) # {})
        /\ i \in Inodes
        /\ IF HasRoom(m2.map, n)
           THEN /\ op' = Command(kind, p, mem, disk,
                           At(m3, text) \o At(m4, FlushTables(EndOf(disk, text), m4, TRUE)),
                           m4, TRUE, FileOf(p, n))
                /\ UNCHANGED mem
           ELSE /\ mem' = m2
                /\ UNCHANGED op
        /\ UNCHANGED <<disk, fd>>

(***************************************************************************)
(* diskfs_write_path below the root: the entry is made in the scratch copy *)
(* of the directory, which is written back after the file's own sectors.   *)
(* Without room the command ends with the clean flag cleared.              *)
(***************************************************************************)
WriteBelow(kind, p, n) ==
    LET d == ParentOf(mem, disk.data, p)
        e == EntriesOf(mem, disk.data, d)
        old == Named(e, Last(p))
        s == IF old # {} THEN LeastOf(old) ELSE LeastOf(FreeSlots(e))
        i == IF old # {} THEN e[s].inode ELSE LeastOf(FreeInodes(mem))
        m1 == IF old # {} THEN mem ELSE WithInode(mem, i, "file")
        m2 == Freed(m1, i)
        m3 == Allotted(m2, i, n)
        m4 == Filed(m3, i, n)
        d1 == Flagged(disk, "dirty")
        text == Fill(d1, m3.inode[i].start, n, TextSector(p))
        d2 == EndOf(d1, text)
        d3 == PutEntries(d2, m4, d, [e EXCEPT ![s] = [name |-> Last(p), inode |-> i]])
    IN  /\ d # Absent
        /\ old # {} \/ (FreeSlots(e) # {} /\ FreeInodes(mem) # {})
        /\ i \in Inodes
        /\ op' = IF ~HasRoom(m2.map, n)
                 THEN Command(kind, p, mem, disk, At(m1, <<d1>>), m2, FALSE, Nothing)
                 ELSE IF ~CanFlushSubdir(m4, d)
                 THEN Command(kind, p, mem, disk, At(m1, <<d1>>) \o At(m3, text), m4, FALSE, Nothing)
                 ELSE Command(kind, p, mem, disk,
                        At(m1, <<d1>>) \o At(m3, text) \o At(m4, <<d3>> \o FlushTables(d3, m4, FALSE)),
                        m4, TRUE, FileOf(p, n))
        /\ UNCHANGED <<mem, disk, fd>>

WriteFile(kind, p, n) == IF Len(p) = 1 THEN WriteRoot(kind, p, n) ELSE WriteBelow(kind, p, n)

Write(p, n) == Ready /\ mem.mounted /\ WriteFile("write", p, n)

(***************************************************************************)
(* diskfs_mkdir_single for path p, from memory m and disk dk; the bitmap   *)
(* bits are taken before the first write and stay taken if it fails.       *)
(***************************************************************************)
CanMkdir(m, dk, p) ==
    LET d == ParentOf(m, dk.data, p)
        e == EntriesOf(m, dk.data, d)
    IN  /\ d # Absent /\ Named(e, Last(p)) = {}
        /\ FreeSlots(e) # {} /\ FreeInodes(m) # {} /\ HasRoom(m.map, 1)

MkdirSingle(goal, p, m, dk) ==
    LET d == ParentOf(m, dk.data, p)
        e == EntriesOf(m, dk.data, d)
        s == LeastOf(FreeSlots(e))
        i == LeastOf(FreeInodes(m))
        k == FirstRun(m.map, 1)
        entry == [name |-> Last(p), inode |-> i]
        m1 == [m EXCEPT !.map = @ \union {k}]
        m2 == [m1 EXCEPT !.inode[i] = [type |-> "dir", start |-> k, len |-> 1, size |-> 1],
                         !.dir = IF d = Root THEN [@ EXCEPT ![s] = entry] ELSE @]
        d1 == Flagged(dk, "dirty")
        d2 == [d1 EXCEPT !.data[k] = Zeroed]
        d3 == PutEntries(d2, m2, d, [e EXCEPT ![s] = entry])
        todo == At(m1, <<d1, d2>>) \o
                (IF d = Root THEN At(m2, FlushTables(d2, m2, TRUE))
                 ELSE IF CanFlushSubdir(m2, d) THEN At(m2, <<d3>> \o FlushTables(d3, m2, FALSE))
                 ELSE <<>>)
    IN  [Command("mkdir", p, m, dk, todo, m2, d = Root \/ CanFlushSubdir(m2, d), EmptyDirectory)
           EXCEPT !.goal = goal]

\* diskfs_mkdir makes the directories of a path from the first missing one.
MissingPrefixes(m, dk, p) == {k \in 1 .. Len(p) : Walk(m, dk.data, SubSeq(p, 1, k)) = Absent}
NextPrefix(m, dk, p) == SubSeq(p, 1, LeastOf(MissingPrefixes(m, dk, p)))

Mkdir(p) ==
    /\ Ready /\ mem.mounted
    /\ MissingPrefixes(mem, disk, p) # {}
    /\ LET q == NextPrefix(mem, disk, p)
       IN  /\ CanMkdir(mem, disk, q)
           /\ op' = MkdirSingle(p, q, mem, disk)
    /\ UNCHANGED <<mem, disk, fd>>

(***************************************************************************)
(* diskfs_remove_path: a file or an empty directory.                       *)
(***************************************************************************)
RemovePath(p) ==
    LET d == ParentOf(mem, disk.data, p)
        e == EntriesOf(mem, disk.data, d)
        s == LeastOf(Named(e, Last(p)))
        i == Lookup(mem, disk.data, p)
        m1 == [Freed(mem, i) EXCEPT !.inode[i] = FreeInode,
                                    !.dir = IF d = Root THEN [@ EXCEPT ![s] = FreeEntry] ELSE @]
        d1 == Flagged(disk, "dirty")
        d2 == PutEntries(d1, m1, d, [e EXCEPT ![s] = FreeEntry])
        todo == At(mem, <<d1>>) \o
                (IF d = Root THEN At(m1, FlushTables(d1, m1, TRUE))
                 ELSE IF CanFlushSubdir(m1, d) THEN At(m1, <<d2>> \o FlushTables(d2, m1, FALSE))
                 ELSE <<>>)
    IN  /\ Ready /\ mem.mounted
        /\ d # Absent /\ i # Absent
        /\ IsDirectory(mem, i) => EntriesOf(mem, disk.data, i) = NoEntries
        /\ op' = Command("remove", p, mem, disk, todo, m1, d = Root \/ CanFlushSubdir(m1, d), Nothing)
        /\ UNCHANGED <<mem, disk, fd>>

(***************************************************************************)
(* diskfs_try_mount and diskfs_umount.  A read error leaves the sectors    *)
(* loaded so far and the volume unmounted; diskfs_umount ignores the error *)
(* of its only write.                                                      *)
(***************************************************************************)
\* The first k sectors of the inode table and the root directory.
LoadedUpTo(t, k) ==
    [Unmounted EXCEPT !.inode = [i \in Inodes |-> IF i <= k THEN t.inode[i] ELSE FreeInode],
                      !.dir = [s \in Slots |-> IF MaxInode + s <= k THEN t.dir[s] ELSE FreeEntry]]

Mount ==
    /\ op = Idle
    /\ \/ /\ mem' = IF disk.super = "none" THEN Unmounted ELSE Loaded(disk)
          /\ UNCHANGED faults
       \/ /\ faults < MaxFaults
          /\ faults' = faults + 1
          /\ \E k \in 0 .. MaxInode + MaxSlot : mem' = LoadedUpTo(disk, k)
    /\ UNCHANGED <<disk, op, fd>>

Umount ==
    /\ op = Idle /\ mem.mounted
    /\ mem' = Unmounted
    /\ \/ /\ disk' = Flagged(disk, "clean")
          /\ UNCHANGED faults
       \/ /\ faults < MaxFaults
          /\ faults' = faults + 1
          /\ UNCHANGED disk
    /\ UNCHANGED <<op, fd>>

(***************************************************************************)
(* diskfs_format: the superblock first, marked clean, then the tables.     *)
(***************************************************************************)
Format ==
    LET blank == Tables(mem.mounted, BlankTables)
        d1 == Flagged(disk, "clean")
    IN  /\ op = Idle /\ faults < MaxFaults
        /\ op' = Command("format", <<>>, mem, disk,
                   At(mem, <<d1>>) \o At(blank, Front(FlushTables(d1, blank, TRUE))),
                   Loaded(BlankTables), TRUE, Nothing)
        /\ UNCHANGED <<mem, disk, fd, faults>>

(***************************************************************************)
(* diskfs_repair: root entries of unused inodes are cleared in memory, then*)
(* those of every directory on the disk, one directory after the other and *)
(* going on when a write fails; then the tables are flushed.  The bitmap   *)
(* flushed is the one in memory: the expected one is computed and dropped. *)
(* Extents never leave the data area here, so no inode is cleared.         *)
(***************************************************************************)
\* Mutant of ValidOnly: only entries of files are kept.
ValidOnlyFiles(t, e) ==
    [s \in Slots |-> IF Used(t, e[s].inode) /\ t.inode[e[s].inode].type = "file" THEN e[s] ELSE FreeEntry]

ValidOnly(t, e) == [s \in Slots |-> IF Used(t, e[s].inode) THEN e[s] ELSE FreeEntry]

Repair ==
    LET m1 == [mem EXCEPT !.dir = ValidOnly(mem, mem.dir)]
    IN  /\ op = Idle /\ mem.mounted
        /\ op' = [Command("repairing", <<>>, mem, disk, <<>>, m1, TRUE, Nothing)
                    EXCEPT !.sound = Matches(mem, disk) /\ Sound(disk), !.cleared = m1.dir # mem.dir,
                           !.rest = SetToSortSeq({i \in Inodes : mem.inode[i].type = "dir"}, <)]
        /\ UNCHANGED <<mem, disk, fd, faults>>

RepairDirectory ==
    LET i == Head(op.rest)
        e == EntriesOf(op.end, disk.data, i)
        f == ValidOnly(op.end, e)
    IN  /\ op.kind = "repairing" /\ op.todo = <<>> /\ op.rest # <<>>
        /\ op' = [op EXCEPT !.rest = Tail(@),
                            !.todo = IF f # e /\ CanFlushSubdir(op.end, i)
                                     THEN At(op.end, <<PutEntries(disk, op.end, i, f)>>) ELSE <<>>]
        /\ UNCHANGED <<mem, disk, fd, faults>>

RepairTables ==
    LET m == op.end
        a == FlushBitmap(disk, m)
        b == IF op.cleared THEN FlushDirectory(EndOf(disk, a), m) ELSE <<>>
        d1 == EndOf(EndOf(disk, a), b)
    IN  /\ op.kind = "repairing" /\ op.todo = <<>> /\ op.rest = <<>>
        /\ op' = [op EXCEPT !.kind = "repair", !.todo = At(m, a \o b \o <<Flagged(d1, "clean")>>)]
        /\ UNCHANGED <<mem, disk, fd, faults>>

(***************************************************************************)
(* File descriptors: an inode number and an offset.  Nothing closes or     *)
(* checks a descriptor when its file is removed, the volume formatted or   *)
(* unmounted.  One descriptor stands for the PROCESS_FD_MAX of a process;  *)
(* an open without a free one still creates the file.                      *)
(***************************************************************************)
Opened(m, p) ==
    LET i == Lookup(m, disk.data, p)
    IN  IF fd.open \/ i = Absent THEN fd ELSE [open |-> TRUE, inode |-> i, off |-> 0]

FdOpen(p, create) ==
    LET i == Lookup(mem, disk.data, p)
    IN  /\ mem.mounted
        /\ \/ /\ op = Idle /\ i # Absent /\ mem.inode[i].type = "file"
              /\ fd' = Opened(mem, p)
              /\ UNCHANGED <<mem, disk, op, faults>>
           \/ /\ Ready /\ create /\ Walk(mem, disk.data, p) = Absent
              /\ WriteFile("open", p, 0)

FdClose == op = Idle /\ fd.open /\ fd' = Closed /\ UNCHANGED <<mem, disk, op, faults>>

FileSize(m, i) == IF m.inode[i].type = "file" THEN m.inode[i].size ELSE 0

FdSeek(o) ==
    /\ op = Idle /\ fd.open
    /\ o <= FileSize(mem, fd.inode)
    /\ fd' = [fd EXCEPT !.off = o]
    /\ UNCHANGED <<mem, disk, op, faults>>

\* What a descriptor writes, and what its file then holds: the text before and
\* after the sectors written is kept.  When the file was cut shorter than the
\* descriptor's offset, the gap holds whatever was in its sectors.
FdText == <<"descriptor">>
Overwritten(m, data, i, off, n) ==
    LET old == TextOf(m, data, i)
        size == IF off + n > Len(old) THEN off + n ELSE Len(old)
    IN  IF off > Len(old) THEN Nothing
        ELSE [type |-> "file",
              text |-> [x \in 1 .. size |-> IF x \in off + 1 .. off + n THEN FdText ELSE old[x]]]

FdWrite(n) ==
    LET i == fd.inode
        old == mem.inode[i]
        need == fd.off + n
        grow == need > old.len
        k == FirstRun(mem.map, need)
        m1 == IF grow THEN [mem EXCEPT !.map = @ \union RunSet(k, need)] ELSE mem
        m2 == IF grow THEN [m1 EXCEPT !.map = @ \ Extent(mem, i),
                                      !.inode[i] = WithExtent(@, k, need)]
              ELSE m1
        m3 == IF need > old.size THEN [m2 EXCEPT !.inode[i] = [@ EXCEPT !.size = need]] ELSE m2
        d1 == Flagged(disk, "dirty")
        copies == IF grow THEN Copy(d1, old.start, k, old.len) ELSE <<>>
        d2 == EndOf(d1, copies)
        text == Fill(d2, m2.inode[i].start + fd.off, n, TextSector(FdText))
    IN  /\ Ready /\ fd.open /\ old.type = "file" /\ need <= MaxOffset
        /\ op' = IF grow /\ ~HasRoom(mem.map, need)
                 THEN Command("fdwrite", <<>>, mem, disk, At(mem, <<d1>>), mem, FALSE, Nothing)
                 ELSE [Command("fdwrite", <<>>, mem, disk,
                         At(mem, <<d1>>) \o At(m1, copies) \o At(m2, text) \o
                         At(m3, FlushTables(EndOf(d2, text), m3, FALSE)), m3, TRUE,
                         Overwritten(mem, disk.data, i, fd.off, n)) EXCEPT !.off = need]
        /\ UNCHANGED <<mem, disk, fd>>

(***************************************************************************)
(* Progress of a command, write errors and power failures.                 *)
(***************************************************************************)
Step ==
    /\ op.todo # <<>>
    /\ mem' = Head(op.todo).mem
    /\ disk' = Head(op.todo).disk
    /\ op' = [op EXCEPT !.todo = Tail(@)]
    /\ UNCHANGED <<fd, faults>>

Finished == op.kind \notin {"idle", "repairing"} /\ op.todo = <<>>

Return ==
    /\ Finished
    /\ mem' = op.end
    /\ op' = IF op.kind = "mkdir" /\ op.ok /\ MissingPrefixes(op.end, disk, op.goal) # {} /\
                CanMkdir(op.end, disk, NextPrefix(op.end, disk, op.goal))
             THEN MkdirSingle(op.goal, NextPrefix(op.end, disk, op.goal), op.end, disk)
             ELSE Idle
    /\ fd' = IF op.kind = "open" /\ op.ok THEN Opened(op.end, op.path)
             ELSE IF op.kind = "fdwrite" /\ op.ok THEN [fd EXCEPT !.off = op.off]
             ELSE fd
    /\ UNCHANGED <<disk, faults>>

WriteError ==
    /\ op.todo # <<>> /\ faults < MaxFaults
    /\ faults' = faults + 1
    /\ mem' = Head(op.todo).mem
    /\ disk' \in {disk, Head(op.todo).disk}
    /\ op' = IF op.kind = "repairing" THEN [op EXCEPT !.todo = <<>>] ELSE Idle
    /\ UNCHANGED fd

Crash ==
    /\ faults < MaxFaults
    /\ faults' = faults + 1
    /\ mem' = Unmounted /\ op' = Idle /\ fd' = Closed
    /\ UNCHANGED disk

Next ==
    \/ \E w \in Writes : Write(w[1], w[2])
    \/ \E p \in DirPaths : Mkdir(p)
    \/ \E p \in Paths : RemovePath(p)
    \/ \E p \in FdPaths, create \in BOOLEAN : FdOpen(p, create)
    \/ FdClose \/ \E o \in 0 .. MaxOffset : FdSeek(o)
    \/ \E n \in FdSizes : FdWrite(n)
    \/ Mount \/ Umount \/ Format
    \/ Repair \/ RepairDirectory \/ RepairTables
    \/ Step \/ Return \/ WriteError \/ Crash

Spec == Init /\ [][Next]_vars

-----------------------------------------------------------------------------
Texts == Paths \union {NoText, DirText, FdText}
Entry == {e \in [name : Names \union {NoName, "?"}, inode : 0 .. BeyondTable] :
             e.name # NoName => e.inode # Root}
Inode == {n \in [type : {"free", "file", "dir"}, start : 0 .. MaxSector, len : 0 .. MaxSector, size : Nat] :
             n.len # 0 => n.start \in Sectors /\ n.start + n.len - 1 \in Sectors}
Sector == [text : Texts, entries : [Slots -> Entry]]
Memory == [mounted : BOOLEAN, inode : [Inodes -> Inode], dir : [Slots -> Entry], map : SUBSET Sectors]
Disk == [super : {"none", "clean", "dirty"}, inode : [Inodes -> Inode], dir : [Slots -> Entry],
         map : SUBSET Sectors, data : [Sectors -> Sector]]

\* Every table stays within the bounds of the volume: extents inside the data
\* area, entries of indices the code tests, the root's under no name, in memory
\* and on the disk.
TypeOK ==
    /\ mem \in Memory /\ disk \in Disk
    /\ fd \in [open : BOOLEAN, inode : 0 .. MaxInode, off : 0 .. MaxOffset]
    /\ faults \in 0 .. MaxFaults

\* The tables in memory are sound, and stay so up to the end of the command.
MemorySound == Sound(mem) /\ Sound(op.end) /\ \A k \in DOMAIN op.todo : Sound(op.todo[k].mem)

\* No command, finished, failed or interrupted, gives a sector to two files in
\* memory or leaves a file's sector free in the bitmap in memory, if that was
\* so when it started; only loading the tables from a disk where it is not can.
SoundKept == [][Mount \/ (MemorySound => MemorySound')]_vars

\* The paths a command may change.
Touched(p) ==
    CASE op.kind \in {"repairing", "repair"} -> FALSE
      [] op.kind = "format" -> TRUE
      [] op.kind = "fdwrite" -> Lookup(disk, disk.data, p) = fd.inode
      [] OTHER -> IsPrefix(op.path, p)

\* A command that starts on a healthy volume leaves every file and directory it
\* is not about readable on the disk and unchanged after each of its sector
\* writes, hence whenever the power fails or a write goes wrong; so does
\* diskrepair on any volume without shared sectors.
OthersSurvive ==
    [][op.sound => \A p \in Paths :
          LET v == View(disk, disk.data, p)
          IN  v # Nothing /\ ~Touched(p) => View(disk', disk'.data, p) = v]_vars

\* A command that reports success from a healthy volume has put all of it on the
\* disk: the tables there are those in memory, diskcheck finds nothing, and the
\* path reads as the command asked.
SuccessDurable ==
    Finished /\ op.ok /\ op.sound /\ op.kind # "repair" =>
        /\ InSync(op.end, disk) /\ disk.super = "clean"
        /\ op.kind \in {"write", "open", "mkdir", "remove"} => View(disk, disk.data, op.path) = op.want
        /\ op.kind = "fdwrite" /\ op.want # Nothing => TextOf(disk, disk.data, fd.inode) = op.want.text

\* While a command has left the disk in a state diskcheck objects to, the disk
\* is marked unclean, so that the mount after a power failure reports it.  The
\* root-directory write, which skips the marking, and diskfmt are left out.
UncleanFlagged ==
    op.sound /\ (op.kind \in {"mkdir", "remove", "fdwrite"} \/ (op.kind \in {"write", "open"} /\ Len(op.path) > 1))
    /\ ~Checked(disk, disk.data) => disk.super = "dirty"

\* diskfs_repair: "Attempt to repair MBFS metadata by rebuilding the bitmap and
\* clearing references to invalid inodes/extents".
RepairRepairs == Finished /\ op.kind = "repair" => Checked(op.end, disk.data)
=============================================================================
