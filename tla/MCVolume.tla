------------------------------ MODULE MCVolume ------------------------------
(***************************************************************************)
(* An instance of Volume for TLC: a directory that may hold a file or      *)
(* another directory, and a file beside it that is also written through a  *)
(* descriptor.  Three inodes and three sectors are too few for everything  *)
(* the commands ask for.                                                   *)
(***************************************************************************)
EXTENDS Volume

CONSTANTS docs, note

File == <<note>>
Dir == <<docs>>
Inner == <<docs, note>>

AllPaths == {File, Dir, Inner}
Written == {<<File, 1>>, <<File, 2>>, <<Inner, 2>>}
MadePaths == {Dir, Inner}
OpenedPaths == {File}

Flat(t) == \A i \in Inodes : t.inode[i].type # "dir"

\* Descriptors are followed while the volume holds no directory and nothing has
\* failed: a command through one touches no directory.
DescriptorsOnFlatVolumes ==
    fd.open \/ op.kind \in {"open", "fdwrite"} => Flat(disk) /\ Flat(mem) /\ faults = 0
=============================================================================
