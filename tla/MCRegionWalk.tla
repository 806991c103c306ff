---------------------------- MODULE MCRegionWalk ----------------------------
(* Twelve pages of two units; page 2 is the first above the kernel.            *)
EXTENDS RegionWalk

E(a, l, u) == [addr |-> a, len |-> l, usable |-> u]

\* One or two entries with any alignment that end below the last page of the
\* word, in any order and with a reserved hole between them, and an entry
\* beyond the word, which the code must skip.
MCMaps ==
    {<<E(a, l, u), E(b, k, TRUE)>> :
        a \in 2..9, l \in 0..4, u \in BOOLEAN, b \in {13, 14}, k \in 0..5}
    \cup {<<E(14, 4, TRUE), E(5, 4, FALSE), E(a, 4, TRUE)>> : a \in 9..10}
    \cup {<<E(a, 5, TRUE), E(25, 9, TRUE)>> : a \in 3..9}
    \cup {<<>>}

ASSUME OrdinaryMaps == BelowTop /\ NoOverlap
=============================================================================
