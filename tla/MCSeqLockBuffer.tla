-------------------------- MODULE MCSeqLockBuffer --------------------------
(* Instances of SeqLockBuffer for TLC: readers and cells are interchangeable. *)
EXTENDS SeqLockBuffer, TLC

CONSTANTS r1, r2, c1, c2

MCReaders == {r1, r2}
MCCells == {c1, c2}

Symmetry == Permutations(MCReaders) \cup Permutations(MCCells)
=============================================================================
