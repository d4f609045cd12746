--------------------------- MODULE MCDoubleBuffer ---------------------------
(* Instances of DoubleBuffer for TLC.  Readers do not write to the segment, so *)
(* one of them meets every behaviour any of them can meet.                     *)
EXTENDS DoubleBuffer, TLC

CONSTANTS r1, c1, c2

MCReaders == {r1}
MCCells == {c1, c2}

Symmetry == Permutations(MCCells)
=============================================================================
