--------------------------- MODULE SequenceCounter ---------------------------
(***************************************************************************)
(* The uint64 counter of buffer.py that marks a region of shared memory as *)
(* stable (even) or being written (odd).  A writer that finds it odd, left *)
(* so by a crashed one, moves on to the next odd value.                    *)
(***************************************************************************)
EXTENDS Naturals

CONSTANT SeqModulus  \* 2^64 in the code

ASSUME SeqModulusAssumption == SeqModulus \in Nat /\ SeqModulus > 1

SeqWord(n) == n % SeqModulus

IsEven(seq) == seq % 2 = 0

NextOddSequence(seq) == SeqWord(IF IsEven(seq) THEN seq + 1 ELSE seq + 2)

NextEvenSequence_Same(seq) == SeqWord(seq)

NextEvenSequence(seq) == SeqWord(IF IsEven(seq) THEN seq ELSE seq + 1)
=============================================================================
