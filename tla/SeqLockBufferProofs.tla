------------------------ MODULE SeqLockBufferProofs ------------------------
(***************************************************************************)
(* SeqLockBuffer implements SnapshotRegister, for any number of readers,   *)
(* cells, retries and writes short of a wrap of the counter.               *)
(***************************************************************************)
EXTENDS SeqLockBuffer, TLAPS

\* The counter does not wrap in the range it is used in.
LEMMA NoWrap ==
  ASSUME NEW n \in Nat, n < SeqModulus
  PROVE  SeqWord(n) = n
  BY SeqModulusAssumption DEF SeqWord

LEMMA Parity ==
  ASSUME NEW n \in Nat
  PROVE  IsEven(n + 1) <=> ~IsEven(n)
  BY DEF IsEven

\* The two stores of a write move the counter on, within its range.
LEMMA BeginCounter ==
  ASSUME TypeOK, writes < MaxWrites
  PROVE  /\ NextOddSequence(seq) \in Nat
         /\ NextOddSequence(seq) > seq
         /\ NextOddSequence(seq) <= 2 * (writes + 1)
         /\ ~IsEven(NextOddSequence(seq))
  <1>1. seq \in Nat /\ seq <= 2 * writes /\ writes \in Nat /\ MaxWrites \in Nat
    BY SeqLockAssumption DEF TypeOK, Version
  <1>2. 2 * writes + 2 < SeqModulus
    BY <1>1, SeqLockAssumption, SeqModulusAssumption
  <1>3. CASE IsEven(seq)
    <2>1. SeqWord(seq + 1) = seq + 1
      BY <1>1, <1>2, NoWrap, SeqModulusAssumption
    <2>2. QED BY <1>1, <1>3, <2>1, Parity DEF NextOddSequence
  <1>4. CASE ~IsEven(seq)
    <2>1. seq # 2 * writes
      BY <1>1, <1>4 DEF IsEven
    <2>2. SeqWord(seq + 2) = seq + 2
      BY <1>1, <1>2, <2>1, NoWrap, SeqModulusAssumption
    <2>3. ~IsEven(seq + 2)
      BY <1>1, <1>4 DEF IsEven
    <2>4. QED BY <1>1, <1>4, <2>1, <2>2, <2>3 DEF NextOddSequence
  <1>5. QED BY <1>3, <1>4

LEMMA EndCounter ==
  ASSUME TypeOK, ~IsEven(seq)
  PROVE  /\ NextEvenSequence(seq) = seq + 1
         /\ seq + 1 <= 2 * writes
         /\ IsEven(seq + 1)
  <1>1. seq \in Nat /\ seq <= 2 * writes /\ writes \in Nat /\ MaxWrites \in Nat
        /\ writes <= MaxWrites
    BY SeqLockAssumption DEF TypeOK, Version
  <1>2. seq # 2 * writes
    BY <1>1 DEF IsEven
  <1>3. SeqWord(seq + 1) = seq + 1
    BY <1>1, <1>2, NoWrap, SeqLockAssumption, SeqModulusAssumption
  <1>4. QED BY <1>1, <1>2, <1>3, Parity DEF NextEvenSequence
-----------------------------------------------------------------------------
LEMMA InitInv == Init => SeqLockInv
  <1> SUFFICES ASSUME Init PROVE SeqLockInv
    OBVIOUS
  <1> USE SeqLockAssumption DEF Init, Whole, Version
  <1>1. TypeOK
    <2>1. 0 \in Version /\ [c \in Cells |-> 0] \in [Cells -> Version]
      OBVIOUS
    <2>2. copy \in [Readers -> [Cells -> Version]] /\ got \in [Readers -> [Cells -> Version]]
      BY <2>1
    <2>3. tries \in [Readers -> 0 .. MaxRetries] /\ seq \in 0 .. (2 * writes)
      OBVIOUS
    <2>4. /\ rpc \in [Readers -> {"idle", "start", "copy", "failed"}]
          /\ seq1 \in [Readers -> Nat]
          /\ rest \in [Readers -> SUBSET Cells]
          /\ seen \in [Readers -> SUBSET Version]
      OBVIOUS
    <2>5. QED BY <2>1, <2>2, <2>3, <2>4 DEF TypeOK
  <1>2. EvenMeansStable /\ WriteInProgress /\ stable <= writes
    BY DEF EvenMeansStable, WriteInProgress
  <1>3. ASSUME NEW r \in Readers PROVE CopiedSinceEven(r)
    BY DEF CopiedSinceEven, Reading
  <1>4. QED BY <1>1, <1>2, <1>3 DEF SeqLockInv

LEMMA BeginWriteInv == SeqLockInv /\ BeginWrite => SeqLockInv'
  <1> SUFFICES ASSUME SeqLockInv, BeginWrite PROVE SeqLockInv'
    OBVIOUS
  <1>1. /\ TypeOK /\ stable <= writes /\ writes < MaxWrites
        /\ seq' = NextOddSequence(seq) /\ writes' = writes + 1
        /\ left' = Cells /\ writing' = TRUE
        /\ UNCHANGED <<cells, stable, rpc, seq1, copy, rest, tries, got, seen>>
    BY DEF SeqLockInv, BeginWrite, reader
  <1>2. /\ seq' \in Nat /\ seq' > seq /\ seq' <= 2 * writes' /\ ~IsEven(seq')
        /\ seq \in Nat
    BY <1>1, BeginCounter DEF TypeOK
  <1>3. writes \in Nat /\ stable \in Nat /\ writes' \in Version /\ stable < writes'
    BY <1>1, SeqLockAssumption DEF TypeOK, Version
  <1>4. TypeOK'
    BY <1>1, <1>2, <1>3 DEF TypeOK
  <1>5. EvenMeansStable' /\ WriteInProgress'
    BY <1>1, <1>2, <1>3 DEF EvenMeansStable, WriteInProgress
  <1>6. ASSUME NEW r \in Readers PROVE CopiedSinceEven(r)'
    <2>1. CopiedSinceEven(r) /\ seq1[r] \in Nat
      BY <1>1 DEF SeqLockInv, TypeOK
    <2>2. QED BY <1>1, <1>2, <2>1 DEF CopiedSinceEven, Reading
  <1>7. QED BY <1>1, <1>3, <1>4, <1>5, <1>6 DEF SeqLockInv

LEMMA StoreCellInv ==
  ASSUME SeqLockInv, NEW c \in Cells, StoreCell(c)
  PROVE  SeqLockInv'
  <1>1. /\ TypeOK /\ WriteInProgress /\ writing
        /\ cells' = [cells EXCEPT ![c] = writes] /\ left' = left \ {c}
        /\ UNCHANGED <<seq, writes, writing, stable, rpc, seq1, copy, rest, tries,
                       got, seen>>
    BY DEF SeqLockInv, StoreCell, reader
  <1>2. cells' \in [Cells -> Version] /\ \A d \in Cells \ left' : cells'[d] = writes
    BY <1>1 DEF TypeOK, WriteInProgress
  <1>3. TypeOK'
    BY <1>1, <1>2 DEF TypeOK
  <1>4. EvenMeansStable' /\ WriteInProgress'
    BY <1>1, <1>2 DEF EvenMeansStable, WriteInProgress
  <1>5. ASSUME NEW r \in Readers PROVE CopiedSinceEven(r)'
    BY <1>1 DEF SeqLockInv, CopiedSinceEven, Reading
  <1>6. QED BY <1>1, <1>3, <1>4, <1>5 DEF SeqLockInv

\* Every read under way may from now on also return the write just completed.
LEMMA SeenFacts ==
  ASSUME seen \in [Readers -> SUBSET Version], NEW n \in Version,
         seen' = [r \in Readers |-> IF seen[r] = {} THEN {} ELSE seen[r] \cup {n}]
  PROVE  /\ seen' \in [Readers -> SUBSET Version]
         /\ \A r \in Readers : /\ (seen'[r] = {}) <=> (seen[r] = {})
                               /\ seen[r] # {} => n \in seen'[r]
  OBVIOUS

LEMMA EndWriteInv == SeqLockInv /\ EndWrite => SeqLockInv'
  <1> SUFFICES ASSUME SeqLockInv, EndWrite PROVE SeqLockInv'
    OBVIOUS
  <1>1. /\ TypeOK /\ WriteInProgress /\ writing /\ left = {}
        /\ seq' = NextEvenSequence(seq) /\ writing' = FALSE /\ stable' = writes
        /\ seen' = [r \in Readers |->
                      IF seen[r] = {} THEN {} ELSE seen[r] \cup {writes}]
        /\ UNCHANGED <<cells, writes, left, rpc, seq1, copy, rest, tries, got>>
    BY DEF SeqLockInv, EndWrite, reader
  <1>2. /\ seq \in Nat /\ writes \in Version /\ writes \in Nat
        /\ seq' = seq + 1 /\ seq' <= 2 * writes /\ IsEven(seq')
    BY <1>1, EndCounter DEF TypeOK, Version, WriteInProgress
  <1>3. /\ seen' \in [Readers -> SUBSET Version]
        /\ \A r \in Readers : /\ (seen'[r] = {}) <=> (seen[r] = {})
                              /\ seen[r] # {} => writes \in seen'[r]
    BY <1>1, <1>2, SeenFacts DEF TypeOK
  <1>4. TypeOK'
    <2>1. seq' \in 0 .. (2 * writes')
      BY <1>1, <1>2
    <2>2. QED BY ONLY <1>1, <1>2, <1>3, <2>1 DEF TypeOK
  <1>5. cells = Whole(writes)
    BY <1>1 DEF TypeOK, WriteInProgress, Whole
  <1>6. EvenMeansStable' /\ WriteInProgress' /\ stable' <= writes'
    BY <1>1, <1>2, <1>5 DEF EvenMeansStable, WriteInProgress, Whole
  <1>7. ASSUME NEW r \in Readers PROVE CopiedSinceEven(r)'
    <2>1. CopiedSinceEven(r) /\ seq1[r] \in Nat
      BY <1>1 DEF SeqLockInv, TypeOK
    <2>2. QED BY <1>1, <1>2, <1>3, <2>1 DEF CopiedSinceEven, Reading
  <1>8. QED BY <1>4, <1>6, <1>7 DEF SeqLockInv

LEMMA CrashWriterInv == SeqLockInv /\ CrashWriter => SeqLockInv'
  BY DEF SeqLockInv, CrashWriter, memory, reader, TypeOK, EvenMeansStable,
         WriteInProgress, CopiedSinceEven, Reading
-----------------------------------------------------------------------------
\* A reader's step leaves the segment, the writer and the other readers alone.
LEMMA OtherReaders ==
  ASSUME SeqLockInv, TypeOK', NEW r \in Readers, CopiedSinceEven(r)',
         UNCHANGED <<memory, writer>>,
         \A q \in Readers \ {r} :
           /\ rpc'[q] = rpc[q] /\ seq1'[q] = seq1[q] /\ copy'[q] = copy[q]
           /\ rest'[q] = rest[q] /\ seen'[q] = seen[q] /\ tries'[q] = tries[q]
  PROVE  SeqLockInv'
  <1>1. ASSUME NEW q \in Readers PROVE CopiedSinceEven(q)'
    <2>1. CASE q = r
      BY <2>1
    <2>2. CASE q # r
      BY <2>2 DEF SeqLockInv, CopiedSinceEven, Reading, memory, writer
    <2>3. QED BY <2>1, <2>2
  <1>2. EvenMeansStable' /\ WriteInProgress' /\ stable' <= writes'
    BY DEF SeqLockInv, EvenMeansStable, WriteInProgress, memory, writer
  <1>3. QED BY <1>1, <1>2 DEF SeqLockInv

LEMMA BeginReadInv ==
  ASSUME SeqLockInv, NEW r \in Readers, BeginRead(r)
  PROVE  SeqLockInv'
  <1>1. /\ TypeOK
        /\ rpc' = [rpc EXCEPT ![r] = "start"] /\ tries' = [tries EXCEPT ![r] = 0]
        /\ seen' = [seen EXCEPT ![r] = {stable}]
        /\ UNCHANGED <<seq, cells, writes, left, writing, stable, seq1, copy, rest,
                       got>>
    BY DEF SeqLockInv, BeginRead, memory, writer
  <1>2. TypeOK'
    BY <1>1, SeqLockAssumption DEF TypeOK
  <1>3. CopiedSinceEven(r)'
    BY <1>1, SeqLockAssumption DEF CopiedSinceEven, Reading, TypeOK
  <1>4. QED
    BY <1>1, <1>2, <1>3, OtherReaders DEF TypeOK, memory, writer

\* A turn of the loop that is not the last keeps the reader reading; the last
\* one gives up.
LEMMA RetryFacts ==
  ASSUME TypeOK, NEW r \in Readers, Reading(r), Retry(r), UNCHANGED stable,
         CopiedSinceEven(r)
  PROVE  /\ rpc' \in [Readers -> {"idle", "start", "copy", "failed"}]
         /\ tries' \in [Readers -> 0 .. MaxRetries]
         /\ seen' \in [Readers -> SUBSET Version]
         /\ rpc'[r] # "copy"
         /\ Reading(r)' => stable' \in seen'[r] /\ tries'[r] < MaxRetries
         /\ (seen'[r] = {}) <=> ~Reading(r)'
         /\ \A q \in Readers \ {r} : /\ rpc'[q] = rpc[q] /\ seen'[q] = seen[q]
                                     /\ tries'[q] = tries[q]
  <1>1. tries' = [tries EXCEPT ![r] = tries[r] + 1] /\ tries[r] \in 0 .. MaxRetries
           /\ tries[r] < MaxRetries
    BY DEF Retry, TypeOK, CopiedSinceEven
  <1>2. CASE tries[r] + 1 < MaxRetries
    <2>1. rpc' = [rpc EXCEPT ![r] = "start"] /\ seen' = seen
      BY <1>2 DEF Retry
    <2>2. tries' \in [Readers -> 0 .. MaxRetries]
      BY <1>1, <1>2, SeqLockAssumption DEF TypeOK
    <2>3. QED
      BY <1>1, <1>2, <2>1, <2>2, SeqLockAssumption DEF TypeOK, Reading, CopiedSinceEven
  <1>3. CASE ~(tries[r] + 1 < MaxRetries)
    <2>1. /\ rpc' = [rpc EXCEPT ![r] = "failed"]
          /\ seen' = [seen EXCEPT ![r] = {}]
      BY <1>3 DEF Retry
    <2>2. tries' \in [Readers -> 0 .. MaxRetries]
      BY <1>1, SeqLockAssumption DEF TypeOK
    <2>3. QED BY <1>1, <2>1, <2>2 DEF TypeOK, Reading
  <1>4. QED BY <1>2, <1>3

LEMMA ReadSequenceInv ==
  ASSUME SeqLockInv, NEW r \in Readers, ReadSequence(r)
  PROVE  SeqLockInv'
  <1>1. /\ TypeOK /\ CopiedSinceEven(r) /\ rpc[r] = "start"
        /\ UNCHANGED <<memory, writer, copy, got>>
    BY DEF SeqLockInv, ReadSequence
  <1>2. CASE IsEven(seq)
    <2>1. /\ seq1' = [seq1 EXCEPT ![r] = seq] /\ rpc' = [rpc EXCEPT ![r] = "copy"]
          /\ rest' = [rest EXCEPT ![r] = Cells] /\ tries' = tries /\ seen' = seen
      BY <1>2 DEF ReadSequence
    <2>2. TypeOK'
      BY <1>1, <2>1 DEF TypeOK, memory, writer
    <2>3. CopiedSinceEven(r)'
      BY <1>1, <2>1 DEF CopiedSinceEven, Reading, TypeOK, memory, writer
    <2>4. QED BY <1>1, <2>1, <2>2, <2>3, OtherReaders DEF TypeOK
  <1>3. CASE ~IsEven(seq)
    <2>1. Retry(r) /\ seq1' = seq1 /\ rest' = rest
      BY <1>3 DEF ReadSequence
    <2>2. Reading(r) /\ stable' = stable
      BY <1>1 DEF Reading, writer
    <2>3. /\ rpc' \in [Readers -> {"idle", "start", "copy", "failed"}]
          /\ tries' \in [Readers -> 0 .. MaxRetries]
          /\ seen' \in [Readers -> SUBSET Version]
          /\ CopiedSinceEven(r)'
          /\ \A q \in Readers \ {r} : /\ rpc'[q] = rpc[q] /\ seen'[q] = seen[q]
                                      /\ tries'[q] = tries[q]
      BY <1>1, <2>1, <2>2, RetryFacts DEF CopiedSinceEven
    <2>4. TypeOK'
      BY <1>1, <2>1, <2>3 DEF TypeOK, memory, writer
    <2>5. QED BY <1>1, <2>1, <2>3, <2>4, OtherReaders
  <1>4. QED BY <1>2, <1>3

LEMMA LoadCellInv ==
  ASSUME SeqLockInv, NEW r \in Readers, NEW c \in Cells, LoadCell(r, c)
  PROVE  SeqLockInv'
  <1>1. /\ TypeOK /\ CopiedSinceEven(r) /\ EvenMeansStable
        /\ rpc[r] = "copy" /\ c \in rest[r]
        /\ copy' = [copy EXCEPT ![r] = [copy[r] EXCEPT ![c] = cells[c]]]
        /\ rest' = [rest EXCEPT ![r] = rest[r] \ {c}]
        /\ UNCHANGED <<seq, cells, writes, left, writing, stable, rpc, seq1, tries,
                       got, seen>>
    BY DEF SeqLockInv, LoadCell, memory, writer
  <1>2. /\ copy' \in [Readers -> [Cells -> Version]]
        /\ copy'[r][c] = cells[c]
        /\ \A d \in Cells \ {c} : copy'[r][d] = copy[r][d]
        /\ \A q \in Readers \ {r} : copy'[q] = copy[q]
    BY <1>1 DEF TypeOK
  <1>3. TypeOK'
    BY <1>1, <1>2 DEF TypeOK
  <1>4. IsEven(seq) => cells[c] = stable
    BY <1>1 DEF EvenMeansStable, Whole
  <1>5. CopiedSinceEven(r)'
    BY <1>1, <1>2, <1>4 DEF CopiedSinceEven, Reading, TypeOK
  <1>6. QED
    BY <1>1, <1>2, <1>3, <1>5, OtherReaders DEF TypeOK, memory, writer

LEMMA CheckSequenceInv ==
  ASSUME SeqLockInv, NEW r \in Readers, CheckSequence(r)
  PROVE  SeqLockInv'
  <1>1. /\ TypeOK /\ CopiedSinceEven(r) /\ rpc[r] = "copy"
        /\ UNCHANGED <<memory, writer, seq1, copy, rest>>
    BY DEF SeqLockInv, CheckSequence
  <1>2. CASE seq1[r] = seq /\ IsEven(seq)
    <2>1. /\ rpc' = [rpc EXCEPT ![r] = "idle"] /\ seen' = [seen EXCEPT ![r] = {}]
          /\ got' = [got EXCEPT ![r] = copy[r]] /\ tries' = tries
      BY <1>2 DEF CheckSequence
    <2>2. TypeOK'
      BY <1>1, <2>1 DEF TypeOK, memory, writer
    <2>3. CopiedSinceEven(r)'
      BY <1>1, <2>1 DEF CopiedSinceEven, Reading, TypeOK
    <2>4. QED BY <1>1, <2>1, <2>2, <2>3, OtherReaders DEF TypeOK
  <1>3. CASE ~(seq1[r] = seq /\ IsEven(seq))
    <2>1. Retry(r) /\ got' = got
      BY <1>3 DEF CheckSequence
    <2>2. Reading(r) /\ stable' = stable
      BY <1>1 DEF Reading, writer
    <2>3. /\ rpc' \in [Readers -> {"idle", "start", "copy", "failed"}]
          /\ tries' \in [Readers -> 0 .. MaxRetries]
          /\ seen' \in [Readers -> SUBSET Version]
          /\ CopiedSinceEven(r)'
          /\ \A q \in Readers \ {r} : /\ rpc'[q] = rpc[q] /\ seen'[q] = seen[q]
                                      /\ tries'[q] = tries[q]
      BY <1>1, <2>1, <2>2, RetryFacts DEF CopiedSinceEven
    <2>4. TypeOK'
      BY <1>1, <2>1, <2>3 DEF TypeOK, memory, writer
    <2>5. QED BY <1>1, <2>3, <2>4, OtherReaders
  <1>4. QED BY <1>2, <1>3

LEMMA StutterInv == SeqLockInv /\ UNCHANGED vars => SeqLockInv'
  BY DEF SeqLockInv, vars, memory, writer, reader, TypeOK, EvenMeansStable,
         WriteInProgress, CopiedSinceEven, Reading

LEMMA StepInv == SeqLockInv /\ [Next]_vars => SeqLockInv'
  BY BeginWriteInv, StoreCellInv, EndWriteInv, CrashWriterInv, BeginReadInv,
     ReadSequenceInv, LoadCellInv, CheckSequenceInv, StutterInv DEF Next

\* The inductive invariant of the protocol: an even counter means a complete
\* payload, and an unchanged one a complete copy of it.
THEOREM SeqLockInvariant == Spec => []SeqLockInv
  BY InitInv, StepInv, PTL DEF Spec

\* The variables keep their types, the counter within twice the writes.
THEOREM SeqLockTypes == Spec => []TypeOK
  <1>1. SeqLockInv => TypeOK
    BY DEF SeqLockInv
  <1>2. QED BY <1>1, SeqLockInvariant, PTL
-----------------------------------------------------------------------------
LEMMA RegisterInit == Init => Register!Init
  BY DEF Init, Register!Init, Whole, Register!Whole

\* Only the completion of a write, and the two ends of a read, show.
LEMMA EndWriteOffers == SeqLockInv /\ EndWrite => Register!Offer(writes)
  BY DEF SeqLockInv, EndWrite, WriteInProgress, TypeOK, Version, reader,
         Register!Offer, Register!SeenAlso

LEMMA RetryShows ==
  ASSUME NEW r \in Readers, seen[r] # {}, Retry(r), UNCHANGED <<stable, got>>
  PROVE  Register!EndRead(r) \/ UNCHANGED Register!vars
  BY DEF Retry, Register!EndRead, Register!vars

LEMMA CheckSequenceShows ==
  ASSUME SeqLockInv, NEW r \in Readers, CheckSequence(r)
  PROVE  Register!EndRead(r) \/ UNCHANGED Register!vars
  <1>1. /\ TypeOK /\ CopiedSinceEven(r) /\ rpc[r] = "copy" /\ rest[r] = {}
        /\ UNCHANGED stable
    BY DEF SeqLockInv, CheckSequence, writer
  <1>2. seen[r] # {} /\ stable \in seen[r]
    BY <1>1 DEF CopiedSinceEven, Reading
  <1>3. CASE seq1[r] = seq /\ IsEven(seq)
    <2>1. copy[r] = Register!Whole(stable)
      BY <1>1, <1>3 DEF CopiedSinceEven, TypeOK, Register!Whole
    <2>2. /\ seen' = [seen EXCEPT ![r] = {}]
          /\ got' = [got EXCEPT ![r] = copy[r]]
      BY <1>3 DEF CheckSequence
    <2>3. QED BY <1>1, <1>2, <2>1, <2>2 DEF Register!EndRead
  <1>4. CASE ~(seq1[r] = seq /\ IsEven(seq))
    <2>1. Retry(r) /\ got' = got
      BY <1>4 DEF CheckSequence
    <2>2. QED BY <1>1, <1>2, <2>1, RetryShows
  <1>5. QED BY <1>3, <1>4

LEMMA ReaderShows ==
  ASSUME SeqLockInv, NEW r \in Readers,
         BeginRead(r) \/ ReadSequence(r) \/ \E c \in Cells : LoadCell(r, c)
  PROVE  Register!BeginRead(r) \/ Register!EndRead(r) \/ UNCHANGED Register!vars
  <1>1. TypeOK /\ CopiedSinceEven(r)
    BY DEF SeqLockInv
  <1>2. CASE BeginRead(r)
    BY <1>1, <1>2 DEF BeginRead, CopiedSinceEven, Reading, writer,
                      Register!BeginRead
  <1>3. CASE ReadSequence(r)
    <2>1. rpc[r] = "start" /\ seen[r] # {} /\ UNCHANGED <<stable, got>>
      BY <1>1, <1>3 DEF ReadSequence, CopiedSinceEven, Reading, writer
    <2>2. CASE IsEven(seq)
      BY <1>3, <2>1, <2>2 DEF ReadSequence, Register!vars
    <2>3. CASE ~IsEven(seq)
      BY <1>3, <2>1, <2>3, RetryShows DEF ReadSequence
    <2>4. QED BY <2>2, <2>3
  <1>4. CASE \E c \in Cells : LoadCell(r, c)
    BY <1>4 DEF LoadCell, writer, Register!vars
  <1>5. QED BY <1>2, <1>3, <1>4

LEMMA StepShows == SeqLockInv /\ [Next]_vars => [Register!Next]_Register!vars
  <1> SUFFICES ASSUME SeqLockInv, [Next]_vars
               PROVE  [Register!Next]_Register!vars
    OBVIOUS
  <1>1. CASE EndWrite
    <2>1. writes \in Version
      BY DEF SeqLockInv, TypeOK
    <2>2. QED BY <1>1, <2>1, EndWriteOffers DEF Register!Next
  <1>2. CASE \/ BeginWrite \/ CrashWriter \/ UNCHANGED vars
             \/ \E c \in Cells : StoreCell(c)
    BY <1>2 DEF BeginWrite, CrashWriter, StoreCell, vars, writer, reader,
                Register!vars
  <1>3. ASSUME NEW r \in Readers,
               \/ BeginRead(r) \/ ReadSequence(r) \/ CheckSequence(r)
               \/ \E c \in Cells : LoadCell(r, c)
        PROVE  [Register!Next]_Register!vars
    BY <1>3, ReaderShows, CheckSequenceShows DEF Register!Next
  <1>4. QED BY <1>1, <1>2, <1>3 DEF Next

\* read_consistent is a regular read: whole, and current at some moment of it.
THEOREM SeqLockImplementsRegister == Spec => ImplementsRegister
  BY RegisterInit, StepShows, SeqLockInvariant, PTL
     DEF Spec, ImplementsRegister, Register!Spec

\* A completed write leaves the counter even, however many writers crashed.
THEOREM SuccessorUnblocks == Spec => []SuccessorUnblocksReaders
  <1>1. Init => SuccessorUnblocksReaders
    BY DEF Init, SuccessorUnblocksReaders, IsEven
  <1>2. ASSUME SeqLockInv, SuccessorUnblocksReaders, [Next]_vars
        PROVE  SuccessorUnblocksReaders'
    <2>1. CASE EndWrite
      BY <1>2, <2>1, EndCounter DEF EndWrite, SeqLockInv, WriteInProgress,
                              SuccessorUnblocksReaders
    <2>2. CASE CrashWriter
      BY <1>2, <2>2 DEF CrashWriter, SeqLockInv, TypeOK, Version, WriteInProgress,
                  SuccessorUnblocksReaders
    <2>3. CASE BeginWrite \/ \E c \in Cells : StoreCell(c)
      BY <1>2, <2>3 DEF BeginWrite, StoreCell, SuccessorUnblocksReaders
    <2>4. CASE \/ UNCHANGED vars
               \/ \E r \in Readers :
                    \/ BeginRead(r) \/ ReadSequence(r) \/ CheckSequence(r)
                    \/ \E c \in Cells : LoadCell(r, c)
      BY <1>2, <2>4 DEF BeginRead, ReadSequence, CheckSequence, LoadCell, vars, memory,
                  writer, SuccessorUnblocksReaders
    <2>5. QED BY <1>2, <2>1, <2>2, <2>3, <2>4 DEF Next
  <1>3. QED BY <1>1, <1>2, SeqLockInvariant, PTL DEF Spec
=============================================================================
