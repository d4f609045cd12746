------------------------- MODULE DoubleBufferProofs -------------------------
(***************************************************************************)
(* DoubleBuffer implements SnapshotRegister, and its reads are turned back *)
(* only by flips, for any number of readers, cells, retries and writes     *)
(* short of a wrap of the counters.                                        *)
(***************************************************************************)
EXTENDS DoubleBuffer, FiniteSetTheorems, TLAPS

\* The active slot holds the current write; the spare one what the writer has
\* stored so far, under an odd counter until it is complete.
WriterInv ==
  /\ current <= latest /\ latest <= writes
  /\ IsEven(seq[active]) /\ cells[active] = Whole(current)
  /\ wpc = "fill" => /\ ~IsEven(seq[Spare]) /\ latest < writes
                     /\ \A c \in Cells \ left : cells[Spare][c] = writes
  /\ wpc = "flip" => /\ IsEven(seq[Spare]) /\ cells[Spare] = Whole(latest)
                     /\ current < latest

\* The writes a read has seen become current.  Each turn of its loop but the
\* last was ended by one more of them.
Flipped(r) == {n \in seen[r] : n <= current}
Overtaken(r) == tries[r] + 1 < Cardinality(Flipped(r))

Under(r) == rpc[r] \notin {"idle", "failed"}
Trying(r) == rpc[r] \in {"sequence", "copy", "index"}

\* A read knows the current write, and has not given up.
ReadUnderway(r) ==
  /\ (seen[r] = {}) <=> ~Under(r)
  /\ Under(r) => current \in seen[r]
  /\ Reading(r) => tries[r] < MaxRetries /\ tries[r] < Cardinality(Flipped(r))

\* A slot a reader looks at holds a write it has seen, whenever its counter is
\* even, and ceases to be the active one by a flip only.
SlotSeen(r) ==
  Trying(r) =>
    /\ index1[r] # active => Overtaken(r)
    /\ IsEven(seq[index1[r]]) => \E n \in seen[r] : cells[index1[r]] = Whole(n)

\* While the counter has not moved, the copy is one of the slot.
CopyTrue(r) ==
  rpc[r] = "copy" =>
    /\ IsEven(seq1[r]) /\ seq1[r] <= seq[index1[r]]
    /\ seq1[r] # seq[index1[r]] => Overtaken(r)
    /\ seq1[r] = seq[index1[r]]
         => \A c \in Cells \ rest[r] : copy[r][c] = cells[index1[r]][c]

CopyWhole(r) ==
  rpc[r] = "index" =>
    /\ IsEven(seq1[r])
    /\ seq1[r] # seq2[r] => Overtaken(r)
    /\ seq1[r] = seq2[r] => \E n \in seen[r] : copy[r] = Whole(n)

\* A relaxed read looks at the slot that was active when it began, and copies
\* the write that was current then, as long as the slot holds it.
RelaxedCopy(r) ==
  rpc[r] = "relaxed" =>
    \A first \in seen[r] : (\A n \in seen[r] : first <= n) =>
      /\ current = first => index1[r] = active
      /\ cells[index1[r]] = Whole(first)
           => \A c \in Cells \ rest[r] : copy[r][c] = first

ReaderInv(r) ==
  ReadUnderway(r) /\ SlotSeen(r) /\ CopyTrue(r) /\ CopyWhole(r) /\ RelaxedCopy(r)

DoubleBufferInv == TypeOK /\ WriterInv /\ \A r \in Readers : ReaderInv(r)
-----------------------------------------------------------------------------
(***************************************************************************)
(* Counters and counts.                                                    *)
(***************************************************************************)
LEMMA NoWrap ==
  ASSUME NEW n \in Nat, n < SeqModulus
  PROVE  SeqWord(n) = n
  BY SeqModulusAssumption DEF SeqWord

LEMMA Parity ==
  ASSUME NEW n \in Nat
  PROVE  IsEven(n + 1) <=> ~IsEven(n)
  BY DEF IsEven

LEMMA BeginCounter ==
  ASSUME writes \in Nat, writes < MaxWrites, NEW n \in 0 .. 2 * writes
  PROVE  /\ NextOddSequence(n) \in 0 .. 2 * (writes + 1)
         /\ NextOddSequence(n) > n /\ ~IsEven(NextOddSequence(n))
  <1>1. n \in Nat /\ n <= 2 * writes /\ 2 * writes + 2 < SeqModulus
    BY DoubleBufferAssumption, SeqModulusAssumption
  <1>2. CASE IsEven(n)
    <2>1. SeqWord(n + 1) = n + 1
      BY <1>1, NoWrap, SeqModulusAssumption
    <2>2. QED BY <1>1, <1>2, <2>1, Parity DEF NextOddSequence
  <1>3. CASE ~IsEven(n)
    <2>1. n # 2 * writes
      BY <1>1, <1>3 DEF IsEven
    <2>2. SeqWord(n + 2) = n + 2
      BY <1>1, <2>1, NoWrap, SeqModulusAssumption
    <2>3. ~IsEven(n + 2)
      BY <1>1, <1>3 DEF IsEven
    <2>4. QED BY <1>1, <1>3, <2>1, <2>2, <2>3 DEF NextOddSequence
  <1>4. QED BY <1>2, <1>3

LEMMA EndCounter ==
  ASSUME writes \in Nat, writes <= MaxWrites, NEW n \in 0 .. 2 * writes, ~IsEven(n)
  PROVE  /\ NextEvenSequence(n) \in 0 .. 2 * writes
         /\ NextEvenSequence(n) > n /\ IsEven(NextEvenSequence(n))
  <1>1. n \in Nat /\ n <= 2 * writes /\ 2 * writes < SeqModulus
    BY DoubleBufferAssumption, SeqModulusAssumption
  <1>2. n # 2 * writes
    BY <1>1 DEF IsEven
  <1>3. SeqWord(n + 1) = n + 1
    BY <1>1, <1>2, NoWrap, SeqModulusAssumption
  <1>4. QED BY <1>1, <1>2, <1>3, Parity DEF NextEvenSequence

LEMMA Slots ==
  ASSUME TypeOK
  PROVE  /\ active \in Slot /\ Spare \in Slot /\ Spare # active
         /\ \A s \in Slot : s = active \/ s = Spare
         /\ \A s \in Slot : seq[s] \in 0 .. 2 * writes /\ seq[s] \in Nat
  BY DEF TypeOK, Slot, Spare, Version

LEMMA SeenIsFinite ==
  ASSUME NEW S \in SUBSET Version, NEW n \in Nat
  PROVE  /\ IsFiniteSet(S) /\ Cardinality(S) \in Nat
         /\ Cardinality({k \in S : k <= n}) \in Nat
         /\ Cardinality({k \in S : k <= n}) <= Cardinality(S)
  <1>1. IsFiniteSet(Version)
    BY FS_Interval, DoubleBufferAssumption DEF Version
  <1>2. IsFiniteSet(S)
    BY <1>1, FS_Subset
  <1>3. {k \in S : k <= n} \in SUBSET S
    OBVIOUS
  <1>4. QED BY <1>2, <1>3, FS_Subset, FS_CardinalityType

\* A flip makes one more write current.
LEMMA FlipCounts ==
  ASSUME NEW S \in SUBSET Version, NEW n \in Version, NEW k \in Nat, k < n
  PROVE  Cardinality({i \in S : i <= k}) + 1 <= Cardinality({i \in S \cup {n} : i <= n})
  <1> DEFINE old == {i \in S : i <= k}
             new == {i \in S \cup {n} : i <= n}
  <1>1. n \in Nat /\ n \in Version /\ \A i \in S : i \in Nat /\ i \in Version
    BY DEF Version
  <1>2. /\ \A i \in old : i \in S /\ i <= k /\ i <= n
        /\ old \in SUBSET Version /\ n \notin old
    <2>1. ASSUME NEW i \in old PROVE i \in S /\ i <= k /\ i \in Nat /\ i \in Version
      BY <1>1
    <2>2. ASSUME NEW i \in Nat, i <= k PROVE i <= n
      BY <1>1, <2>2
    <2>3. ~(n <= k)
      BY <1>1
    <2>4. QED BY <2>1, <2>2, <2>3
  <1>8. new \in SUBSET Version
    BY <1>1
  <1>3. IsFiniteSet(old) /\ IsFiniteSet(new)
    BY <1>2, <1>8, SeenIsFinite
  <1>4. old \cup {n} \in SUBSET new
    <2>1. n <= n
      BY <1>1
    <2>2. QED BY <1>2, <2>1
  <1>5. Cardinality(old \cup {n}) = Cardinality(old) + 1
    BY <1>2, <1>3, FS_AddElement
  <1>6. Cardinality(old \cup {n}) <= Cardinality(new)
    BY <1>3, <1>4, FS_Subset
  <1>7. QED BY <1>5, <1>6
-----------------------------------------------------------------------------
LEMMA InitInv == Init => DoubleBufferInv
  <1> SUFFICES ASSUME Init PROVE DoubleBufferInv
    OBVIOUS
  <1> USE DoubleBufferAssumption DEF Init, Whole, Version, Slot
  <1>1. TypeOK
    <2>1. 0 \in Version /\ [c \in Cells |-> 0] \in [Cells -> Version]
      OBVIOUS
    <2>2. /\ copy \in [Readers -> [Cells -> Version]] /\ got \in [Readers -> [Cells -> Version]]
          /\ cells \in [Slot -> [Cells -> Version]]
      BY <2>1
    <2>3. tries \in [Readers -> 0 .. MaxRetries] /\ seq \in [Slot -> 0 .. 2 * writes]
      OBVIOUS
    <2>4. /\ rpc \in [Readers -> ReaderPoint]
          /\ index1 \in [Readers -> Slot]
          /\ seq1 \in [Readers -> Nat] /\ seq2 \in [Readers -> Nat]
          /\ rest \in [Readers -> SUBSET Cells]
          /\ seen \in [Readers -> SUBSET Version]
      BY DEF ReaderPoint
    <2>5. QED BY <2>1, <2>2, <2>3, <2>4 DEF TypeOK
  <1>2. WriterInv
    BY DEF WriterInv, IsEven
  <1>3. ASSUME NEW r \in Readers PROVE ReaderInv(r)
    BY DEF ReaderInv, ReadUnderway, SlotSeen, CopyTrue, CopyWhole, RelaxedCopy, Under,
           Trying, Reading
  <1>4. QED BY <1>1, <1>2, <1>3 DEF DoubleBufferInv
-----------------------------------------------------------------------------
(***************************************************************************)
(* The writer's steps.                                                     *)
(***************************************************************************)
LEMMA BeginWriteInv == DoubleBufferInv /\ BeginWrite => DoubleBufferInv'
  <1> SUFFICES ASSUME DoubleBufferInv, BeginWrite PROVE DoubleBufferInv'
    OBVIOUS
  <1>1. /\ TypeOK /\ WriterInv /\ writes < MaxWrites
        /\ seq' = [seq EXCEPT ![Spare] = NextOddSequence(seq[Spare])]
        /\ writes' = writes + 1 /\ left' = Cells /\ wpc' = "fill"
        /\ UNCHANGED <<active, cells, latest, current, rpc, index1, seq1, seq2, copy,
                       rest, tries, got, seen>>
    BY DEF DoubleBufferInv, BeginWrite, reader
  <1>2. /\ writes \in Nat /\ writes' \in Version /\ latest \in Nat /\ current \in Nat
        /\ latest <= writes
    BY <1>1, DoubleBufferAssumption DEF TypeOK, Version, WriterInv
  <1>3. /\ active \in Slot /\ Spare \in Slot /\ Spare # active /\ Spare' = Spare
        /\ \A s \in Slot : s = active \/ s = Spare
        /\ \A s \in Slot : seq[s] \in 0 .. 2 * writes /\ seq[s] \in Nat
    BY <1>1, Slots DEF Spare
  <1>4. /\ seq'[Spare] \in 0 .. 2 * writes' /\ seq'[Spare] > seq[Spare]
        /\ ~IsEven(seq'[Spare]) /\ seq'[active] = seq[active]
    BY <1>1, <1>2, <1>3, BeginCounter DEF TypeOK
  <1>5. seq' \in [Slot -> 0 .. 2 * writes']
    BY <1>1, <1>2, <1>3, <1>4 DEF TypeOK
  <1>6. TypeOK'
    BY <1>1, <1>2, <1>5 DEF TypeOK
  <1>7. WriterInv'
    BY <1>1, <1>2, <1>3, <1>4 DEF WriterInv
  <1>8. ASSUME NEW r \in Readers PROVE ReaderInv(r)'
    <2>1. ReaderInv(r) /\ index1[r] \in Slot /\ seq1[r] \in Nat
      BY <1>1 DEF DoubleBufferInv, TypeOK
    <2>2. Flipped(r)' = Flipped(r) /\ Overtaken(r)' = Overtaken(r)
      BY <1>1 DEF Flipped, Overtaken
    <2>3. ReadUnderway(r)' /\ CopyWhole(r)' /\ RelaxedCopy(r)'
      BY <1>1, <2>1, <2>2 DEF ReaderInv, ReadUnderway, CopyWhole, RelaxedCopy, Under, Reading,
                                Whole
    <2>4. SlotSeen(r)'
      BY <1>1, <1>3, <1>4, <2>1, <2>2 DEF ReaderInv, SlotSeen, Trying
    <2>5. CopyTrue(r)'
      BY <1>1, <1>3, <1>4, <2>1, <2>2 DEF ReaderInv, SlotSeen, CopyTrue, Trying
    <2>6. QED BY <2>3, <2>4, <2>5 DEF ReaderInv
  <1>9. QED BY <1>6, <1>7, <1>8 DEF DoubleBufferInv

LEMMA StoreCellInv ==
  ASSUME DoubleBufferInv, NEW c \in Cells, StoreCell(c)
  PROVE  DoubleBufferInv'
  <1>1. /\ TypeOK /\ WriterInv /\ wpc = "fill"
        /\ cells' = [cells EXCEPT ![Spare] = [cells[Spare] EXCEPT ![c] = writes]]
        /\ left' = left \ {c}
        /\ UNCHANGED <<active, seq, writes, wpc, latest, current, rpc, index1, seq1, seq2,
                       copy, rest, tries, got, seen>>
    BY DEF DoubleBufferInv, StoreCell, reader
  <1>2. /\ active \in Slot /\ Spare \in Slot /\ Spare # active /\ Spare' = Spare
        /\ \A s \in Slot : s = active \/ s = Spare
    BY <1>1, Slots DEF Spare
  <1>3. /\ cells' \in [Slot -> [Cells -> Version]] /\ cells'[active] = cells[active]
        /\ \A d \in Cells \ left' : cells'[Spare][d] = writes
    BY <1>1, <1>2 DEF TypeOK, WriterInv
  <1>4. TypeOK'
    BY <1>1, <1>3 DEF TypeOK
  <1>5. WriterInv'
    BY <1>1, <1>2, <1>3 DEF WriterInv
  <1>6. ~IsEven(seq[Spare])
    BY <1>1 DEF WriterInv
  <1>7. ASSUME NEW r \in Readers PROVE ReaderInv(r)'
    <2>1. ReaderInv(r) /\ index1[r] \in Slot
      BY <1>1 DEF DoubleBufferInv, TypeOK
    <2>2. Flipped(r)' = Flipped(r) /\ Overtaken(r)' = Overtaken(r)
      BY <1>1 DEF Flipped, Overtaken
    <2>3. ReadUnderway(r)' /\ CopyWhole(r)'
      BY <1>1, <2>1, <2>2 DEF ReaderInv, ReadUnderway, CopyWhole, Under, Reading, Whole
    <2>7. RelaxedCopy(r)'
      <3> SUFFICES ASSUME rpc[r] = "relaxed", NEW first \in seen[r],
                          \A n \in seen[r] : first <= n
                   PROVE  /\ current = first => index1[r] = active
                          /\ cells'[index1[r]] = Whole(first)
                               => \A d \in Cells \ rest[r] : copy[r][d] = first
        BY <1>1 DEF RelaxedCopy, Whole
      <3>1. /\ current = first => index1[r] = active
            /\ cells[index1[r]] = Whole(first)
                 => \A d \in Cells \ rest[r] : copy[r][d] = first
        BY <2>1 DEF ReaderInv, RelaxedCopy
      <3>2. CASE index1[r] = active
        BY <1>3, <3>1, <3>2
      <3>3. CASE index1[r] = Spare
        <4>1. /\ current \in seen[r] /\ current \in Nat /\ latest \in Nat /\ writes \in Nat
              /\ first \in Nat /\ current <= latest /\ latest <= writes
          BY <1>1, <2>1 DEF ReaderInv, ReadUnderway, Under, TypeOK, Version, WriterInv
        <4>2. first < writes
          BY <1>2, <3>1, <3>3, <4>1
        <4>3. cells'[Spare][c] = writes
          BY <1>1, <1>2 DEF TypeOK
        <4>4. cells'[Spare] # Whole(first)
          BY <4>1, <4>2, <4>3 DEF Whole
        <4>5. QED BY <3>1, <3>3, <4>4
      <3>4. QED BY <1>2, <2>1, <3>2, <3>3
    <2>4. SlotSeen(r)'
      BY <1>1, <1>2, <1>3, <1>6, <2>1, <2>2 DEF ReaderInv, SlotSeen, Trying
    <2>5. CopyTrue(r)'
      BY <1>1, <1>2, <1>3, <1>6, <2>1, <2>2 DEF ReaderInv, CopyTrue
    <2>6. QED BY <2>3, <2>4, <2>5, <2>7 DEF ReaderInv
  <1>8. QED BY <1>4, <1>5, <1>7 DEF DoubleBufferInv

\* What SeenAlso does to the reads under way.
LEMMA SeenFacts ==
  ASSUME TypeOK, NEW n \in Version, SeenAlso(n)
  PROVE  /\ seen' \in [Readers -> SUBSET Version]
         /\ \A r \in Readers :
              /\ (seen'[r] = {}) <=> (seen[r] = {})
              /\ seen[r] # {} => seen'[r] = seen[r] \cup {n}
  BY DEF TypeOK, SeenAlso

LEMMA EndFillInv == DoubleBufferInv /\ EndFill => DoubleBufferInv'
  <1> SUFFICES ASSUME DoubleBufferInv, EndFill PROVE DoubleBufferInv'
    OBVIOUS
  <1>1. /\ TypeOK /\ WriterInv /\ wpc = "fill" /\ left = {}
        /\ seq' = [seq EXCEPT ![Spare] = NextEvenSequence(seq[Spare])]
        /\ wpc' = "flip" /\ latest' = writes /\ SeenAlso(writes)
        /\ UNCHANGED <<active, cells, writes, left, current, rpc, index1, seq1, seq2,
                       copy, rest, tries, got>>
    BY DEF DoubleBufferInv, EndFill, reader
  <1>2. /\ writes \in Nat /\ writes \in Version /\ writes <= MaxWrites
        /\ latest \in Nat /\ current \in Nat /\ current < writes
    BY <1>1, DoubleBufferAssumption DEF TypeOK, Version, WriterInv
  <1>3. /\ active \in Slot /\ Spare \in Slot /\ Spare # active /\ Spare' = Spare
        /\ \A s \in Slot : s = active \/ s = Spare
        /\ \A s \in Slot : seq[s] \in 0 .. 2 * writes /\ seq[s] \in Nat
    BY <1>1, Slots DEF Spare
  <1>4. /\ seq'[Spare] \in 0 .. 2 * writes /\ seq'[Spare] > seq[Spare]
        /\ IsEven(seq'[Spare]) /\ seq'[active] = seq[active]
    BY <1>1, <1>2, <1>3, EndCounter DEF TypeOK, WriterInv
  <1>5. seq' \in [Slot -> 0 .. 2 * writes']
    BY <1>1, <1>3, <1>4 DEF TypeOK
  <1>6. /\ seen' \in [Readers -> SUBSET Version]
        /\ \A r \in Readers :
              /\ (seen'[r] = {}) <=> (seen[r] = {})
              /\ seen[r] # {} => seen'[r] = seen[r] \cup {writes}
    BY <1>1, <1>2, SeenFacts
  <1>7. TypeOK'
    BY <1>1, <1>2, <1>5, <1>6 DEF TypeOK
  <1>8. cells[Spare] = Whole(writes)
    <2>1. cells[Spare] \in [Cells -> Version] /\ \A c \in Cells : cells[Spare][c] = writes
      BY <1>1, <1>3 DEF TypeOK, WriterInv
    <2>2. QED BY <2>1 DEF Whole
  <1>9. WriterInv'
    BY <1>1, <1>2, <1>3, <1>4, <1>8 DEF WriterInv, Whole
  <1>10. ASSUME NEW r \in Readers PROVE ReaderInv(r)'
    <2>1. ReaderInv(r) /\ index1[r] \in Slot /\ seq1[r] \in Nat /\ seen[r] \subseteq Version
      BY <1>1 DEF DoubleBufferInv, TypeOK
    <2>2. Flipped(r)' = Flipped(r)
      BY <1>1, <1>2, <1>6 DEF Flipped
    <2>3. Overtaken(r)' = Overtaken(r)
      BY <1>1, <2>2 DEF Overtaken
    <2>4. ReadUnderway(r)' /\ CopyWhole(r)'
      BY <1>1, <1>6, <2>1, <2>2, <2>3
      DEF ReaderInv, ReadUnderway, CopyWhole, Under, Reading, Whole
    <2>5. RelaxedCopy(r)'
      <3> SUFFICES ASSUME rpc[r] = "relaxed", NEW first \in seen'[r],
                          \A n \in seen'[r] : first <= n
                   PROVE  /\ current = first => index1[r] = active
                          /\ cells[index1[r]] = Whole(first)
                               => \A c \in Cells \ rest[r] : copy[r][c] = first
        BY <1>1 DEF RelaxedCopy, Whole
      <3>1. seen'[r] = seen[r] \cup {writes} /\ current \in seen[r]
        BY <1>6, <2>1 DEF ReaderInv, ReadUnderway, Under
      <3>2. current \in Nat /\ latest \in Nat /\ writes \in Nat
            /\ current <= latest /\ latest < writes
        BY <1>1 DEF TypeOK, Version, WriterInv
      <3>3. first \in seen[r] /\ \A n \in seen[r] : first <= n
        BY <3>1, <3>2
      <3>4. QED BY <2>1, <3>3 DEF ReaderInv, RelaxedCopy
    <2>6. SlotSeen(r)'
      <3> SUFFICES ASSUME Trying(r)
                   PROVE  /\ index1[r] # active => Overtaken(r)
                          /\ IsEven(seq'[index1[r]]) =>
                               \E n \in seen'[r] : cells[index1[r]] = Whole(n)
        BY <1>1, <2>3 DEF SlotSeen, Trying, Whole
      <3>1. seen'[r] = seen[r] \cup {writes}
        BY <1>6, <2>1 DEF ReaderInv, ReadUnderway, Under, Trying
      <3>2. CASE index1[r] = Spare
        BY <1>8, <2>1, <3>1, <3>2 DEF ReaderInv, SlotSeen
      <3>3. CASE index1[r] = active
        BY <1>4, <2>1, <3>1, <3>3 DEF ReaderInv, SlotSeen
      <3>4. QED BY <1>3, <2>1, <3>2, <3>3
    <2>7. CopyTrue(r)'
      BY <1>1, <1>3, <1>4, <2>1, <2>3 DEF ReaderInv, SlotSeen, CopyTrue, Trying
    <2>8. QED BY <2>4, <2>5, <2>6, <2>7 DEF ReaderInv
  <1>11. QED BY <1>7, <1>9, <1>10 DEF DoubleBufferInv

LEMMA FlipInv == DoubleBufferInv /\ Flip => DoubleBufferInv'
  <1> SUFFICES ASSUME DoubleBufferInv, Flip PROVE DoubleBufferInv'
    OBVIOUS
  <1>1. /\ TypeOK /\ WriterInv /\ wpc = "flip"
        /\ active' = Spare /\ wpc' = "idle" /\ current' = latest /\ SeenAlso(latest)
        /\ UNCHANGED <<seq, cells, writes, left, latest, rpc, index1, seq1, seq2,
                       copy, rest, tries, got>>
    BY DEF DoubleBufferInv, Flip, reader
  <1>2. /\ latest \in Version /\ latest \in Nat /\ current \in Nat /\ current < latest
        /\ latest <= writes
    BY <1>1 DEF TypeOK, Version, WriterInv
  <1>3. /\ active \in Slot /\ Spare \in Slot /\ Spare # active
        /\ \A s \in Slot : s = active \/ s = Spare
    BY <1>1, Slots
  <1>4. /\ seen' \in [Readers -> SUBSET Version]
        /\ \A r \in Readers :
              /\ (seen'[r] = {}) <=> (seen[r] = {})
              /\ seen[r] # {} => seen'[r] = seen[r] \cup {latest}
    BY <1>1, <1>2, SeenFacts
  <1>5. TypeOK'
    BY <1>1, <1>2, <1>3, <1>4 DEF TypeOK
  <1>6. WriterInv'
    <2>1. IsEven(seq[Spare]) /\ cells[Spare] = Whole(latest)
      BY <1>1 DEF WriterInv
    <2>2. latest \in Nat /\ latest <= latest
      BY <1>2
    <2>3. QED BY <1>1, <1>2, <2>1, <2>2 DEF WriterInv, Whole
  <1>7. ASSUME NEW r \in Readers PROVE ReaderInv(r)'
    <2>1. /\ ReaderInv(r) /\ index1[r] \in Slot /\ seen[r] \in SUBSET Version
          /\ tries[r] \in Nat
      BY <1>1, DoubleBufferAssumption DEF DoubleBufferInv, TypeOK
    <2>2. CASE ~Under(r)
      BY <1>1, <1>4, <2>1, <2>2
      DEF ReaderInv, ReadUnderway, SlotSeen, CopyTrue, CopyWhole, RelaxedCopy, Under,
          Trying, Reading
    <2>3. CASE Under(r)
      <3>1. seen'[r] = seen[r] \cup {latest} /\ seen[r] # {} /\ current \in seen[r]
        BY <1>4, <2>1, <2>3 DEF ReaderInv, ReadUnderway
      <3>2. Flipped(r)' = {n \in seen[r] \cup {latest} : n <= latest}
        BY <1>1, <3>1 DEF Flipped
      <3>3. /\ Cardinality(Flipped(r)) + 1 <= Cardinality(Flipped(r)')
            /\ Cardinality(Flipped(r)) \in Nat /\ Cardinality(Flipped(r)') \in Nat
        <4>1. seen'[r] \in SUBSET Version
          BY <1>4
        <4>2. Cardinality({n \in seen[r] : n <= current}) \in Nat
          BY <1>2, <2>1, SeenIsFinite
        <4>3. Cardinality({n \in seen'[r] : n <= latest}) \in Nat
          BY <1>2, <4>1, SeenIsFinite
        <4>4. QED BY <1>2, <2>1, <3>1, <3>2, <4>2, <4>3, FlipCounts DEF Flipped
      <3> HIDE DEF Flipped
      <3>4. Overtaken(r) => Overtaken(r)'
        BY <1>1, <2>1, <3>3 DEF Overtaken
      <3>5. ReadUnderway(r)'
        BY <1>1, <2>1, <2>3, <3>1, <3>3 DEF ReaderInv, ReadUnderway, Under, Reading
      <3>6. SlotSeen(r)'
        <4> SUFFICES ASSUME Trying(r)
                     PROVE  /\ index1[r] # Spare => Overtaken(r)'
                            /\ IsEven(seq[index1[r]]) =>
                                 \E n \in seen'[r] : cells[index1[r]] = Whole(n)
          BY <1>1 DEF SlotSeen, Trying, Whole
        <4>1. tries[r] < Cardinality(Flipped(r))
          BY <2>1 DEF ReaderInv, ReadUnderway, Reading, Trying
        <4>2. Overtaken(r)'
          BY <1>1, <2>1, <3>3, <4>1 DEF Overtaken
        <4>3. QED BY <2>1, <3>1, <4>2 DEF ReaderInv, SlotSeen
      <3>7. CopyTrue(r)' /\ CopyWhole(r)'
        BY <1>1, <2>1, <3>1, <3>4 DEF ReaderInv, CopyTrue, CopyWhole, Whole
      <3>8. RelaxedCopy(r)'
        <4> SUFFICES ASSUME rpc[r] = "relaxed", NEW first \in seen'[r],
                            \A n \in seen'[r] : first <= n
                     PROVE  /\ latest = first => index1[r] = Spare
                            /\ cells[index1[r]] = Whole(first)
                                 => \A c \in Cells \ rest[r] : copy[r][c] = first
          BY <1>1 DEF RelaxedCopy, Whole
        <4>1. first # latest
          BY <1>2, <3>1
        <4>2. first \in seen[r] /\ \A n \in seen[r] : first <= n
          BY <3>1, <4>1
        <4>3. QED BY <2>1, <4>1, <4>2 DEF ReaderInv, RelaxedCopy
      <3>9. QED BY <3>5, <3>6, <3>7, <3>8 DEF ReaderInv
    <2>4. QED BY <2>2, <2>3
  <1>8. QED BY <1>5, <1>6, <1>7 DEF DoubleBufferInv

\* A writer that dies leaves the active slot as it was.
LEMMA CrashWriterInv == DoubleBufferInv /\ CrashWriter => DoubleBufferInv'
  <1> SUFFICES ASSUME DoubleBufferInv, CrashWriter PROVE DoubleBufferInv'
    OBVIOUS
  <1>1. /\ wpc' = "idle" /\ left' = {}
        /\ UNCHANGED <<active, seq, cells, writes, latest, current, rpc, index1, seq1, seq2,
                       copy, rest, tries, got, seen>>
    BY DEF CrashWriter, memory, reader
  <1>2. TypeOK' /\ WriterInv'
    BY <1>1 DEF DoubleBufferInv, TypeOK, WriterInv, Whole, Spare
  <1>3. ASSUME NEW r \in Readers PROVE ReaderInv(r)'
    <2>1. ReaderInv(r)
      BY DEF DoubleBufferInv
    <2>2. Flipped(r)' = Flipped(r) /\ Overtaken(r)' = Overtaken(r)
      BY <1>1 DEF Flipped, Overtaken
    <2>3. ReadUnderway(r)' /\ CopyWhole(r)' /\ CopyTrue(r)'
      BY <1>1, <2>1, <2>2 DEF ReaderInv, ReadUnderway, CopyWhole, CopyTrue, Under, Reading, Whole
    <2>4. SlotSeen(r)'
      BY <1>1, <2>1, <2>2 DEF ReaderInv, SlotSeen, Trying, Whole
    <2>5. RelaxedCopy(r)'
      BY <1>1, <2>1 DEF ReaderInv, RelaxedCopy, Whole
    <2>6. QED BY <2>2, <2>3, <2>4, <2>5 DEF ReaderInv
  <1>4. QED BY <1>2, <1>3 DEF DoubleBufferInv
-----------------------------------------------------------------------------
(***************************************************************************)
(* The readers' steps.                                                     *)
(***************************************************************************)

\* A reader's step leaves the segment, the writer and the other readers alone.
LEMMA OtherReaders ==
  ASSUME DoubleBufferInv, TypeOK', NEW r \in Readers, ReaderInv(r)',
         UNCHANGED <<memory, writer>>,
         \A q \in Readers \ {r} :
           /\ rpc'[q] = rpc[q] /\ index1'[q] = index1[q]
           /\ seq1'[q] = seq1[q] /\ seq2'[q] = seq2[q] /\ copy'[q] = copy[q]
           /\ rest'[q] = rest[q] /\ seen'[q] = seen[q] /\ tries'[q] = tries[q]
  PROVE  DoubleBufferInv'
  <1>1. UNCHANGED <<active, seq, cells, writes, left, wpc, latest, current>>
    BY DEF memory, writer
  <1>2. ASSUME NEW q \in Readers, q # r PROVE ReaderInv(q)'
    <2>1. ReaderInv(q)
      BY DEF DoubleBufferInv
    <2>2. /\ rpc'[q] = rpc[q] /\ index1'[q] = index1[q]
          /\ seq1'[q] = seq1[q] /\ seq2'[q] = seq2[q] /\ copy'[q] = copy[q]
          /\ rest'[q] = rest[q] /\ seen'[q] = seen[q] /\ tries'[q] = tries[q]
      BY <1>2
    <2>3. Flipped(q)' = Flipped(q) /\ Overtaken(q)' = Overtaken(q)
      BY <1>1, <2>2 DEF Flipped, Overtaken
    <2>4. ReadUnderway(q)' /\ SlotSeen(q)'
      BY <1>1, <2>1, <2>2, <2>3
      DEF ReaderInv, ReadUnderway, SlotSeen, Under, Trying, Reading, Whole
    <2>5. CopyTrue(q)' /\ CopyWhole(q)' /\ RelaxedCopy(q)'
      BY <1>1, <2>1, <2>2, <2>3 DEF ReaderInv, CopyTrue, CopyWhole, RelaxedCopy, Whole
    <2>6. QED BY <2>4, <2>5 DEF ReaderInv
  <1>3. WriterInv'
    BY <1>1 DEF DoubleBufferInv, WriterInv, Whole, Spare
  <1>4. QED BY <1>2, <1>3 DEF DoubleBufferInv

LEMMA BeginInv ==
  ASSUME DoubleBufferInv, NEW r \in Readers, BeginRead(r) \/ BeginRelaxed(r)
  PROVE  DoubleBufferInv'
  <1>1. /\ TypeOK /\ rpc[r] \in {"idle", "failed"}
        /\ seen' = [seen EXCEPT ![r] = {current}]
        /\ UNCHANGED <<memory, writer, seq1, seq2, copy, got>>
    BY DEF DoubleBufferInv, BeginRead, BeginRelaxed
  <1>2. /\ active \in Slot /\ current \in Nat /\ current \in Version
        /\ UNCHANGED <<active, seq, cells, current, writes, left, wpc, latest>>
    BY <1>1 DEF TypeOK, Version, memory, writer
  <1>3. seen' \in [Readers -> SUBSET Version] /\ seen'[r] = {current}
    BY <1>1, <1>2 DEF TypeOK
  <1>4. Cardinality(Flipped(r)') = 1
    <2>1. Flipped(r)' = {current}
      BY <1>2, <1>3 DEF Flipped
    <2>2. QED BY <2>1, FS_Singleton
  <1>5. CASE BeginRead(r)
    <2>1. /\ rpc' = [rpc EXCEPT ![r] = "start"] /\ tries' = [tries EXCEPT ![r] = 0]
          /\ UNCHANGED <<index1, rest>>
      BY <1>5 DEF BeginRead
    <2>2. tries' \in [Readers -> 0 .. MaxRetries] /\ tries'[r] = 0
      BY <1>1, <2>1, DoubleBufferAssumption DEF TypeOK
    <2>3. rpc' \in [Readers -> ReaderPoint] /\ rpc'[r] = "start"
      BY <1>1, <2>1 DEF TypeOK, ReaderPoint
    <2>4. TypeOK'
      BY <1>1, <1>2, <1>3, <2>1, <2>2, <2>3 DEF TypeOK
    <2>5. ReadUnderway(r)'
      BY <1>2, <1>3, <1>4, <2>2, <2>3, DoubleBufferAssumption DEF ReadUnderway, Under, Reading
    <2>6. ReaderInv(r)'
      BY <2>3, <2>5 DEF ReaderInv, SlotSeen, CopyTrue, CopyWhole, RelaxedCopy, Trying
    <2>7. QED BY <1>1, <2>1, <2>4, <2>6, OtherReaders DEF TypeOK
  <1>6. CASE BeginRelaxed(r)
    <2>1. /\ rpc' = [rpc EXCEPT ![r] = "relaxed"] /\ index1' = [index1 EXCEPT ![r] = active]
          /\ rest' = [rest EXCEPT ![r] = Cells] /\ UNCHANGED tries
      BY <1>6 DEF BeginRelaxed
    <2>2. /\ index1' \in [Readers -> Slot] /\ index1'[r] = active
          /\ rest' \in [Readers -> SUBSET Cells] /\ rest'[r] = Cells
      BY <1>1, <1>2, <2>1 DEF TypeOK
    <2>3. rpc' \in [Readers -> ReaderPoint] /\ rpc'[r] = "relaxed"
      BY <1>1, <2>1 DEF TypeOK, ReaderPoint
    <2>4. TypeOK'
      BY <1>1, <1>2, <1>3, <2>1, <2>2, <2>3 DEF TypeOK
    <2>5. ReadUnderway(r)' /\ RelaxedCopy(r)'
      BY <1>2, <1>3, <2>2, <2>3 DEF ReadUnderway, RelaxedCopy, Under, Reading
    <2>6. ReaderInv(r)'
      BY <2>3, <2>5 DEF ReaderInv, SlotSeen, CopyTrue, CopyWhole, Trying
    <2>7. QED BY <1>1, <2>1, <2>4, <2>6, OtherReaders DEF TypeOK
  <1>7. QED BY <1>5, <1>6

LEMMA ReadIndexInv ==
  ASSUME DoubleBufferInv, NEW r \in Readers, ReadIndex(r)
  PROVE  DoubleBufferInv'
  <1>1. /\ TypeOK /\ WriterInv /\ ReaderInv(r) /\ rpc[r] = "start"
        /\ index1' = [index1 EXCEPT ![r] = active]
        /\ rpc' = [rpc EXCEPT ![r] = "sequence"]
        /\ UNCHANGED <<memory, writer, seq1, seq2, copy, rest, tries, got, seen>>
    BY DEF DoubleBufferInv, ReadIndex
  <1>2. UNCHANGED <<active, seq, cells, current, writes, left, wpc, latest>>
    BY <1>1 DEF memory, writer
  <1>3. /\ index1' \in [Readers -> Slot] /\ index1'[r] = active
        /\ rpc' \in [Readers -> ReaderPoint] /\ rpc'[r] = "sequence"
    BY <1>1 DEF TypeOK, ReaderPoint
  <1>4. TypeOK'
    BY <1>1, <1>2, <1>3 DEF TypeOK
  <1>5. Flipped(r)' = Flipped(r)
    BY <1>1, <1>2 DEF Flipped
  <1>6. current \in seen[r]
    BY <1>1 DEF ReaderInv, ReadUnderway, Under
  <1>7. ReadUnderway(r)'
    BY <1>1, <1>2, <1>3, <1>5 DEF ReaderInv, ReadUnderway, Under, Reading
  <1>8. SlotSeen(r)'
    BY <1>1, <1>2, <1>3, <1>6 DEF SlotSeen, WriterInv, Whole
  <1>9. ReaderInv(r)'
    BY <1>3, <1>7, <1>8 DEF ReaderInv, CopyTrue, CopyWhole, RelaxedCopy
  <1>10. QED BY <1>1, <1>4, <1>9, OtherReaders DEF TypeOK

\* A turn of the loop that was overtaken by a flip and is not the last goes on;
\* the last one gives up.
LEMMA RetryFacts ==
  ASSUME TypeOK, NEW r \in Readers, ReadUnderway(r), Reading(r), Overtaken(r), Retry(r),
         UNCHANGED current
  PROVE  /\ rpc' \in [Readers -> ReaderPoint]
         /\ tries' \in [Readers -> 0 .. MaxRetries]
         /\ seen' \in [Readers -> SUBSET Version]
         /\ ReaderInv(r)'
         /\ \A q \in Readers \ {r} : /\ rpc'[q] = rpc[q] /\ seen'[q] = seen[q]
                                     /\ tries'[q] = tries[q]
  <1>1. /\ tries' = [tries EXCEPT ![r] = tries[r] + 1] /\ tries[r] \in Nat
        /\ tries[r] < MaxRetries /\ tries \in [Readers -> 0 .. MaxRetries]
        /\ rpc \in [Readers -> ReaderPoint] /\ seen \in [Readers -> SUBSET Version]
    BY DEF Retry, TypeOK, ReadUnderway
  <1>2. tries' \in [Readers -> 0 .. MaxRetries] /\ tries'[r] = tries[r] + 1
    BY <1>1, DoubleBufferAssumption
  <1>3. CASE tries[r] + 1 < MaxRetries
    <2>1. rpc' = [rpc EXCEPT ![r] = "start"] /\ seen' = seen
      BY <1>3 DEF Retry
    <2>2. rpc' \in [Readers -> ReaderPoint] /\ rpc'[r] = "start"
      BY <1>1, <2>1 DEF ReaderPoint
    <2>3. Flipped(r)' = Flipped(r)
      BY <2>1 DEF Flipped
    <2>4. ReadUnderway(r)'
      BY <1>2, <1>3, <2>1, <2>2, <2>3 DEF ReadUnderway, Under, Reading, Overtaken
    <2>5. ReaderInv(r)'
      BY <2>2, <2>4 DEF ReaderInv, SlotSeen, CopyTrue, CopyWhole, RelaxedCopy, Trying
    <2>6. QED BY <1>1, <1>2, <2>1, <2>2, <2>5
  <1>4. CASE ~(tries[r] + 1 < MaxRetries)
    <2>1. /\ rpc' = [rpc EXCEPT ![r] = "failed"]
          /\ seen' = [seen EXCEPT ![r] = {}]
      BY <1>4 DEF Retry
    <2>2. /\ rpc' \in [Readers -> ReaderPoint] /\ rpc'[r] = "failed"
          /\ seen' \in [Readers -> SUBSET Version] /\ seen'[r] = {}
      BY <1>1, <2>1 DEF ReaderPoint
    <2>3. ReaderInv(r)'
      BY <2>2 DEF ReaderInv, ReadUnderway, SlotSeen, CopyTrue, CopyWhole, RelaxedCopy,
                  Trying, Under, Reading
    <2>4. QED BY <1>1, <1>2, <2>1, <2>2, <2>3
  <1>5. QED BY <1>3, <1>4

LEMMA ReadSequenceInv ==
  ASSUME DoubleBufferInv, NEW r \in Readers, ReadSequence(r)
  PROVE  DoubleBufferInv'
  <1>1. /\ TypeOK /\ WriterInv /\ ReaderInv(r) /\ rpc[r] = "sequence"
        /\ UNCHANGED <<memory, writer, index1, seq2, copy, got>>
    BY DEF DoubleBufferInv, ReadSequence
  <1>2. /\ UNCHANGED <<active, seq, cells, current, writes, left, wpc, latest>>
        /\ index1[r] \in Slot /\ seq[index1[r]] \in Nat
    BY <1>1, Slots DEF TypeOK, memory, writer
  <1>3. CASE IsEven(seq[index1[r]])
    <2>1. /\ seq1' = [seq1 EXCEPT ![r] = seq[index1[r]]]
          /\ rpc' = [rpc EXCEPT ![r] = "copy"]
          /\ rest' = [rest EXCEPT ![r] = Cells] /\ tries' = tries /\ seen' = seen
      BY <1>3 DEF ReadSequence
    <2>2. /\ seq1' \in [Readers -> Nat] /\ seq1'[r] = seq[index1[r]]
          /\ rest' \in [Readers -> SUBSET Cells] /\ rest'[r] = Cells
          /\ rpc' \in [Readers -> ReaderPoint] /\ rpc'[r] = "copy"
      BY <1>1, <1>2, <2>1 DEF TypeOK, ReaderPoint
    <2>3. TypeOK'
      BY <1>1, <1>2, <2>1, <2>2 DEF TypeOK
    <2>4. Flipped(r)' = Flipped(r) /\ Overtaken(r)' = Overtaken(r)
      BY <1>2, <2>1 DEF Flipped, Overtaken
    <2>5. ReadUnderway(r)' /\ SlotSeen(r)'
      BY <1>1, <1>2, <2>1, <2>2, <2>4
      DEF ReaderInv, ReadUnderway, SlotSeen, Under, Trying, Reading, Whole
    <2>6. CopyTrue(r)'
      BY <1>1, <1>2, <1>3, <2>2 DEF CopyTrue
    <2>7. ReaderInv(r)'
      BY <2>2, <2>5, <2>6 DEF ReaderInv, CopyWhole, RelaxedCopy
    <2>8. QED BY <1>1, <2>1, <2>3, <2>7, OtherReaders DEF TypeOK
  <1>4. CASE ~IsEven(seq[index1[r]])
    <2>1. Retry(r) /\ seq1' = seq1 /\ rest' = rest
      BY <1>4 DEF ReadSequence
    <2>2. index1[r] # active
      BY <1>1, <1>4 DEF WriterInv
    <2>3. ReadUnderway(r) /\ Reading(r) /\ Overtaken(r)
      BY <1>1, <2>2 DEF ReaderInv, SlotSeen, Trying, Reading
    <2>4. /\ rpc' \in [Readers -> ReaderPoint]
          /\ tries' \in [Readers -> 0 .. MaxRetries]
          /\ seen' \in [Readers -> SUBSET Version]
          /\ ReaderInv(r)'
          /\ \A q \in Readers \ {r} : /\ rpc'[q] = rpc[q] /\ seen'[q] = seen[q]
                                      /\ tries'[q] = tries[q]
      BY <1>1, <1>2, <2>1, <2>3, RetryFacts
    <2>5. TypeOK'
      BY <1>1, <1>2, <2>1, <2>4 DEF TypeOK
    <2>6. QED BY <1>1, <2>1, <2>4, <2>5, OtherReaders
  <1>5. QED BY <1>3, <1>4

LEMMA LoadCellInv ==
  ASSUME DoubleBufferInv, NEW r \in Readers, NEW c \in Cells, LoadCell(r, c)
  PROVE  DoubleBufferInv'
  <1>1. /\ TypeOK /\ WriterInv /\ ReaderInv(r)
        /\ rpc[r] \in {"copy", "relaxed"} /\ c \in rest[r]
        /\ copy' = [copy EXCEPT ![r] = [copy[r] EXCEPT ![c] = cells[index1[r]][c]]]
        /\ rest' = [rest EXCEPT ![r] = rest[r] \ {c}]
        /\ UNCHANGED <<memory, writer, rpc, index1, seq1, seq2, tries, got, seen>>
    BY DEF DoubleBufferInv, LoadCell
  <1>2. /\ UNCHANGED <<active, seq, cells, current, writes, left, wpc, latest>>
        /\ index1[r] \in Slot
    BY <1>1 DEF TypeOK, memory, writer
  <1>3. /\ copy' \in [Readers -> [Cells -> Version]]
        /\ copy'[r][c] = cells[index1[r]][c]
        /\ \A d \in Cells \ {c} : copy'[r][d] = copy[r][d]
        /\ \A q \in Readers \ {r} : copy'[q] = copy[q]
        /\ rest' \in [Readers -> SUBSET Cells] /\ rest'[r] = rest[r] \ {c}
    BY <1>1, <1>2 DEF TypeOK
  <1>4. TypeOK'
    BY <1>1, <1>2, <1>3 DEF TypeOK
  <1>5. Flipped(r)' = Flipped(r) /\ Overtaken(r)' = Overtaken(r)
    BY <1>1, <1>2 DEF Flipped, Overtaken
  <1>6. ReadUnderway(r)' /\ SlotSeen(r)'
    BY <1>1, <1>2, <1>5 DEF ReaderInv, ReadUnderway, SlotSeen, Under, Trying, Reading, Whole
  <1>7. CopyTrue(r)'
    BY <1>1, <1>2, <1>3, <1>5 DEF ReaderInv, CopyTrue
  <1>8. RelaxedCopy(r)'
    <2> SUFFICES ASSUME rpc[r] = "relaxed", NEW first \in seen[r],
                        \A n \in seen[r] : first <= n
                 PROVE  /\ current = first => index1[r] = active
                        /\ cells[index1[r]] = Whole(first)
                             => \A d \in Cells \ rest'[r] : copy'[r][d] = first
      BY <1>1, <1>2 DEF RelaxedCopy, Whole
    <2>1. /\ current = first => index1[r] = active
          /\ cells[index1[r]] = Whole(first)
               => \A d \in Cells \ rest[r] : copy[r][d] = first
      BY <1>1 DEF ReaderInv, RelaxedCopy
    <2>2. cells[index1[r]] = Whole(first) => copy'[r][c] = first
      BY <1>3 DEF Whole
    <2>3. QED BY <1>3, <2>1, <2>2
  <1>9. ReaderInv(r)'
    BY <1>1, <1>6, <1>7, <1>8 DEF ReaderInv, CopyWhole
  <1>10. QED BY <1>1, <1>3, <1>4, <1>9, OtherReaders DEF TypeOK

LEMMA ReadSequenceAgainInv ==
  ASSUME DoubleBufferInv, NEW r \in Readers, ReadSequenceAgain(r)
  PROVE  DoubleBufferInv'
  <1>1. /\ TypeOK /\ ReaderInv(r) /\ rpc[r] = "copy" /\ rest[r] = {}
        /\ seq2' = [seq2 EXCEPT ![r] = seq[index1[r]]]
        /\ rpc' = [rpc EXCEPT ![r] = "index"]
        /\ UNCHANGED <<memory, writer, index1, seq1, copy, rest, tries, got, seen>>
    BY DEF DoubleBufferInv, ReadSequenceAgain
  <1>2. /\ UNCHANGED <<active, seq, cells, current, writes, left, wpc, latest>>
        /\ index1[r] \in Slot /\ seq[index1[r]] \in Nat
    BY <1>1, Slots DEF TypeOK, memory, writer
  <1>3. /\ seq2' \in [Readers -> Nat] /\ seq2'[r] = seq[index1[r]]
        /\ rpc' \in [Readers -> ReaderPoint] /\ rpc'[r] = "index"
    BY <1>1, <1>2 DEF TypeOK, ReaderPoint
  <1>4. TypeOK'
    BY <1>1, <1>2, <1>3 DEF TypeOK
  <1>5. Flipped(r)' = Flipped(r) /\ Overtaken(r)' = Overtaken(r)
    BY <1>1, <1>2 DEF Flipped, Overtaken
  <1>6. ReadUnderway(r)' /\ SlotSeen(r)'
    BY <1>1, <1>2, <1>3, <1>5
    DEF ReaderInv, ReadUnderway, SlotSeen, Under, Trying, Reading, Whole
  <1>7. CopyWhole(r)'
    <2>1. /\ IsEven(seq1[r])
          /\ seq1[r] # seq[index1[r]] => Overtaken(r)
          /\ seq1[r] = seq[index1[r]] => \A c \in Cells : copy[r][c] = cells[index1[r]][c]
      BY <1>1 DEF ReaderInv, CopyTrue
    <2>2. seq1[r] = seq[index1[r]] => \E n \in seen[r] : copy[r] = Whole(n)
      <3> SUFFICES ASSUME seq1[r] = seq[index1[r]]
                   PROVE  \E n \in seen[r] : copy[r] = Whole(n)
        OBVIOUS
      <3>1. \A c \in Cells : copy[r][c] = cells[index1[r]][c]
        BY <2>1
      <3>2. copy[r] = cells[index1[r]]
        BY <1>1, <1>2, <3>1 DEF TypeOK
      <3>3. IsEven(seq[index1[r]])
        BY <2>1
      <3>4. PICK n \in seen[r] : cells[index1[r]] = Whole(n)
        BY <1>1, <3>3 DEF ReaderInv, SlotSeen, Trying
      <3>5. QED BY <3>2, <3>4
    <2>3. /\ seq1'[r] = seq1[r] /\ seen'[r] = seen[r] /\ copy'[r] = copy[r]
          /\ seq2'[r] = seq[index1[r]]
      BY <1>1, <1>3
    <2>4. QED BY <1>5, <2>1, <2>2, <2>3 DEF CopyWhole, Whole
  <1>8. ReaderInv(r)'
    BY <1>3, <1>6, <1>7 DEF ReaderInv, CopyTrue, RelaxedCopy
  <1>9. QED BY <1>1, <1>4, <1>8, OtherReaders DEF TypeOK

\* The read that ends has not been overtaken, or the counter would differ.
LEMMA CheckIndexInv ==
  ASSUME DoubleBufferInv, NEW r \in Readers, CheckIndex(r)
  PROVE  DoubleBufferInv'
  <1>1. /\ TypeOK /\ ReaderInv(r) /\ rpc[r] = "index"
        /\ UNCHANGED <<memory, writer, index1, seq1, seq2, copy, rest>>
    BY DEF DoubleBufferInv, CheckIndex
  <1>2. UNCHANGED <<active, seq, cells, current, writes, left, wpc, latest>>
    BY <1>1 DEF memory, writer
  <1>3. CASE index1[r] = active /\ seq1[r] = seq2[r] /\ IsEven(seq2[r])
    <2>1. /\ rpc' = [rpc EXCEPT ![r] = "idle"] /\ seen' = [seen EXCEPT ![r] = {}]
          /\ got' = [got EXCEPT ![r] = copy[r]] /\ tries' = tries
      BY <1>3 DEF CheckIndex
    <2>2. /\ rpc' \in [Readers -> ReaderPoint] /\ rpc'[r] = "idle"
          /\ seen' \in [Readers -> SUBSET Version] /\ seen'[r] = {}
          /\ got' \in [Readers -> [Cells -> Version]]
      BY <1>1, <2>1 DEF TypeOK, ReaderPoint
    <2>3. TypeOK'
      BY <1>1, <1>2, <2>1, <2>2 DEF TypeOK
    <2>4. ReaderInv(r)'
      BY <2>2 DEF ReaderInv, ReadUnderway, SlotSeen, CopyTrue, CopyWhole, RelaxedCopy,
                  Trying, Under, Reading
    <2>5. QED BY <1>1, <2>1, <2>3, <2>4, OtherReaders DEF TypeOK
  <1>4. CASE ~(index1[r] = active /\ seq1[r] = seq2[r] /\ IsEven(seq2[r]))
    <2>1. Retry(r) /\ got' = got
      BY <1>4 DEF CheckIndex
    <2>2. index1[r] # active \/ seq1[r] # seq2[r]
      BY <1>1, <1>4 DEF ReaderInv, CopyWhole
    <2>3. ReadUnderway(r) /\ Reading(r) /\ Overtaken(r)
      BY <1>1, <2>2 DEF ReaderInv, SlotSeen, CopyWhole, Trying, Reading
    <2>4. /\ rpc' \in [Readers -> ReaderPoint]
          /\ tries' \in [Readers -> 0 .. MaxRetries]
          /\ seen' \in [Readers -> SUBSET Version]
          /\ ReaderInv(r)'
          /\ \A q \in Readers \ {r} : /\ rpc'[q] = rpc[q] /\ seen'[q] = seen[q]
                                      /\ tries'[q] = tries[q]
      BY <1>1, <1>2, <2>1, <2>3, RetryFacts
    <2>5. TypeOK'
      BY <1>1, <1>2, <2>1, <2>4 DEF TypeOK
    <2>6. QED BY <1>1, <2>4, <2>5, OtherReaders
  <1>5. QED BY <1>3, <1>4

LEMMA EndRelaxedInv ==
  ASSUME DoubleBufferInv, NEW r \in Readers, EndRelaxed(r)
  PROVE  DoubleBufferInv'
  <1>1. /\ TypeOK
        /\ rpc' = [rpc EXCEPT ![r] = "idle"] /\ seen' = [seen EXCEPT ![r] = {}]
        /\ UNCHANGED <<memory, writer, index1, seq1, seq2, copy, rest, tries, got>>
    BY DEF DoubleBufferInv, EndRelaxed
  <1>2. UNCHANGED <<active, seq, cells, current, writes, left, wpc, latest>>
    BY <1>1 DEF memory, writer
  <1>3. /\ rpc' \in [Readers -> ReaderPoint] /\ rpc'[r] = "idle"
        /\ seen' \in [Readers -> SUBSET Version] /\ seen'[r] = {}
    BY <1>1 DEF TypeOK, ReaderPoint
  <1>4. TypeOK'
    BY <1>1, <1>2, <1>3 DEF TypeOK
  <1>5. ReaderInv(r)'
    BY <1>3 DEF ReaderInv, ReadUnderway, SlotSeen, CopyTrue, CopyWhole, RelaxedCopy,
                Trying, Under, Reading
  <1>6. QED BY <1>1, <1>4, <1>5, OtherReaders DEF TypeOK

LEMMA StutterInv == DoubleBufferInv /\ UNCHANGED vars => DoubleBufferInv'
  <1> SUFFICES ASSUME DoubleBufferInv, UNCHANGED vars PROVE DoubleBufferInv'
    OBVIOUS
  <1>1. UNCHANGED <<active, seq, cells, writes, left, wpc, latest, current, rpc, index1,
                    seq1, seq2, copy, rest, tries, got, seen>>
    BY DEF vars, memory, writer, reader
  <1>2. TypeOK' /\ WriterInv'
    BY <1>1 DEF DoubleBufferInv, TypeOK, WriterInv, Whole, Spare
  <1>3. ASSUME NEW r \in Readers PROVE ReaderInv(r)'
    BY <1>1 DEF DoubleBufferInv, ReaderInv, ReadUnderway, SlotSeen, CopyTrue, CopyWhole,
                RelaxedCopy, Under, Trying, Reading, Flipped, Overtaken, Whole
  <1>4. QED BY <1>2, <1>3 DEF DoubleBufferInv

LEMMA StepInv == DoubleBufferInv /\ [Next]_vars => DoubleBufferInv'
  BY BeginWriteInv, StoreCellInv, EndFillInv, FlipInv, CrashWriterInv, BeginInv,
     ReadIndexInv, ReadSequenceInv, LoadCellInv, ReadSequenceAgainInv, CheckIndexInv,
     EndRelaxedInv, StutterInv DEF Next

\* The inductive invariant of the two slots and of the reads.
THEOREM DoubleBufferInvariant == Spec => []DoubleBufferInv
  BY InitInv, StepInv, PTL DEF Spec

\* The variables keep their types; no read tries more often than it may.
THEOREM DoubleBufferTypes == Spec => []TypeOK
  <1>1. DoubleBufferInv => TypeOK
    BY DEF DoubleBufferInv
  <1>2. QED BY <1>1, DoubleBufferInvariant, PTL

\* Each retry of a consistent read needs one more completed write.
THEOREM RetriesAreFlips == Spec => []RetriesNeedWrites
  <1>1. DoubleBufferInv => RetriesNeedWrites
    <2> SUFFICES ASSUME DoubleBufferInv, NEW r \in Readers, Reading(r)
                 PROVE  tries[r] < Cardinality(seen[r])
      BY DEF RetriesNeedWrites
    <2>1. /\ tries[r] \in Nat /\ tries[r] < Cardinality(Flipped(r))
          /\ seen[r] \in SUBSET Version /\ current \in Nat
      BY DEF DoubleBufferInv, TypeOK, ReaderInv, ReadUnderway, Version
    <2>2. /\ Cardinality(seen[r]) \in Nat /\ Cardinality(Flipped(r)) \in Nat
          /\ Cardinality(Flipped(r)) <= Cardinality(seen[r])
      BY <2>1, SeenIsFinite DEF Flipped
    <2>3. QED BY <2>1, <2>2
  <1>2. QED BY <1>1, DoubleBufferInvariant, PTL

\* A relaxed read that no flip overtook, or whose slot still holds the write that
\* was current when it began, returns that write whole.
THEOREM RelaxedWhole == Spec => []RelaxedWholeUnlessReused
  <1>1. DoubleBufferInv => RelaxedWholeUnlessReused
    <2> SUFFICES ASSUME DoubleBufferInv, NEW r \in Readers, rpc[r] = "relaxed",
                        rest[r] = {}, NEW first \in seen[r],
                        \A n \in seen[r] : first <= n,
                        current = first \/ cells[index1[r]] = Whole(first)
                 PROVE  copy[r] = Whole(first)
      BY DEF RelaxedWholeUnlessReused
    <2>1. /\ current = first => index1[r] = active
          /\ cells[index1[r]] = Whole(first) => \A c \in Cells : copy[r][c] = first
          /\ copy[r] \in [Cells -> Version] /\ cells[active] = Whole(current)
      BY DEF DoubleBufferInv, TypeOK, WriterInv, ReaderInv, RelaxedCopy
    <2>2. \A c \in Cells : copy[r][c] = first
      BY <2>1
    <2>3. QED BY <2>1, <2>2 DEF Whole
  <1>2. QED BY <1>1, DoubleBufferInvariant, PTL
-----------------------------------------------------------------------------
LEMMA RegisterInit == Init => Register!Init
  BY DEF Init, Register!Init, Whole, Register!Whole

\* Only the completion of a write, the flip and the two ends of a read show.
LEMMA EndFillOffers == DoubleBufferInv /\ EndFill => Register!Offer(writes)
  BY DEF DoubleBufferInv, EndFill, WriterInv, TypeOK, Version, reader, SeenAlso,
         Register!Offer, Register!SeenAlso

LEMMA FlipAdopts == Flip => Register!Adopt
  BY DEF Flip, reader, SeenAlso, Register!Adopt, Register!SeenAlso

LEMMA RetryShows ==
  ASSUME NEW r \in Readers, seen[r] # {}, Retry(r), UNCHANGED <<latest, current, got>>
  PROVE  Register!EndRead(r) \/ UNCHANGED Register!vars
  BY DEF Retry, Register!EndRead, Register!vars

LEMMA CheckIndexShows ==
  ASSUME DoubleBufferInv, NEW r \in Readers, CheckIndex(r)
  PROVE  Register!EndRead(r) \/ UNCHANGED Register!vars
  <1>1. /\ TypeOK /\ ReaderInv(r) /\ rpc[r] = "index" /\ UNCHANGED <<latest, current>>
    BY DEF DoubleBufferInv, CheckIndex, writer
  <1>2. seen[r] # {}
    BY <1>1 DEF ReaderInv, ReadUnderway, Under
  <1>3. CASE index1[r] = active /\ seq1[r] = seq2[r] /\ IsEven(seq2[r])
    <2>1. PICK n \in seen[r] : copy[r] = Register!Whole(n)
      BY <1>1, <1>3 DEF ReaderInv, CopyWhole, Whole, Register!Whole
    <2>2. /\ seen' = [seen EXCEPT ![r] = {}]
          /\ got' = [got EXCEPT ![r] = copy[r]]
      BY <1>3 DEF CheckIndex
    <2>3. QED BY <1>1, <1>2, <2>1, <2>2 DEF Register!EndRead
  <1>4. CASE ~(index1[r] = active /\ seq1[r] = seq2[r] /\ IsEven(seq2[r]))
    <2>1. Retry(r) /\ got' = got
      BY <1>4 DEF CheckIndex
    <2>2. QED BY <1>1, <1>2, <2>1, RetryShows
  <1>5. QED BY <1>3, <1>4

LEMMA ReaderShows ==
  ASSUME DoubleBufferInv, NEW r \in Readers,
         \/ BeginRead(r) \/ ReadIndex(r) \/ ReadSequence(r) \/ ReadSequenceAgain(r)
         \/ BeginRelaxed(r) \/ EndRelaxed(r)
         \/ \E c \in Cells : LoadCell(r, c)
  PROVE  Register!BeginRead(r) \/ Register!EndRead(r) \/ UNCHANGED Register!vars
  <1>1. ReadUnderway(r)
    BY DEF DoubleBufferInv, ReaderInv
  <1>2. CASE BeginRead(r) \/ BeginRelaxed(r)
    BY <1>1, <1>2 DEF BeginRead, BeginRelaxed, ReadUnderway, Under, writer,
                      Register!BeginRead
  <1>3. CASE ReadSequence(r)
    <2>1. rpc[r] = "sequence" /\ seen[r] # {} /\ UNCHANGED <<latest, current, got>>
      BY <1>1, <1>3 DEF ReadSequence, ReadUnderway, Under, writer
    <2>2. CASE IsEven(seq[index1[r]])
      BY <1>3, <2>1, <2>2 DEF ReadSequence, Register!vars
    <2>3. CASE ~IsEven(seq[index1[r]])
      BY <1>3, <2>1, <2>3, RetryShows DEF ReadSequence
    <2>4. QED BY <2>2, <2>3
  <1>4. CASE EndRelaxed(r)
    BY <1>1, <1>4 DEF EndRelaxed, ReadUnderway, Under, writer, Register!EndRead
  <1>5. CASE ReadIndex(r) \/ ReadSequenceAgain(r) \/ \E c \in Cells : LoadCell(r, c)
    BY <1>5 DEF ReadIndex, ReadSequenceAgain, LoadCell, writer, Register!vars
  <1>6. QED BY <1>2, <1>3, <1>4, <1>5

LEMMA StepShows == DoubleBufferInv /\ [Next]_vars => [Register!Next]_Register!vars
  <1> SUFFICES ASSUME DoubleBufferInv, [Next]_vars
               PROVE  [Register!Next]_Register!vars
    OBVIOUS
  <1>1. CASE EndFill
    <2>1. writes \in Version
      BY DEF DoubleBufferInv, TypeOK
    <2>2. QED BY <1>1, <2>1, EndFillOffers DEF Register!Next
  <1>2. CASE Flip
    BY <1>2, FlipAdopts DEF Register!Next
  <1>3. CASE \/ BeginWrite \/ CrashWriter \/ UNCHANGED vars
             \/ \E c \in Cells : StoreCell(c)
    BY <1>3 DEF BeginWrite, CrashWriter, StoreCell, vars, writer, reader,
                Register!vars
  <1>4. ASSUME NEW r \in Readers,
               \/ BeginRead(r) \/ ReadIndex(r) \/ ReadSequence(r)
               \/ ReadSequenceAgain(r) \/ CheckIndex(r)
               \/ BeginRelaxed(r) \/ EndRelaxed(r)
               \/ \E c \in Cells : LoadCell(r, c)
        PROVE  [Register!Next]_Register!vars
    BY <1>4, ReaderShows, CheckIndexShows DEF Register!Next
  <1>5. QED BY <1>1, <1>2, <1>3, <1>4 DEF Next

\* read_consistent is a regular read here too, while the writer never waits.
THEOREM DoubleBufferImplementsRegister == Spec => ImplementsRegister
  BY RegisterInit, StepShows, DoubleBufferInvariant, PTL
     DEF Spec, ImplementsRegister, Register!Spec
=============================================================================
