---------------------------- MODULE SeqLockBuffer ----------------------------
(***************************************************************************)
(* SeqLockBuffer of buffer.py: one writer process, which may crash in      *)
(* mid-write and be started again, and readers in other processes that     *)
(* copy the payload cell by cell and retry when the counter shows that     *)
(* they raced with a write.  Memory is sequentially consistent.            *)
(***************************************************************************)
EXTENDS SequenceCounter

CONSTANTS
  Readers,
  Cells,       \* the parts of a payload that are copied indivisibly
  MaxRetries,  \* max_retries of read_consistent
  MaxWrites    \* bound: writes in a behaviour

\* The counter does not wrap: at 1 kHz, 2^63 writes take 290 million years.
ASSUME SeqLockAssumption ==
  /\ MaxRetries \in Nat \ {0}
  /\ MaxWrites \in Nat
  /\ SeqModulus > 2 * MaxWrites

VARIABLES
  seq, cells,   \* the segment: the counter and the payload
  writes,       \* number of the last write begun
  left,         \* cells that write has not stored yet
  writing,      \* the writer is between the two stores of the counter
  stable,       \* the last write completed
  rpc,          \* per reader: where read_consistent is
  seq1, copy, rest, tries,  \* its local variables
  got,          \* per reader: what read_consistent last returned
  seen          \* per reader: writes complete at some time since its read began

memory == <<seq, cells>>
writer == <<writes, left, writing, stable>>
reader == <<rpc, seq1, copy, rest, tries, got>>
vars == <<memory, writer, reader, seen>>

Whole(n) == [c \in Cells |-> n]

Version == 0 .. MaxWrites

TypeOK ==
  /\ seq \in 0 .. (2 * writes) /\ cells \in [Cells -> Version]
  /\ writes \in Version /\ stable \in Version
  /\ left \subseteq Cells /\ writing \in BOOLEAN
  /\ rpc \in [Readers -> {"idle", "start", "copy", "failed"}]
  /\ seq1 \in [Readers -> Nat]
  /\ copy \in [Readers -> [Cells -> Version]]
  /\ rest \in [Readers -> SUBSET Cells]
  /\ tries \in [Readers -> 0 .. MaxRetries]
  /\ got \in [Readers -> [Cells -> Version]]
  /\ seen \in [Readers -> SUBSET Version]

\* clear: zeroes everywhere.
Init ==
  /\ seq = 0 /\ cells = Whole(0)
  /\ writes = 0 /\ left = {} /\ writing = FALSE /\ stable = 0
  /\ rpc = [r \in Readers |-> "idle"]
  /\ seq1 = [r \in Readers |-> 0]
  /\ copy = [r \in Readers |-> Whole(0)]
  /\ rest = [r \in Readers |-> {}]
  /\ tries = [r \in Readers |-> 0]
  /\ got = [r \in Readers |-> Whole(0)]
  /\ seen = [r \in Readers |-> {}]
-----------------------------------------------------------------------------
\* write
BeginWrite ==
  /\ ~writing
  /\ writes < MaxWrites
  /\ seq' = NextOddSequence(seq)
  /\ writes' = writes + 1
  /\ left' = Cells
  /\ writing' = TRUE
  /\ UNCHANGED <<cells, stable, reader, seen>>

StoreCell(c) ==
  /\ writing /\ c \in left
  /\ cells' = [cells EXCEPT ![c] = writes]
  /\ left' = left \ {c}
  /\ UNCHANGED <<seq, writes, writing, stable, reader, seen>>

EndWrite_BeforeCopy ==
  /\ writing
  /\ seq' = NextEvenSequence(seq)
  /\ writing' = FALSE
  /\ stable' = writes
  /\ seen' = [r \in Readers |->
                IF seen[r] = {} THEN {} ELSE seen[r] \cup {writes}]
  /\ UNCHANGED <<cells, writes, left, reader>>

EndWrite ==
  /\ writing /\ left = {}
  /\ seq' = NextEvenSequence(seq)
  /\ writing' = FALSE
  /\ stable' = writes
  /\ seen' = [r \in Readers |->
                IF seen[r] = {} THEN {} ELSE seen[r] \cup {writes}]
  /\ UNCHANGED <<cells, writes, left, reader>>

\* The writer's process dies in mid-write; BeginWrite is then its successor's.
CrashWriter ==
  /\ writing
  /\ writing' = FALSE
  /\ left' = {}
  /\ UNCHANGED <<memory, writes, stable, reader, seen>>
-----------------------------------------------------------------------------
\* read_consistent
BeginRead(r) ==
  /\ rpc[r] \in {"idle", "failed"}
  /\ rpc' = [rpc EXCEPT ![r] = "start"]
  /\ tries' = [tries EXCEPT ![r] = 0]
  /\ seen' = [seen EXCEPT ![r] = {stable}]
  /\ UNCHANGED <<memory, writer, seq1, copy, rest, got>>

Retry_OneTooMany(r) ==
  /\ tries' = [tries EXCEPT ![r] = @ + 1]
  /\ IF tries[r] < MaxRetries
     THEN /\ rpc' = [rpc EXCEPT ![r] = "start"]
          /\ UNCHANGED seen
     ELSE /\ rpc' = [rpc EXCEPT ![r] = "failed"]
          /\ seen' = [seen EXCEPT ![r] = {}]

\* One more turn of the retry loop, or the RuntimeError at its end.
Retry(r) ==
  /\ tries' = [tries EXCEPT ![r] = @ + 1]
  /\ IF tries[r] + 1 < MaxRetries
     THEN /\ rpc' = [rpc EXCEPT ![r] = "start"]
          /\ UNCHANGED seen
     ELSE /\ rpc' = [rpc EXCEPT ![r] = "failed"]
          /\ seen' = [seen EXCEPT ![r] = {}]

ReadSequence(r) ==
  /\ rpc[r] = "start"
  /\ IF IsEven(seq)
     THEN /\ seq1' = [seq1 EXCEPT ![r] = seq]
          /\ rpc' = [rpc EXCEPT ![r] = "copy"]
          /\ rest' = [rest EXCEPT ![r] = Cells]
          /\ UNCHANGED <<tries, seen>>
     ELSE Retry(r) /\ UNCHANGED <<seq1, rest>>
  /\ UNCHANGED <<memory, writer, copy, got>>

LoadCell(r, c) ==
  /\ rpc[r] = "copy" /\ c \in rest[r]
  /\ copy' = [copy EXCEPT ![r][c] = cells[c]]
  /\ rest' = [rest EXCEPT ![r] = @ \ {c}]
  /\ UNCHANGED <<memory, writer, rpc, seq1, tries, got, seen>>

CheckSequence_ParityOnly(r) ==
  /\ rpc[r] = "copy" /\ rest[r] = {}
  /\ IF IsEven(seq)
     THEN /\ rpc' = [rpc EXCEPT ![r] = "idle"]
          /\ seen' = [seen EXCEPT ![r] = {}]
          /\ got' = [got EXCEPT ![r] = copy[r]]
          /\ UNCHANGED tries
     ELSE Retry(r) /\ UNCHANGED got
  /\ UNCHANGED <<memory, writer, seq1, copy, rest>>

CheckSequence(r) ==
  /\ rpc[r] = "copy" /\ rest[r] = {}
  /\ IF seq1[r] = seq /\ IsEven(seq)
     THEN /\ rpc' = [rpc EXCEPT ![r] = "idle"]
          /\ seen' = [seen EXCEPT ![r] = {}]
          /\ got' = [got EXCEPT ![r] = copy[r]]
          /\ UNCHANGED tries
     ELSE Retry(r) /\ UNCHANGED got
  /\ UNCHANGED <<memory, writer, seq1, copy, rest>>

Next ==
  \/ BeginWrite \/ EndWrite \/ CrashWriter
  \/ \E c \in Cells : StoreCell(c)
  \/ \E r \in Readers :
       \/ BeginRead(r) \/ ReadSequence(r) \/ CheckSequence(r)
       \/ \E c \in Cells : LoadCell(r, c)

Spec == Init /\ [][Next]_vars
-----------------------------------------------------------------------------
\* A writer, the first or a successor after any number of crashes, that has
\* completed its write leaves the counter even: readers are not shut out for
\* longer than the crash lasts.
SuccessorUnblocksReaders == ~writing /\ stable = writes => IsEven(seq)

Reading(r) == rpc[r] \in {"start", "copy"}

\* Why that works.  While the counter is even the payload is the last complete
\* write; a read whose first counter value is still the current one has copied
\* cells of that very write.
EvenMeansStable == IsEven(seq) => ~writing /\ cells = Whole(stable)

WriteInProgress ==
  writing => /\ ~IsEven(seq)
             /\ stable < writes
             /\ \A c \in Cells \ left : cells[c] = writes

CopiedSinceEven(r) ==
  /\ (seen[r] = {}) <=> ~Reading(r)
  /\ Reading(r) => stable \in seen[r] /\ tries[r] < MaxRetries
  /\ rpc[r] = "copy" =>
       /\ seq1[r] <= seq
       /\ seq1[r] = seq /\ IsEven(seq)
            => \A c \in Cells \ rest[r] : copy[r][c] = stable

SeqLockInv ==
  /\ TypeOK /\ stable <= writes
  /\ EvenMeansStable /\ WriteInProgress
  /\ \A r \in Readers : CopiedSinceEven(r)

Register == INSTANCE SnapshotRegister
  WITH Snapshots <- Version, latest <- stable, current <- stable

\* read_consistent returns whole snapshots only, each of them the complete one
\* at some moment of the read: a torn, a stale or a crashed write is never
\* returned.
ImplementsRegister == Register!Spec
=============================================================================
