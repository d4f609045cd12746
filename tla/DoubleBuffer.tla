---------------------------- MODULE DoubleBuffer ----------------------------
(***************************************************************************)
(* DoubleBuffer of buffer.py: two slots, each with a sequence counter, and *)
(* the index of the active one.  One writer process fills the other slot   *)
(* and then flips the index; it may crash at any point and be started      *)
(* again.  Memory is sequentially consistent.                              *)
(***************************************************************************)
EXTENDS SequenceCounter, FiniteSets

CONSTANTS
  Readers,
  Cells,       \* the parts of a payload that are copied indivisibly
  MaxRetries,  \* max_retries of read_consistent
  MaxWrites    \* bound: writes in a behaviour

\* A slot's counter does not wrap (SeqLockBuffer).
ASSUME DoubleBufferAssumption ==
  /\ MaxRetries \in Nat \ {0}
  /\ MaxWrites \in Nat
  /\ SeqModulus > 2 * MaxWrites

VARIABLES
  active,       \* the index of the active slot
  seq, cells,   \* per slot: the counter and the payload
  writes,       \* number of the last write begun
  left,         \* cells that write has not stored yet
  wpc,          \* the writer: idle, filling the spare slot, about to flip
  latest,       \* the last write whose slot was completely filled
  current,      \* the write in the active slot
  rpc,          \* per reader: where read_consistent or read_relaxed is
  index1, seq1, seq2, copy, rest, tries,  \* its local variables
  got,          \* per reader: what read_consistent last returned
  seen          \* per reader: writes current or completed since its read began

memory == <<active, seq, cells>>
writer == <<writes, left, wpc, latest, current>>
reader == <<rpc, index1, seq1, seq2, copy, rest, tries, got>>
vars == <<memory, writer, reader, seen>>

Slot == {0, 1}
Spare == 1 - active

Whole(n) == [c \in Cells |-> n]

Version == 0 .. MaxWrites

ReaderPoint == {"idle", "start", "sequence", "copy", "index", "failed", "relaxed"}

TypeOK ==
  /\ active \in Slot
  /\ seq \in [Slot -> 0 .. 2 * writes] /\ cells \in [Slot -> [Cells -> Version]]
  /\ writes \in Version /\ latest \in Version /\ current \in Version
  /\ left \subseteq Cells /\ wpc \in {"idle", "fill", "flip"}
  /\ rpc \in [Readers -> ReaderPoint]
  /\ index1 \in [Readers -> Slot]
  /\ seq1 \in [Readers -> Nat] /\ seq2 \in [Readers -> Nat]
  /\ copy \in [Readers -> [Cells -> Version]]
  /\ rest \in [Readers -> SUBSET Cells]
  /\ tries \in [Readers -> 0 .. MaxRetries]
  /\ got \in [Readers -> [Cells -> Version]]
  /\ seen \in [Readers -> SUBSET Version]

\* clear: zeroes everywhere.
Init ==
  /\ active = 0
  /\ seq = [s \in Slot |-> 0] /\ cells = [s \in Slot |-> Whole(0)]
  /\ writes = 0 /\ left = {} /\ wpc = "idle" /\ latest = 0 /\ current = 0
  /\ rpc = [r \in Readers |-> "idle"]
  /\ index1 = [r \in Readers |-> 0]
  /\ seq1 = [r \in Readers |-> 0] /\ seq2 = [r \in Readers |-> 0]
  /\ copy = [r \in Readers |-> Whole(0)]
  /\ rest = [r \in Readers |-> {}]
  /\ tries = [r \in Readers |-> 0]
  /\ got = [r \in Readers |-> Whole(0)]
  /\ seen = [r \in Readers |-> {}]
-----------------------------------------------------------------------------
\* write
BeginWrite_InPlace ==
  /\ wpc = "idle" /\ writes < MaxWrites
  /\ seq' = [seq EXCEPT ![active] = NextOddSequence(@)]
  /\ writes' = writes + 1
  /\ left' = Cells
  /\ wpc' = "fill"
  /\ UNCHANGED <<active, cells, latest, current, reader, seen>>

BeginWrite ==
  /\ wpc = "idle" /\ writes < MaxWrites
  /\ seq' = [seq EXCEPT ![Spare] = NextOddSequence(@)]
  /\ writes' = writes + 1
  /\ left' = Cells
  /\ wpc' = "fill"
  /\ UNCHANGED <<active, cells, latest, current, reader, seen>>

StoreCell_Active(c) ==
  /\ wpc = "fill" /\ c \in left
  /\ cells' = [cells EXCEPT ![active][c] = writes]
  /\ left' = left \ {c}
  /\ UNCHANGED <<active, seq, writes, wpc, latest, current, reader, seen>>

StoreCell(c) ==
  /\ wpc = "fill" /\ c \in left
  /\ cells' = [cells EXCEPT ![Spare][c] = writes]
  /\ left' = left \ {c}
  /\ UNCHANGED <<active, seq, writes, wpc, latest, current, reader, seen>>

SeenAlso(n) ==
  seen' = [r \in Readers |-> IF seen[r] = {} THEN {} ELSE seen[r] \cup {n}]

EndFill ==
  /\ wpc = "fill" /\ left = {}
  /\ seq' = [seq EXCEPT ![Spare] = NextEvenSequence(@)]
  /\ wpc' = "flip"
  /\ latest' = writes
  /\ SeenAlso(writes)
  /\ UNCHANGED <<active, cells, writes, left, current, reader>>

Flip ==
  /\ wpc = "flip"
  /\ active' = Spare
  /\ wpc' = "idle"
  /\ current' = latest
  /\ SeenAlso(latest)
  /\ UNCHANGED <<seq, cells, writes, left, latest, reader>>

\* The writer's process dies in mid-write; BeginWrite is then its successor's.
CrashWriter ==
  /\ wpc # "idle"
  /\ wpc' = "idle"
  /\ left' = {}
  /\ UNCHANGED <<memory, writes, latest, current, reader, seen>>
-----------------------------------------------------------------------------
\* read_consistent
BeginRead(r) ==
  /\ rpc[r] \in {"idle", "failed"}
  /\ rpc' = [rpc EXCEPT ![r] = "start"]
  /\ tries' = [tries EXCEPT ![r] = 0]
  /\ seen' = [seen EXCEPT ![r] = {current}]
  /\ UNCHANGED <<memory, writer, index1, seq1, seq2, copy, rest, got>>

ReadIndex(r) ==
  /\ rpc[r] = "start"
  /\ index1' = [index1 EXCEPT ![r] = active]
  /\ rpc' = [rpc EXCEPT ![r] = "sequence"]
  /\ UNCHANGED <<memory, writer, seq1, seq2, copy, rest, tries, got, seen>>

Retry_OneTooMany(r) ==
  /\ tries' = [tries EXCEPT ![r] = @ + 1]
  /\ IF tries[r] < MaxRetries
     THEN /\ rpc' = [rpc EXCEPT ![r] = "start"]
          /\ UNCHANGED seen
     ELSE /\ rpc' = [rpc EXCEPT ![r] = "failed"]
          /\ seen' = [seen EXCEPT ![r] = {}]

\* One more turn of the retry loop, or the RuntimeError at its end.
Retry(r) ==
  /\ tries' = [tries EXCEPT ![r] = @ + 1]
  /\ IF tries[r] + 1 < MaxRetries
     THEN /\ rpc' = [rpc EXCEPT ![r] = "start"]
          /\ UNCHANGED seen
     ELSE /\ rpc' = [rpc EXCEPT ![r] = "failed"]
          /\ seen' = [seen EXCEPT ![r] = {}]

ReadSequence(r) ==
  /\ rpc[r] = "sequence"
  /\ IF IsEven(seq[index1[r]])
     THEN /\ seq1' = [seq1 EXCEPT ![r] = seq[index1[r]]]
          /\ rpc' = [rpc EXCEPT ![r] = "copy"]
          /\ rest' = [rest EXCEPT ![r] = Cells]
          /\ UNCHANGED <<tries, seen>>
     ELSE Retry(r) /\ UNCHANGED <<seq1, rest>>
  /\ UNCHANGED <<memory, writer, index1, seq2, copy, got>>

LoadCell(r, c) ==
  /\ rpc[r] \in {"copy", "relaxed"} /\ c \in rest[r]
  /\ copy' = [copy EXCEPT ![r][c] = cells[index1[r]][c]]
  /\ rest' = [rest EXCEPT ![r] = @ \ {c}]
  /\ UNCHANGED <<memory, writer, rpc, index1, seq1, seq2, tries, got, seen>>

ReadSequenceAgain(r) ==
  /\ rpc[r] = "copy" /\ rest[r] = {}
  /\ seq2' = [seq2 EXCEPT ![r] = seq[index1[r]]]
  /\ rpc' = [rpc EXCEPT ![r] = "index"]
  /\ UNCHANGED <<memory, writer, index1, seq1, copy, rest, tries, got, seen>>

CheckIndex_IndexOnly(r) ==
  /\ rpc[r] = "index"
  /\ IF index1[r] = active
     THEN /\ rpc' = [rpc EXCEPT ![r] = "idle"]
          /\ seen' = [seen EXCEPT ![r] = {}]
          /\ got' = [got EXCEPT ![r] = copy[r]]
          /\ UNCHANGED tries
     ELSE Retry(r) /\ UNCHANGED got
  /\ UNCHANGED <<memory, writer, index1, seq1, seq2, copy, rest>>

CheckIndex(r) ==
  /\ rpc[r] = "index"
  /\ IF index1[r] = active /\ seq1[r] = seq2[r] /\ IsEven(seq2[r])
     THEN /\ rpc' = [rpc EXCEPT ![r] = "idle"]
          /\ seen' = [seen EXCEPT ![r] = {}]
          /\ got' = [got EXCEPT ![r] = copy[r]]
          /\ UNCHANGED tries
     ELSE Retry(r) /\ UNCHANGED got
  /\ UNCHANGED <<memory, writer, index1, seq1, seq2, copy, rest>>
-----------------------------------------------------------------------------
\* read_relaxed: no counter is looked at.
BeginRelaxed(r) ==
  /\ rpc[r] \in {"idle", "failed"}
  /\ index1' = [index1 EXCEPT ![r] = active]
  /\ rpc' = [rpc EXCEPT ![r] = "relaxed"]
  /\ rest' = [rest EXCEPT ![r] = Cells]
  /\ seen' = [seen EXCEPT ![r] = {current}]
  /\ UNCHANGED <<memory, writer, seq1, seq2, copy, tries, got>>

EndRelaxed(r) ==
  /\ rpc[r] = "relaxed" /\ rest[r] = {}
  /\ rpc' = [rpc EXCEPT ![r] = "idle"]
  /\ seen' = [seen EXCEPT ![r] = {}]
  /\ UNCHANGED <<memory, writer, index1, seq1, seq2, copy, rest, tries, got>>

Next ==
  \/ BeginWrite \/ EndFill \/ Flip \/ CrashWriter
  \/ \E c \in Cells : StoreCell(c)
  \/ \E r \in Readers :
       \/ BeginRead(r) \/ ReadIndex(r) \/ ReadSequence(r)
       \/ ReadSequenceAgain(r) \/ CheckIndex(r)
       \/ BeginRelaxed(r) \/ EndRelaxed(r)
       \/ \E c \in Cells : LoadCell(r, c)

Spec == Init /\ [][Next]_vars
-----------------------------------------------------------------------------
Reading(r) == rpc[r] \in {"start", "sequence", "copy", "index"}

\* A consistent read is turned back only by writes: each of its retries needs
\* one more write completed while it lasts.  A writer that is stalled or has
\* crashed, at any point, cannot make a read retry, let alone fail.
RetriesNeedWrites ==
  \A r \in Readers : Reading(r) => tries[r] < Cardinality(seen[r])

\* A relaxed read returns, whole, the write that was current when it began if no
\* flip overtook it; or if one did, and the slot still holds that write when the
\* read ends.  So only a writer that flips away from the slot and then stores into
\* it again can tear the read ("a very slow reader can still race with slot
\* reuse"), and not one that merely fills the other slot, or crashes in it.
RelaxedWholeUnlessReused ==
  \A r \in Readers : rpc[r] = "relaxed" /\ rest[r] = {} =>
    \A first \in seen[r] :
      /\ \A n \in seen[r] : first <= n
      /\ current = first \/ cells[index1[r]] = Whole(first)
      => copy[r] = Whole(first)

Register == INSTANCE SnapshotRegister WITH Snapshots <- Version

\* read_consistent returns whole snapshots only, each of them current, or
\* completely written and about to be, at some moment of the read.
ImplementsRegister == Register!Spec
=============================================================================
