-------------------------- MODULE SnapshotRegister --------------------------
(***************************************************************************)
(* What a shared-memory buffer with consistent reads promises: a reader    *)
(* gets one whole snapshot, and one that was the readable one at some      *)
(* moment of its read.  A snapshot is the number of its write; a payload   *)
(* is what its cells hold.                                                 *)
(*                                                                         *)
(* A writer may crash between completing a snapshot and making it current, *)
(* so both are told apart: a read that is under way may return either, a   *)
(* new read starts from the current one.                                   *)
(***************************************************************************)
EXTENDS Naturals

CONSTANTS Readers, Cells,
          Snapshots  \* the numbers a write can have

VARIABLES
  latest,   \* the newest snapshot that was completely written
  current,  \* the snapshot a read that begins now may return
  seen,     \* per reader: the snapshots its read under way may return
  got       \* per reader: what its last read returned

vars == <<latest, current, seen, got>>

Whole(n) == [c \in Cells |-> n]

Init ==
  /\ latest = 0 /\ current = 0
  /\ seen = [r \in Readers |-> {}]
  /\ got = [r \in Readers |-> Whole(0)]

SeenAlso(n) ==
  seen' = [r \in Readers |-> IF seen[r] = {} THEN {} ELSE seen[r] \cup {n}]

Offer(n) ==
  /\ n > latest
  /\ latest' = n
  /\ current' \in {current, n}
  /\ SeenAlso(n)
  /\ UNCHANGED got

Adopt ==
  /\ current' = latest
  /\ SeenAlso(latest)
  /\ UNCHANGED <<latest, got>>

BeginRead(r) ==
  /\ seen[r] = {}
  /\ seen' = [seen EXCEPT ![r] = {current}]
  /\ UNCHANGED <<latest, current, got>>

\* A read ends with a whole snapshot, or fails and returns nothing.
EndRead(r) ==
  /\ seen[r] # {}
  /\ \/ UNCHANGED got
     \/ \E n \in seen[r] : got' = [got EXCEPT ![r] = Whole(n)]
  /\ seen' = [seen EXCEPT ![r] = {}]
  /\ UNCHANGED <<latest, current>>

Next ==
  \/ \E n \in Snapshots : Offer(n)
  \/ Adopt
  \/ \E r \in Readers : BeginRead(r) \/ EndRead(r)

Spec == Init /\ [][Next]_vars
=============================================================================
