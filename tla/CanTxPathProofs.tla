--------------------------- MODULE CanTxPathProofs ---------------------------
(***************************************************************************)
(* Order and accounting of the frames in CanTxPath, for any number of      *)
(* clients and frames and any size of the queue.                           *)
(***************************************************************************)
EXTENDS CanTxPath, SequenceTheorems, TLAPS

\* The frames of each client go up in a sequence, and in one place before another.
Ordered(s) ==
  \A i, j \in 1 .. Len(s) : i < j /\ s[i][1] = s[j][1] => s[i][2] < s[j][2]
Before(A, B) == \A f \in A, g \in B : f[1] = g[1] => f[2] < g[2]

Underway == Range(bus) \cup Range(held) \cup Range(queue)

InOrder ==
  /\ Ordered(bus) /\ Ordered(queue)
  /\ Before(Range(bus), Range(held)) /\ Before(Range(bus), Range(queue))
  /\ Before(Range(held), Range(queue))

\* The tx thread holds a frame exactly while it sends.
HeldWhileSending ==
  /\ tx = "send" => Len(held) = 1
  /\ tx \in {"head", "get"} => held = <<>>

\* A client waits for the answer to the last frame it asked for.
OneRequest ==
  \A c \in Clients :
    /\ asked[c] <= MaxFrames[c]
    /\ client[c] = "waiting" => asked[c] >= 1
    /\ reply[c] # "none" => client[c] = "waiting"

Pending(c) == client[c] = "waiting" /\ reply[c] = "none"

\* What is on its way was asked for, and a frame that was asked for and not
\* answered is not on its way.
UnderwayAsked ==
  \A f \in Underway :
    /\ f[2] <= asked[f[1]]
    /\ Pending(f[1]) => f[2] < asked[f[1]]

\* A verdict is about an earlier frame than the one its client waits for.
VerdictsArePast ==
  \A f \in CanFrames : verdict[f] # "none" =>
    /\ f[2] <= asked[f[1]]
    /\ client[f[1]] = "waiting" => f[2] < asked[f[1]]

\* Answers and verdicts tell where the frame is.
RepliesTrue ==
  \A c \in Clients :
    /\ reply[c] = "accepted" => <<c, asked[c]>> \in Underway \cup failed
    /\ reply[c] = "refused" => <<c, asked[c]>> \notin Underway
VerdictsTrue ==
  \A f \in CanFrames :
    /\ verdict[f] = "accepted" => f \in Underway \cup failed
    /\ verdict[f] = "refused" => f \notin Underway

Accounts == OneRequest /\ UnderwayAsked /\ VerdictsArePast /\ RepliesTrue /\ VerdictsTrue

TxInv == TypeOK /\ InOrder /\ HeldWhileSending /\ Accounts
-----------------------------------------------------------------------------
(***************************************************************************)
(* Frames and sequences of frames.                                         *)
(***************************************************************************)
LEMMA FramesOfClients ==
  /\ \A c \in Clients, n \in Nat : n >= 1 /\ n <= MaxFrames[c] => <<c, n>> \in CanFrames
  /\ \A f \in CanFrames : f[1] \in Clients /\ f[2] \in Nat /\ f = <<f[1], f[2]>>
  BY CanTxAssumption DEF CanFrames

LEMMA RangeIs ==
  ASSUME NEW s \in Seq(CanFrames)
  PROVE  /\ \A i \in 1 .. Len(s) : s[i] \in Range(s) /\ s[i] \in CanFrames
         /\ \A f \in Range(s) : \E i \in 1 .. Len(s) : s[i] = f
         /\ Range(s) \subseteq CanFrames
  BY RangeEquality, RangeOfSeq, ElementOfSeq

LEMMA EmptyRange == Range(<<>>) = {}
  BY DEF Range

LEMMA OrderedAppend ==
  ASSUME NEW s \in Seq(CanFrames), NEW f \in CanFrames, Ordered(s), Before(Range(s), {f})
  PROVE  /\ Append(s, f) \in Seq(CanFrames)
         /\ Len(Append(s, f)) = Len(s) + 1
         /\ Ordered(Append(s, f))
         /\ Range(Append(s, f)) = Range(s) \cup {f}
  <1>1. /\ Append(s, f) \in Seq(CanFrames)
        /\ Len(Append(s, f)) = Len(s) + 1 /\ Len(s) \in Nat
        /\ \A i \in 1 .. Len(s) : Append(s, f)[i] = s[i]
        /\ Append(s, f)[Len(s) + 1] = f
    BY AppendProperties
  <1> DEFINE t == Append(s, f)
  <1> HIDE DEF t
  <1>2. /\ t \in Seq(CanFrames) /\ Len(t) = Len(s) + 1 /\ Len(s) \in Nat
        /\ \A i \in 1 .. Len(s) : t[i] = s[i]
        /\ t[Len(s) + 1] = f
    BY <1>1 DEF t
  <1>3. Range(t) = Range(s) \cup {f}
    <2>1. Range(s) = {s[i] : i \in 1 .. Len(s)} /\ Range(t) = {t[i] : i \in 1 .. Len(t)}
      BY <1>2, RangeEquality
    <2>2. QED BY <1>2, <2>1
  <1>4. Ordered(t)
    <2> SUFFICES ASSUME NEW i \in 1 .. Len(t), NEW j \in 1 .. Len(t), i < j,
                        t[i][1] = t[j][1]
                 PROVE  t[i][2] < t[j][2]
      BY DEF Ordered
    <2>1. i \in 1 .. Len(s) /\ t[i] = s[i] /\ s[i] \in Range(s)
      BY <1>2, RangeIs
    <2>2. CASE j = Len(s) + 1
      BY <1>2, <2>1, <2>2 DEF Before
    <2>3. CASE j # Len(s) + 1
      <3>1. j \in 1 .. Len(s) /\ t[j] = s[j]
        BY <1>2, <2>3
      <3>2. QED BY <2>1, <3>1 DEF Ordered
    <2>4. QED BY <2>2, <2>3
  <1>5. QED BY <1>2, <1>3, <1>4 DEF t

LEMMA OrderedTail ==
  ASSUME NEW s \in Seq(CanFrames), s # <<>>, Ordered(s)
  PROVE  /\ Head(s) \in CanFrames /\ Tail(s) \in Seq(CanFrames)
         /\ Len(Tail(s)) < Len(s)
         /\ Ordered(Tail(s))
         /\ Range(s) = {Head(s)} \cup Range(Tail(s))
         /\ Before({Head(s)}, Range(Tail(s)))
  <1> DEFINE t == Tail(s)
             h == Head(s)
  <1>1. /\ h \in CanFrames /\ t \in Seq(CanFrames) /\ Len(t) = Len(s) - 1
        /\ \A i \in 1 .. Len(t) : t[i] = s[i + 1]
        /\ Len(s) \in Nat /\ Len(s) >= 1
    BY HeadTailProperties, EmptySeq
  <1>2. h = s[1]
    OBVIOUS
  <1> HIDE DEF t, h
  <1>3. Ordered(t)
    BY <1>1 DEF Ordered
  <1>4. Range(s) = {s[i] : i \in 1 .. Len(s)} /\ Range(t) = {t[i] : i \in 1 .. Len(t)}
    BY <1>1, RangeEquality
  <1>5. Range(s) = {h} \cup Range(t)
    <2>1. ASSUME NEW f \in Range(s) PROVE f \in {h} \cup Range(t)
      <3>1. PICK i \in 1 .. Len(s) : s[i] = f
        BY <1>4
      <3>2. CASE i = 1
        BY <1>2, <3>1, <3>2
      <3>3. CASE i # 1
        <4>1. i - 1 \in 1 .. Len(t) /\ t[i - 1] = s[i]
          BY <1>1, <3>3
        <4>2. QED BY <1>4, <3>1, <4>1
      <3>4. QED BY <3>2, <3>3
    <2>2. ASSUME NEW f \in {h} \cup Range(t) PROVE f \in Range(s)
      <3>1. CASE f = h
        <4>1. 1 \in 1 .. Len(s)
          BY <1>1
        <4>2. QED BY <1>2, <1>4, <3>1, <4>1
      <3>2. CASE f \in Range(t)
        <4>1. PICK i \in 1 .. Len(t) : t[i] = f
          BY <1>4, <3>2
        <4>2. i + 1 \in 1 .. Len(s) /\ s[i + 1] = f
          BY <1>1, <4>1
        <4>3. QED BY <1>4, <4>2
      <3>3. QED BY <3>1, <3>2, <2>2
    <2>3. QED BY <2>1, <2>2
  <1>6. Before({h}, Range(t))
    <2> SUFFICES ASSUME NEW g \in Range(t), h[1] = g[1] PROVE h[2] < g[2]
      BY DEF Before
    <2>1. PICK i \in 1 .. Len(t) : t[i] = g
      BY <1>4
    <2>2. /\ 1 \in 1 .. Len(s) /\ i + 1 \in 1 .. Len(s) /\ 1 < i + 1
          /\ s[i + 1] = g
      BY <1>1, <2>1
    <2>3. QED BY <1>2, <2>2 DEF Ordered
  <1>7. QED BY <1>1, <1>3, <1>5, <1>6 DEF t, h

LEMMA Singleton ==
  ASSUME NEW s \in Seq(CanFrames), Len(s) = 1
  PROVE  s[1] \in CanFrames /\ s = <<s[1]>> /\ Range(s) = {s[1]}
  <1>1. s[1] \in CanFrames
    <2>1. 1 \in 1 .. Len(s)
      OBVIOUS
    <2>2. QED BY <2>1, ElementOfSeq
  <1>2. s = <<s[1]>>
    OBVIOUS
  <1>3. Range(s) = {s[i] : i \in 1 .. Len(s)}
    BY RangeEquality
  <1>4. 1 .. Len(s) = {1}
    OBVIOUS
  <1>5. QED BY <1>1, <1>2, <1>3, <1>4

LEMMA OneFrame ==
  ASSUME NEW f \in CanFrames
  PROVE  <<f>> \in Seq(CanFrames) /\ Len(<<f>>) = 1 /\ Range(<<f>>) = {f}
  <1>1. <<f>> \in Seq(CanFrames) /\ Len(<<f>>) = 1 /\ <<f>>[1] = f
    OBVIOUS
  <1>2. QED BY <1>1, Singleton
-----------------------------------------------------------------------------
(***************************************************************************)
(* The steps that move frames.                                             *)
(***************************************************************************)
Moves == <<queue, held, bus, failed>>

\* A handler queues the frame its client waits for.
LEMMA PutKeepsOrder ==
  ASSUME TxInv, NEW c \in Clients, Requested(c), Len(queue) < QueueSize,
         queue' = Append(queue, <<c, asked[c]>>), UNCHANGED <<held, bus, failed>>
  PROVE  /\ queue' \in Seq(CanFrames) /\ Len(queue') <= QueueSize
         /\ InOrder'
         /\ Underway' = Underway \cup {<<c, asked[c]>>}
         /\ <<c, asked[c]>> \in CanFrames
  <1> DEFINE f == <<c, asked[c]>>
  <1>1. f \in CanFrames /\ f[1] = c /\ f[2] = asked[c]
    <2>1. asked[c] \in Nat /\ asked[c] >= 1 /\ asked[c] <= MaxFrames[c]
      BY DEF TxInv, TypeOK, Accounts, OneRequest, Requested
    <2>2. QED BY <2>1, FramesOfClients
  <1> HIDE DEF f
  <1>2. Before(Underway, {f})
    BY <1>1 DEF TxInv, Accounts, UnderwayAsked, Pending, Requested, Before
  <1>3. queue \in Seq(CanFrames) /\ Ordered(queue) /\ Before(Range(queue), {f})
    BY <1>2 DEF TxInv, TypeOK, InOrder, Underway, Before
  <1>4. /\ queue' \in Seq(CanFrames) /\ Len(queue') = Len(queue) + 1
        /\ Ordered(queue') /\ Range(queue') = Range(queue) \cup {f}
    <2>1. queue' = Append(queue, f)
      BY DEF f
    <2>2. QED BY <1>1, <1>3, <2>1, OrderedAppend
  <1>5. Len(queue') <= QueueSize
    BY <1>3, <1>4, LenProperties, CanTxAssumption
  <1>6. Before(Range(bus), {f}) /\ Before(Range(held), {f})
    BY <1>2 DEF Underway, Before
  <1>7. InOrder'
    BY <1>4, <1>6 DEF TxInv, InOrder, Before
  <1>8. Underway' = Underway \cup {f}
    BY <1>4 DEF Underway
  <1>9. QED BY <1>1, <1>4, <1>5, <1>7, <1>8 DEF f

\* The tx thread takes the first frame of the queue.
LEMMA TakeKeepsOrder ==
  ASSUME TxInv, held = <<>>, queue # <<>>,
         held' = <<Head(queue)>>, queue' = Tail(queue), UNCHANGED <<bus, failed>>
  PROVE  /\ queue' \in Seq(CanFrames) /\ Len(queue') <= QueueSize
         /\ held' \in Seq(CanFrames) /\ Len(held') = 1
         /\ InOrder'
         /\ Underway' = Underway
  <1>1. queue \in Seq(CanFrames) /\ Ordered(queue) /\ Len(queue) <= QueueSize
    BY DEF TxInv, TypeOK, InOrder
  <1>2. /\ Head(queue) \in CanFrames /\ queue' \in Seq(CanFrames)
        /\ Len(queue') < Len(queue) /\ Ordered(queue')
        /\ Range(queue) = {Head(queue)} \cup Range(queue')
        /\ Before({Head(queue)}, Range(queue'))
    BY <1>1, OrderedTail
  <1>3. held' \in Seq(CanFrames) /\ Len(held') = 1 /\ Range(held') = {Head(queue)}
    BY <1>2, OneFrame
  <1>4. Len(queue') <= QueueSize
    BY <1>1, <1>2, LenProperties, CanTxAssumption
  <1>5. InOrder'
    BY <1>2, <1>3 DEF TxInv, InOrder, Before
  <1>6. Underway' = Underway
    BY <1>2, <1>3, EmptyRange DEF Underway
  <1>7. QED BY <1>2, <1>3, <1>4, <1>5, <1>6

\* It puts the frame it holds on the bus.
LEMMA SendKeepsOrder ==
  ASSUME TxInv, Len(held) = 1, bus' = bus \o held, held' = <<>>,
         UNCHANGED <<queue, failed>>
  PROVE  bus' \in Seq(CanFrames) /\ InOrder' /\ Underway' = Underway
  <1>1. /\ bus \in Seq(CanFrames) /\ Ordered(bus) /\ held \in Seq(CanFrames)
        /\ Before(Range(bus), Range(held))
    BY DEF TxInv, TypeOK, InOrder
  <1>2. held[1] \in CanFrames /\ held = <<held[1]>> /\ Range(held) = {held[1]}
    BY <1>1, Singleton
  <1>3. bus' = Append(bus, held[1])
    BY <1>1, <1>2, AppendIsConcat
  <1>4. /\ bus' \in Seq(CanFrames) /\ Ordered(bus')
        /\ Range(bus') = Range(bus) \cup Range(held)
    BY <1>1, <1>2, <1>3, OrderedAppend
  <1>5. Range(held') = {}
    BY EmptyRange
  <1>6. InOrder'
    BY <1>4, <1>5 DEF TxInv, InOrder, Before
  <1>7. Underway' = Underway
    BY <1>4, <1>5 DEF Underway
  <1>8. QED BY <1>4, <1>6, <1>7

\* Its send raises.
LEMMA FailKeepsOrder ==
  ASSUME TxInv, Len(held) = 1, failed' = failed \cup Range(held), held' = <<>>,
         UNCHANGED <<queue, bus>>
  PROVE  /\ failed' \subseteq CanFrames /\ InOrder'
         /\ Underway' \subseteq Underway
         /\ Underway' \cup failed' = Underway \cup failed
  <1>1. failed \subseteq CanFrames /\ Range(held) \subseteq CanFrames
    BY RangeIs DEF TxInv, TypeOK
  <1>2. Range(held') = {}
    BY EmptyRange
  <1>3. InOrder'
    BY <1>2 DEF TxInv, InOrder, Before
  <1>4. QED BY <1>1, <1>2, <1>3 DEF Underway
-----------------------------------------------------------------------------
(***************************************************************************)
(* The accounts.                                                           *)
(***************************************************************************)
LEMMA WordsAreTyped ==
  ASSUME TypeOK
  PROVE  /\ \A c \in Clients : asked[c] \in Nat /\ MaxFrames[c] \in Nat
         /\ Underway \subseteq CanFrames
  <1>1. queue \in Seq(CanFrames) /\ held \in Seq(CanFrames) /\ bus \in Seq(CanFrames)
    BY DEF TypeOK
  <1>2. Underway \subseteq CanFrames
    BY <1>1, RangeIs DEF Underway
  <1>3. QED BY <1>2, CanTxAssumption DEF TypeOK

\* Steps that move no frame and put no client to waiting.
LEMMA QuietSteps ==
  ASSUME TxInv, UNCHANGED <<asked, reply, verdict, Moves>>,
         \A c \in Clients :
           /\ client'[c] = "waiting" => client[c] = "waiting"
           /\ reply[c] # "none" => client'[c] = client[c]
  PROVE  Accounts' /\ InOrder'
  <1>1. Underway' = Underway /\ failed' = failed
    BY DEF Moves, Underway
  <1>2. \A f \in CanFrames : f[1] \in Clients
    BY FramesOfClients
  <1>3. Underway \subseteq CanFrames
    BY WordsAreTyped DEF TxInv
  <1>4. OneRequest'
    BY DEF TxInv, Accounts, OneRequest
  <1>5. UnderwayAsked'
    BY <1>1, <1>2, <1>3 DEF TxInv, Accounts, UnderwayAsked, Pending
  <1>6. VerdictsArePast'
    BY <1>2 DEF TxInv, Accounts, VerdictsArePast
  <1>7. RepliesTrue' /\ VerdictsTrue'
    BY <1>1 DEF TxInv, Accounts, RepliesTrue, VerdictsTrue
  <1>8. InOrder'
    BY DEF TxInv, InOrder, Moves
  <1>9. QED BY <1>4, <1>5, <1>6, <1>7, <1>8 DEF Accounts

LEMMA SendAccounts ==
  ASSUME TxInv, NEW c \in Clients, Send(c)
  PROVE  Accounts' /\ InOrder'
  <1> USE DEF TxInv
  <1>0. UNCHANGED <<queue, held, bus, failed, reply, verdict>>
    BY DEF Send, txVars
  <1>1. /\ Underway' = Underway /\ failed' = failed /\ reply' = reply /\ verdict' = verdict
        /\ Underway \subseteq CanFrames
    BY <1>0, WordsAreTyped DEF Underway
  <1>2. /\ asked[c] \in Nat /\ asked[c] < MaxFrames[c] /\ client[c] = "ready"
        /\ asked'[c] = asked[c] + 1 /\ client'[c] = "waiting"
        /\ \A d \in Clients : d # c => asked'[d] = asked[d] /\ client'[d] = client[d]
        /\ \A d \in Clients : asked[d] \in Nat
    BY DEF TypeOK, Send
  <1>9. reply[c] = "none"
    BY <1>2 DEF Accounts, OneRequest
  <1>3. OneRequest'
    BY <1>1, <1>2, <1>9, CanTxAssumption DEF Accounts, OneRequest
  <1>4. UnderwayAsked'
    <2> SUFFICES ASSUME NEW f \in Underway
                 PROVE  f[2] <= asked'[f[1]] /\ (Pending(f[1])' => f[2] < asked'[f[1]])
      BY <1>1 DEF UnderwayAsked
    <2>1. f[1] \in Clients /\ f[2] \in Nat /\ f[2] <= asked[f[1]]
          /\ (Pending(f[1]) => f[2] < asked[f[1]])
      BY <1>1, FramesOfClients DEF Accounts, UnderwayAsked
    <2>2. CASE f[1] = c
      BY <1>2, <2>1, <2>2
    <2>3. CASE f[1] # c
      BY <1>1, <1>2, <2>1, <2>3 DEF Pending
    <2>4. QED BY <2>2, <2>3
  <1>5. VerdictsArePast'
    <2> SUFFICES ASSUME NEW f \in CanFrames, verdict[f] # "none"
                 PROVE  f[2] <= asked'[f[1]]
                        /\ (client'[f[1]] = "waiting" => f[2] < asked'[f[1]])
      BY <1>1 DEF VerdictsArePast
    <2>1. f[1] \in Clients /\ f[2] \in Nat /\ f[2] <= asked[f[1]]
          /\ (client[f[1]] = "waiting" => f[2] < asked[f[1]])
      BY FramesOfClients DEF Accounts, VerdictsArePast
    <2>2. CASE f[1] = c
      BY <1>2, <2>1, <2>2
    <2>3. CASE f[1] # c
      BY <1>1, <1>2, <2>1, <2>3
    <2>4. QED BY <2>2, <2>3
  <1>6. RepliesTrue' /\ VerdictsTrue'
    BY <1>1, <1>2, <1>9 DEF Accounts, RepliesTrue, VerdictsTrue
  <1>7. InOrder'
    BY <1>0 DEF InOrder
  <1>8. QED BY <1>3, <1>4, <1>5, <1>6, <1>7 DEF Accounts

LEMMA ReadAccounts ==
  ASSUME TxInv, NEW c \in Clients, ReadReply(c)
  PROVE  /\ verdict' \in [CanFrames -> {"none", "accepted", "refused"}]
         /\ Accounts' /\ InOrder'
  <1> DEFINE f == <<c, asked[c]>>
  <1> USE DEF TxInv
  <1>0. UNCHANGED <<queue, held, bus, failed, asked>>
    BY DEF ReadReply, txVars
  <1>1. /\ Underway' = Underway /\ failed' = failed /\ asked' = asked
        /\ Underway \subseteq CanFrames
    BY <1>0, WordsAreTyped DEF Underway
  <1>14. /\ client[c] = "waiting" /\ reply[c] # "none" /\ asked[c] \in Nat
         /\ reply[c] \in {"none", "accepted", "refused"}
         /\ verdict' = [verdict EXCEPT ![f] = reply[c]]
         /\ verdict \in [CanFrames -> {"none", "accepted", "refused"}]
    BY DEF TypeOK, ReadReply
  <1>2. f \in CanFrames /\ f[1] = c /\ f[2] = asked[c]
    <2>1. asked[c] \in Nat /\ asked[c] >= 1 /\ asked[c] <= MaxFrames[c]
      BY <1>14 DEF Accounts, OneRequest
    <2>2. QED BY <2>1, FramesOfClients
  <1>3. reply[c] = "accepted" => f \in Underway \cup failed
    BY DEF Accounts, RepliesTrue
  <1>4. reply[c] = "refused" => f \notin Underway
    BY DEF Accounts, RepliesTrue
  <1> HIDE DEF f
  <1>5. /\ verdict' \in [CanFrames -> {"none", "accepted", "refused"}]
        /\ verdict'[f] = reply[c]
        /\ \A g \in CanFrames : g # f => verdict'[g] = verdict[g]
    BY <1>14, <1>2
  <1>6. /\ client'[c] = "ready" /\ reply'[c] = "none"
        /\ \A d \in Clients : d # c => client'[d] = client[d] /\ reply'[d] = reply[d]
    BY DEF TypeOK, ReadReply
  <1>7. OneRequest'
    BY <1>1, <1>6 DEF Accounts, OneRequest
  <1>8. UnderwayAsked'
    <2>1. \A g \in Underway : g[1] \in Clients
      BY <1>1, FramesOfClients
    <2>2. QED BY <1>1, <1>6, <2>1 DEF Accounts, UnderwayAsked, Pending
  <1>9. VerdictsArePast'
    <2> SUFFICES ASSUME NEW g \in CanFrames, verdict'[g] # "none"
                 PROVE  g[2] <= asked[g[1]] /\ (client'[g[1]] = "waiting" => g[2] < asked[g[1]])
      BY <1>1 DEF VerdictsArePast
    <2>1. CASE g = f
      BY <1>1, <1>2, <1>6, <1>14, <2>1
    <2>2. CASE g # f
      <3>1. verdict[g] # "none" /\ g[1] \in Clients
        BY <1>5, <2>2, FramesOfClients
      <3>2. QED BY <1>6, <3>1 DEF Accounts, VerdictsArePast
    <2>3. QED BY <2>1, <2>2
  <1>10. RepliesTrue'
    BY <1>1, <1>6 DEF Accounts, RepliesTrue
  <1>11. VerdictsTrue'
    BY <1>1, <1>3, <1>4, <1>5 DEF Accounts, VerdictsTrue
  <1>12. InOrder'
    BY <1>0 DEF InOrder
  <1>13. QED BY <1>5, <1>7, <1>8, <1>9, <1>10, <1>11, <1>12 DEF Accounts

LEMMA PutAccounts ==
  ASSUME TxInv, NEW c \in Clients, HandlerPut(c)
  PROVE  /\ queue' \in Seq(CanFrames) /\ Len(queue') <= QueueSize
         /\ Accounts' /\ InOrder'
  <1> DEFINE f == <<c, asked[c]>>
  <1> USE DEF TxInv
  <1>1. /\ client' = client /\ asked' = asked /\ verdict' = verdict /\ failed' = failed
        /\ held' = held /\ bus' = bus
        /\ Requested(c) /\ client[c] = "waiting" /\ reply[c] = "none"
        /\ reply \in [Clients -> {"none", "accepted", "refused"}]
        /\ asked[c] \in Nat /\ f[1] = c /\ f[2] = asked[c]
    BY DEF HandlerPut, Requested, clientVars, TypeOK
  <1>2. \A g \in Underway : f # g /\ g[1] \in Clients
    <2>1. \A g \in Underway : g[1] \in Clients /\ g[2] \in Nat
      BY FramesOfClients, WordsAreTyped
    <2>2. \A g \in Underway : g[1] = c => g[2] < asked[c]
      BY <1>1 DEF Accounts, UnderwayAsked, Pending
    <2>3. QED BY <1>1, <2>1, <2>2
  <1>3. VerdictsArePast'
    BY <1>1 DEF Accounts, VerdictsArePast
  <1>4. CASE halRef /\ Len(queue) < QueueSize
    <2>1. /\ queue' = Append(queue, f) /\ reply' = [reply EXCEPT ![c] = "accepted"]
      BY <1>4 DEF HandlerPut, Answer
    <2>2. /\ queue' \in Seq(CanFrames) /\ Len(queue') <= QueueSize /\ InOrder'
          /\ Underway' = Underway \cup {f} /\ f \in CanFrames
      BY <1>1, <1>4, <2>1, PutKeepsOrder
    <2> HIDE DEF f
    <2>3. /\ reply'[c] = "accepted"
          /\ \A d \in Clients : d # c => reply'[d] = reply[d]
      BY <1>1, <2>1
    <2>4. OneRequest'
      BY <1>1, <2>3 DEF Accounts, OneRequest
    <2>5. UnderwayAsked'
      <3> SUFFICES ASSUME NEW g \in Underway \cup {f}
                   PROVE  g[2] <= asked[g[1]] /\ (Pending(g[1])' => g[2] < asked[g[1]])
        BY <1>1, <2>2 DEF UnderwayAsked
      <3>1. CASE g = f
        BY <1>1, <2>3, <3>1 DEF Pending
      <3>2. CASE g \in Underway
        <4>1. g[2] <= asked[g[1]] /\ (Pending(g[1]) => g[2] < asked[g[1]]) /\ g[1] \in Clients
          BY <1>2, <3>2 DEF Accounts, UnderwayAsked
        <4>2. Pending(g[1])' => Pending(g[1])
          BY <1>1, <2>3, <4>1 DEF Pending
        <4>3. QED BY <4>1, <4>2
      <3>3. QED BY <3>1, <3>2
    <2>6. RepliesTrue'
      <3> SUFFICES ASSUME NEW d \in Clients
                   PROVE  /\ reply'[d] = "accepted" => <<d, asked[d]>> \in Underway' \cup failed
                          /\ reply'[d] = "refused" => <<d, asked[d]>> \notin Underway'
        BY <1>1 DEF RepliesTrue
      <3>1. CASE d = c
        BY <2>2, <2>3, <3>1 DEF f
      <3>2. CASE d # c
        <4>1. <<d, asked[d]>> # f
          BY <3>2 DEF f
        <4>2. QED BY <2>2, <2>3, <3>2, <4>1 DEF Accounts, RepliesTrue
      <3>3. QED BY <3>1, <3>2
    <2>7. VerdictsTrue'
      <3>1. verdict[f] = "none"
        BY <1>1, <2>2 DEF Accounts, VerdictsArePast
      <3>2. QED BY <1>1, <2>2, <3>1 DEF Accounts, VerdictsTrue
    <2>8. QED BY <1>3, <2>2, <2>4, <2>5, <2>6, <2>7 DEF Accounts
  <1>5. CASE ~(halRef /\ Len(queue) < QueueSize)
    <2>1. queue' = queue /\ reply' = [reply EXCEPT ![c] = "refused"]
      BY <1>5 DEF HandlerPut, Answer
    <2>2. /\ queue' \in Seq(CanFrames) /\ Len(queue') <= QueueSize /\ InOrder'
          /\ Underway' = Underway
      BY <1>1, <2>1 DEF TypeOK, InOrder, Underway
    <2>3. /\ reply'[c] = "refused"
          /\ \A d \in Clients : d # c => reply'[d] = reply[d]
      BY <1>1, <2>1
    <2>4. OneRequest'
      BY <1>1, <2>3 DEF Accounts, OneRequest
    <2>5. UnderwayAsked'
      BY <1>1, <1>2, <2>2, <2>3 DEF Accounts, UnderwayAsked, Pending
    <2>6. RepliesTrue'
      BY <1>1, <1>2, <2>2, <2>3 DEF Accounts, RepliesTrue
    <2>7. VerdictsTrue'
      BY <1>1, <2>2 DEF Accounts, VerdictsTrue
    <2>8. QED BY <1>3, <2>2, <2>4, <2>5, <2>6, <2>7 DEF Accounts
  <1>6. QED BY <1>4, <1>5

\* Steps of the tx thread: nothing appears that was not under way, and what
\* disappears has failed.
LEMMA TxAccounts ==
  ASSUME TxInv, UNCHANGED <<client, asked, reply, verdict>>,
         Underway' \subseteq Underway, Underway' \cup failed' = Underway \cup failed
  PROVE  Accounts'
  <1>1. OneRequest' /\ VerdictsArePast'
    BY DEF TxInv, Accounts, OneRequest, VerdictsArePast
  <1>2. UnderwayAsked'
    BY DEF TxInv, Accounts, UnderwayAsked, Pending
  <1>3. RepliesTrue' /\ VerdictsTrue'
    BY DEF TxInv, Accounts, RepliesTrue, VerdictsTrue
  <1>4. QED BY <1>1, <1>2, <1>3 DEF Accounts
-----------------------------------------------------------------------------
(***************************************************************************)
(* The invariant.                                                          *)
(***************************************************************************)
LEMMA InitTx == Init => TxInv
  <1> SUFFICES ASSUME Init PROVE TxInv
    OBVIOUS
  <1>1. /\ queue = <<>> /\ held = <<>> /\ bus = <<>> /\ failed = {}
        /\ \A c \in Clients :
             asked[c] = 0 /\ reply[c] = "none" /\ client[c] = "off"
        /\ \A f \in CanFrames : verdict[f] = "none"
    BY DEF Init
  <1>2. TypeOK
    <2>1. queue \in Seq(CanFrames) /\ Len(queue) = 0
      BY <1>1, EmptySeq
    <2>2. Len(queue) <= QueueSize /\ Len(held) <= 1
      BY <1>1, <2>1, CanTxAssumption
    <2>3. /\ client \in [Clients -> {"off", "greeting", "ready", "waiting", "lost"}]
          /\ asked \in [Clients -> Nat]
          /\ reply \in [Clients -> {"none", "accepted", "refused"}]
          /\ verdict \in [CanFrames -> {"none", "accepted", "refused"}]
          /\ handler \in [Clients -> {"none", "head", "read", "closed"}]
      BY DEF Init
    <2>4. failed \subseteq CanFrames /\ held \in Seq(CanFrames) /\ bus \in Seq(CanFrames)
      BY <1>1, <2>1
    <2>5. QED BY <2>1, <2>2, <2>3, <2>4 DEF Init, TypeOK
  <1>3. Underway = {}
    BY <1>1, EmptyRange DEF Underway
  <1>4. InOrder
    <2>1. Len(queue) = 0
      BY <1>1
    <2>2. QED BY <1>1, <2>1, EmptyRange DEF InOrder, Ordered, Before
  <1>5. HeldWhileSending
    BY <1>1 DEF Init, HeldWhileSending
  <1>6. OneRequest
    BY <1>1, CanTxAssumption DEF OneRequest
  <1>7. UnderwayAsked /\ VerdictsArePast /\ RepliesTrue /\ VerdictsTrue
    BY <1>1, <1>3 DEF UnderwayAsked, VerdictsArePast, RepliesTrue, VerdictsTrue
  <1>8. QED BY <1>2, <1>4, <1>5, <1>6, <1>7 DEF TxInv, Accounts

\* Steps of clients, of the head of a handler, and of the main thread.
QuietClient(c) ==
  Connect(c) \/ ConnectFails(c) \/ ReadEndOfFile(c) \/ HandlerHead(c) \/ Accept(c)
QuietMain ==
  StartServing \/ StopServing \/ Join \/ CloseBus \/ Exit \/ Terminate \/ Kill

LEMMA ResetIsQuiet ==
  ASSUME TypeOK, client' = Reset
  PROVE  /\ client' \in [Clients -> {"off", "greeting", "ready", "waiting", "lost"}]
         /\ \A c \in Clients : client[c] = "waiting" <=> client'[c] = "waiting"
  BY DEF TypeOK, Reset

LEMMA ClosedIsTyped ==
  ASSUME TypeOK
  PROVE  Closed \in [Clients -> {"none", "head", "read", "closed"}]
  BY DEF TypeOK, Closed

LEMMA QuietClientSteps ==
  ASSUME TxInv, NEW c \in Clients, QuietClient(c)
  PROVE  TxInv'
  <1> USE DEF QuietClient
  <1>1. UNCHANGED <<asked, verdict, reply, Moves, tx>>
    BY DEF Connect, ConnectFails, ReadEndOfFile, HandlerHead, Accept, clientVars, txVars,
           Moves
  <1>2. TypeOK'
    <2>1. client' \in [Clients -> {"off", "greeting", "ready", "waiting", "lost"}]
      BY DEF TxInv, TypeOK, Connect, ConnectFails, ReadEndOfFile, HandlerHead, Accept,
             clientVars
    <2>2. handler' \in [Clients -> {"none", "head", "read", "closed"}]
      BY DEF TxInv, TypeOK, Connect, ConnectFails, ReadEndOfFile, HandlerHead, Accept
    <2>3. UNCHANGED mainVars
      BY DEF Connect, ConnectFails, ReadEndOfFile, HandlerHead, Accept
    <2>4. QED BY <1>1, <2>1, <2>2, <2>3 DEF TxInv, TypeOK, Moves, mainVars
  <1>3. \A d \in Clients :
          /\ client'[d] = "waiting" => client[d] = "waiting"
          /\ reply[d] # "none" => client'[d] = client[d]
    <2>1. \A d \in Clients : d # c => client'[d] = client[d]
      BY DEF TxInv, TypeOK, Connect, ConnectFails, ReadEndOfFile, HandlerHead, Accept,
             clientVars
    <2>2. client'[c] = "waiting" => client[c] = "waiting"
      BY DEF TxInv, TypeOK, Connect, ConnectFails, ReadEndOfFile, HandlerHead, Accept,
             clientVars
    <2>3. reply[c] # "none" => client[c] = "waiting"
      BY DEF TxInv, Accounts, OneRequest
    <2>4. reply[c] # "none" => client'[c] = client[c]
      BY <2>3 DEF TxInv, TypeOK, Connect, ConnectFails, ReadEndOfFile, HandlerHead, Accept,
             clientVars
    <2>5. QED BY <2>1, <2>2, <2>4
  <1>4. Accounts' /\ InOrder'
    BY <1>1, <1>3, QuietSteps
  <1>5. HeldWhileSending'
    BY <1>1 DEF TxInv, HeldWhileSending, Moves
  <1>6. QED BY <1>2, <1>4, <1>5 DEF TxInv

LEMMA QuietMainSteps ==
  ASSUME TxInv, QuietMain
  PROVE  TxInv'
  <1> USE DEF QuietMain
  <1>1. UNCHANGED <<asked, verdict, reply, Moves>>
    BY DEF StartServing, StopServing, Join, CloseBus, Exit, Terminate, Kill, clientVars,
           txVars, Moves
  <1>2. client' = client \/ client' = Reset
    BY DEF StartServing, StopServing, Join, CloseBus, Exit, Terminate, Kill, clientVars
  <1>3. handler' = handler \/ handler' = Closed
    BY DEF StartServing, StopServing, Join, CloseBus, Exit, Terminate, Kill
  <1>4. tx' = tx \/ tx' = "ended"
    BY DEF StartServing, StopServing, Join, CloseBus, Exit, Terminate, Kill, txVars
  <1>5. TypeOK'
    <2>1. client' \in [Clients -> {"off", "greeting", "ready", "waiting", "lost"}]
      BY <1>2, ResetIsQuiet DEF TxInv, TypeOK
    <2>2. handler' \in [Clients -> {"none", "head", "read", "closed"}]
      BY <1>3, ClosedIsTyped DEF TxInv, TypeOK
    <2>3. /\ main' \in {"starting", "serving", "closing", "joined", "done", "exited", "killed"}
          /\ stopEvent' \in BOOLEAN /\ halStop' \in BOOLEAN
          /\ halRef' \in BOOLEAN /\ busOpen' \in BOOLEAN
      BY DEF TxInv, TypeOK, StartServing, StopServing, Join, CloseBus, Exit, Terminate, Kill
    <2>4. QED BY <1>1, <1>4, <2>1, <2>2, <2>3 DEF TxInv, TypeOK, Moves
  <1>6. \A d \in Clients :
          /\ client'[d] = "waiting" => client[d] = "waiting"
          /\ reply[d] # "none" => client'[d] = client[d]
    BY <1>2 DEF TxInv, TypeOK, Accounts, OneRequest, Reset
  <1>7. Accounts' /\ InOrder'
    BY <1>1, <1>6, QuietSteps
  <1>8. HeldWhileSending'
    BY <1>1, <1>4 DEF TxInv, HeldWhileSending, Moves
  <1>9. QED BY <1>5, <1>7, <1>8 DEF TxInv

LEMMA RequestSteps ==
  ASSUME TxInv, NEW c \in Clients, Send(c) \/ ReadReply(c) \/ HandlerPut(c)
  PROVE  TxInv'
  <1>1. CASE Send(c)
    <2>1. Accounts' /\ InOrder'
      BY <1>1, SendAccounts
    <2>2. TypeOK'
      BY <1>1 DEF TxInv, TypeOK, Send, txVars, mainVars
    <2>3. HeldWhileSending'
      BY <1>1 DEF TxInv, HeldWhileSending, Send, txVars
    <2>4. QED BY <2>1, <2>2, <2>3 DEF TxInv
  <1>2. CASE ReadReply(c)
    <2>1. /\ Accounts' /\ InOrder'
          /\ verdict' \in [CanFrames -> {"none", "accepted", "refused"}]
      BY <1>2, ReadAccounts
    <2>2. TypeOK'
      BY <1>2, <2>1 DEF TxInv, TypeOK, ReadReply, txVars, mainVars
    <2>3. HeldWhileSending'
      BY <1>2 DEF TxInv, HeldWhileSending, ReadReply, txVars
    <2>4. QED BY <2>1, <2>2, <2>3 DEF TxInv
  <1>3. CASE HandlerPut(c)
    <2>1. /\ queue' \in Seq(CanFrames) /\ Len(queue') <= QueueSize
          /\ Accounts' /\ InOrder'
      BY <1>3, PutAccounts
    <2>2. /\ reply' \in [Clients -> {"none", "accepted", "refused"}]
          /\ handler' \in [Clients -> {"none", "head", "read", "closed"}]
      BY <1>3 DEF TxInv, TypeOK, HandlerPut, Answer
    <2>3. UNCHANGED <<client, asked, verdict, held, bus, failed, tx, mainVars>>
      BY <1>3 DEF HandlerPut, clientVars
    <2>4. TypeOK'
      BY <2>1, <2>2, <2>3 DEF TxInv, TypeOK, mainVars
    <2>5. HeldWhileSending'
      BY <2>3 DEF TxInv, HeldWhileSending
    <2>6. QED BY <2>1, <2>4, <2>5 DEF TxInv
  <1>4. QED BY <1>1, <1>2, <1>3

LEMMA TxSteps ==
  ASSUME TxInv, TxThread
  PROVE  TxInv'
  <1>0. UNCHANGED <<client, asked, verdict, reply, handler, mainVars>>
    BY DEF TxThread, TxHead, TxGet, TxSend, TxFails, clientVars
  <1>1. ASSUME UNCHANGED Moves PROVE Accounts' /\ InOrder'
    BY <1>0, <1>1, QuietSteps
  <1>2. CASE TxHead
    <2>1. UNCHANGED Moves
      BY <1>2 DEF TxHead, Moves
    <2>2. TypeOK' /\ HeldWhileSending'
      BY <1>0, <1>2, <2>1 DEF TxInv, TypeOK, HeldWhileSending, TxHead, Moves, mainVars
    <2>3. QED BY <1>1, <2>1, <2>2 DEF TxInv
  <1>3. CASE TxGet /\ queue = <<>>
    <2>1. UNCHANGED Moves /\ tx = "get" /\ tx' = "head"
      BY <1>3 DEF TxGet, Moves
    <2>2. TypeOK' /\ HeldWhileSending'
      BY <1>0, <2>1 DEF TxInv, TypeOK, HeldWhileSending, Moves, mainVars
    <2>3. QED BY <1>1, <2>1, <2>2 DEF TxInv
  <1>4. CASE TxGet /\ queue # <<>>
    <2>1. /\ held = <<>> /\ held' = <<Head(queue)>> /\ queue' = Tail(queue)
          /\ UNCHANGED <<bus, failed>> /\ tx' = "send"
      BY <1>4 DEF TxInv, HeldWhileSending, TxGet
    <2>2. /\ queue' \in Seq(CanFrames) /\ Len(queue') <= QueueSize
          /\ held' \in Seq(CanFrames) /\ Len(held') = 1
          /\ InOrder' /\ Underway' = Underway
      BY <1>4, <2>1, TakeKeepsOrder
    <2>3. Accounts'
      BY <1>0, <2>1, <2>2, TxAccounts
    <2>4. TypeOK' /\ HeldWhileSending'
      BY <1>0, <2>1, <2>2 DEF TxInv, TypeOK, HeldWhileSending, mainVars
    <2>5. QED BY <2>2, <2>3, <2>4 DEF TxInv
  <1>5. CASE TxSend
    <2>1. /\ Len(held) = 1 /\ bus' = bus \o held /\ held' = <<>>
          /\ UNCHANGED <<queue, failed>> /\ tx' = "head"
      BY <1>5 DEF TxInv, HeldWhileSending, TxSend
    <2>2. bus' \in Seq(CanFrames) /\ InOrder' /\ Underway' = Underway
      BY <2>1, SendKeepsOrder
    <2>3. Accounts'
      BY <1>0, <2>1, <2>2, TxAccounts
    <2>4. TypeOK' /\ HeldWhileSending'
      BY <1>0, <2>1, <2>2, EmptySeq DEF TxInv, TypeOK, HeldWhileSending, mainVars
    <2>5. QED BY <2>2, <2>3, <2>4 DEF TxInv
  <1>6. CASE TxFails
    <2>1. /\ Len(held) = 1 /\ failed' = failed \cup Range(held) /\ held' = <<>>
          /\ UNCHANGED <<queue, bus>> /\ tx' = "head"
      BY <1>6 DEF TxInv, HeldWhileSending, TxFails
    <2>2. /\ failed' \subseteq CanFrames /\ InOrder'
          /\ Underway' \subseteq Underway
          /\ Underway' \cup failed' = Underway \cup failed
      BY <2>1, FailKeepsOrder
    <2>3. Accounts'
      BY <1>0, <2>2, TxAccounts
    <2>4. TypeOK' /\ HeldWhileSending'
      BY <1>0, <2>1, <2>2, EmptySeq DEF TxInv, TypeOK, HeldWhileSending, mainVars
    <2>5. QED BY <2>2, <2>3, <2>4 DEF TxInv
  <1>7. QED BY <1>2, <1>3, <1>4, <1>5, <1>6 DEF TxThread, TxGet

LEMMA NextTx == TxInv /\ [Next]_vars => TxInv'
  <1> SUFFICES ASSUME TxInv, [Next]_vars PROVE TxInv'
    OBVIOUS
  <1>1. ASSUME NEW c \in Clients, QuietClient(c) PROVE TxInv'
    BY <1>1, QuietClientSteps
  <1>2. ASSUME NEW c \in Clients, Send(c) \/ ReadReply(c) \/ HandlerPut(c) PROVE TxInv'
    BY <1>2, RequestSteps
  <1>3. CASE QuietMain
    BY <1>3, QuietMainSteps
  <1>4. CASE TxThread
    BY <1>4, TxSteps
  <1>5. CASE UNCHANGED vars
    <2>1. UNCHANGED <<client, asked, verdict, reply, handler, Moves, tx, mainVars>>
      BY <1>5 DEF vars, clientVars, txVars, Moves
    <2>2. Accounts' /\ InOrder'
      BY <2>1, QuietSteps
    <2>3. TypeOK' /\ HeldWhileSending'
      BY <2>1 DEF TxInv, TypeOK, HeldWhileSending, Moves, mainVars
    <2>4. QED BY <2>2, <2>3 DEF TxInv
  <1>6. QED
    BY <1>1, <1>2, <1>3, <1>4, <1>5
    DEF Next, QuietClient, QuietMain, Handler, Reader, MainThread

\* Order, place and answer of every frame, for all clients and sizes of the queue.
THEOREM TxInvariant == Spec => []TxInv
  BY InitTx, NextTx, PTL DEF Spec

\* Types, and the bound of the queue.
THEOREM TxTypesHold == Spec => []TypeOK
  <1>1. TxInv => TypeOK
    BY DEF TxInv
  <1>2. QED BY <1>1, TxInvariant, PTL

\* The bus sees the frames of each client in the order of its requests, none
\* twice and none that was refused.
THEOREM BusFollows == Spec => []BusFollowsRequests
  <1>1. TxInv => BusFollowsRequests
    <2> SUFFICES ASSUME TxInv PROVE BusFollowsRequests
      OBVIOUS
    <2>1. Ordered(bus)
      BY DEF TxInv, InOrder
    <2>2. \A f \in Verdict("refused") : f \notin Range(bus)
      BY DEF TxInv, Accounts, VerdictsTrue, Underway, Verdict
    <2>3. QED BY <2>1, <2>2 DEF BusFollowsRequests, Ordered
  <1>2. QED BY <1>1, TxInvariant, PTL

\* No acknowledged frame disappears without a trace.
THEOREM AcceptedAreAccounted == Spec => []AcceptedAccounted
  <1>1. TxInv => AcceptedAccounted
    <2> SUFFICES ASSUME TxInv PROVE AcceptedAccounted
      OBVIOUS
    <2>1. queue \in Seq(CanFrames) /\ held \in Seq(CanFrames) /\ bus \in Seq(CanFrames)
      BY DEF TxInv, TypeOK
    <2>2. Range(bus \o held \o queue) = Underway
      <3>1. bus \o held \in Seq(CanFrames)
        BY <2>1, ConcatProperties
      <3>2. Range(bus \o held) = Range(bus) \cup Range(held)
        BY <2>1, RangeConcatenation
      <3>3. ASSUME NEW s \in Seq(CanFrames)
            PROVE  Range(s \o queue) = Range(s) \cup Range(queue)
        BY <2>1, RangeConcatenation
      <3>4. QED BY <3>1, <3>2, <3>3 DEF Underway
    <2>3. \A f \in Verdict("accepted") : f \in Underway \cup failed
      BY DEF TxInv, Accounts, VerdictsTrue, Verdict
    <2>4. QED BY <2>2, <2>3 DEF AcceptedAccounted
  <1>2. QED BY <1>1, TxInvariant, PTL
=============================================================================
