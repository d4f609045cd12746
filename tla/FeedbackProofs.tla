---------------------------- MODULE FeedbackProofs ----------------------------
(***************************************************************************)
(* What the published state says of the motor and the IMU, for any         *)
(* channels, requests, timeouts and numbers of answers under way.          *)
(***************************************************************************)
EXTENDS Feedback, SequenceTheorems, TLAPS

\* The positions under way are later ones than the merged one, in the order in
\* which the motor reported them.
FrameAhead ==
  \A i \in 1 .. Len(frame) : frame[i].kind = "status" =>
    position < frame[i].n /\ frame[i].n <= samples
RepliesAhead ==
  \A i \in 1 .. Len(replies) : replies[i].kind = "status" =>
    position < replies[i].n /\ replies[i].n <= samples
FrameFirst ==
  \A i \in 1 .. Len(frame), j \in 1 .. Len(replies) :
    frame[i].kind = "status" /\ replies[j].kind = "status" => frame[i].n < replies[j].n
RepliesOrdered ==
  \A i, j \in 1 .. Len(replies) :
    i < j /\ replies[i].kind = "status" /\ replies[j].kind = "status" =>
      replies[i].n < replies[j].n
UnderwayInOrder == FrameAhead /\ RepliesAhead /\ FrameFirst /\ RepliesOrdered

\* The state under construction lies between the published and the merged one.
PositionsFollow ==
  /\ published.position <= position
  /\ built.position <= position
  /\ ctl = "motor comm" => published.position <= built.position

\* The ages as of `now` and the true ages differ by the time since at most.
Lag ==
  InBuild => \A c \in Channel : /\ asOfNow[c] <= age[c]
                                /\ age[c] <= asOfNow[c] + elapsed

\* Flags and ages belong together: in the driver when its flags have been updated,
\* in the state from then on.
ImuMatches ==
  \A c \in Imu :
    /\ ctl = "imu state" => /\ online[c] => asOfNow[c] <= Timeout
                            /\ ~online[c] => asOfNow[c] + elapsed > Timeout
    /\ ctl = "imu comm" => /\ online[c] => built.age[c] <= Timeout \/ c \in raced
                           /\ ~online[c] => built.age[c] + elapsed > Timeout
    /\ ctl \in {"motor state", "motor comm"} =>
         /\ built.online[c] => built.age[c] <= Timeout \/ c \in raced
         /\ ~built.online[c] => built.age[c] + elapsed > Timeout
MotorMatches ==
  ctl = "motor comm" =>
    /\ asOfNow["motor"] <= built.age["motor"]
    /\ built.age["motor"] = asOfNow["motor"] \/ "motor" \in raced

Agree == Lag /\ ImuMatches /\ MotorMatches

FeedbackInv ==
  TypeOK /\ UnderwayInOrder /\ PositionsFollow /\ Agree
-----------------------------------------------------------------------------
(***************************************************************************)
(* Answers, sequences of them and ages.                                    *)
(***************************************************************************)
LEMMA ReplyFields ==
  ASSUME NEW f \in Replies
  PROVE  /\ f.n \in Nat
         /\ f.kind = "status" => f.n \in 1 .. MaxSamples
         /\ ChannelOf(f) \in Channel
  BY FeedbackAssumption DEF Replies, Reply, ChannelOf, Channel

LEMMA StatusIsReply ==
  ASSUME NEW n \in 1 .. MaxSamples
  PROVE  /\ Reply("status", n) \in Replies
         /\ Reply("status", n).kind = "status" /\ Reply("status", n).n = n
  BY DEF Replies, Reply

LEMMA OtherIsReply ==
  ASSUME NEW k \in Acked \cup Imu
  PROVE  Reply(k, 0) \in Replies /\ Reply(k, 0).kind # "status"
  BY FeedbackAssumption DEF Replies, Reply

LEMMA AtMost ==
  ASSUME NEW a \in Nat, NEW b \in Nat, NEW c \in Nat, a <= b, b <= c
  PROVE  a <= c
  OBVIOUS

LEMMA ZeroLeast ==
  ASSUME NEW n \in Nat, NEW z, z = 0
  PROVE  z <= n
  OBVIOUS

LEMMA LaterType ==
  ASSUME NEW limit \in Nat, NEW t \in 0 .. limit + 1
  PROVE  Later(t, limit) \in 0 .. limit + 1
  BY DEF Later

LEMMA Single ==
  ASSUME NEW f \in Replies
  PROVE  <<f>> \in Seq(Replies) /\ Len(<<f>>) = 1 /\ <<f>>[1] = f /\ Head(<<f>>) = f
  OBVIOUS

LEMMA First ==
  ASSUME NEW s \in Seq(Replies), s # <<>>
  PROVE  /\ Len(s) \in Nat \ {0} /\ 1 \in 1 .. Len(s) /\ Head(s) = s[1]
         /\ Head(s) \in Replies
  BY HeadTailProperties, LenProperties, EmptySeq

LEMMA NoneUnderway == Len(<<>>) = 0
  OBVIOUS

\* The types that are used in arithmetic.
LEMMA Numbers ==
  ASSUME TypeOK
  PROVE  /\ samples \in Nat /\ samples <= MaxSamples
         /\ position \in Nat /\ position <= samples
         /\ replies \in Seq(Replies) /\ Len(replies) \in Nat /\ Len(replies) <= MaxReplies
         /\ frame \in Seq(Replies) /\ Len(frame) \in Nat
         /\ built.position \in Nat /\ published.position \in Nat
  <1>0. /\ samples \in 0 .. MaxSamples /\ position \in 0 .. samples
        /\ built.position \in 0 .. samples /\ published.position \in 0 .. samples
    BY DEF TypeOK
  <1>1. samples \in Nat /\ samples <= MaxSamples /\ position \in Nat /\ position <= samples
    BY <1>0, FeedbackAssumption
  <1>2. replies \in Seq(Replies) /\ frame \in Seq(Replies) /\ Len(replies) <= MaxReplies
    BY DEF TypeOK
  <1>3. Len(replies) \in Nat /\ Len(frame) \in Nat
    BY <1>2, LenProperties
  <1>4. built.position \in Nat /\ published.position \in Nat
    BY <1>0, <1>1
  <1>5. QED BY <1>1, <1>2, <1>3, <1>4

LEMMA AgeNumbers ==
  ASSUME TypeOK
  PROVE  /\ \A c \in Channel : /\ age[c] \in Nat /\ asOfNow[c] \in Nat /\ built.age[c] \in Nat
                               /\ age[c] <= Timeout + 1 /\ online[c] \in BOOLEAN
         /\ elapsed \in Nat /\ elapsed <= Timeout + 1 /\ Timeout \in Nat
         /\ "motor" \in Channel
         /\ \A c \in Imu : c \in Channel /\ c # "motor"
  <1>1. /\ age \in [Channel -> 0 .. Timeout + 1] /\ asOfNow \in [Channel -> 0 .. Timeout + 1]
        /\ built.age \in [Channel -> 0 .. Timeout + 1] /\ elapsed \in 0 .. Timeout + 1
        /\ online \in [Channel -> BOOLEAN]
    BY DEF TypeOK, Ages, Flags
  <1>2. /\ Timeout \in Nat /\ "motor" \in Channel
        /\ \A c \in Imu : c \in Channel /\ c # "motor"
    BY FeedbackAssumption DEF Channel
  <1>3. QED BY <1>1, <1>2

\* The frame that is dispatched.
LEMMA FrameIsReply ==
  ASSUME TypeOK, rx \in {"filter", "disturbed", "merge"}
  PROVE  /\ Len(frame) = 1 /\ frame # <<>> /\ Head(frame) = frame[1]
         /\ Head(frame) \in Replies
  <1>1. frame \in Seq(Replies) /\ Len(frame) = 1
    BY DEF TypeOK
  <1>2. frame # <<>>
    <2> SUFFICES ASSUME frame = <<>> PROVE FALSE
      OBVIOUS
    <2>1. Len(frame) = 0
      BY NoneUnderway, Zenon
    <2>2. QED BY <1>1, <2>1
  <1>3. QED BY <1>1, <1>2, First
-----------------------------------------------------------------------------
LEMMA InitFeedback == Init => FeedbackInv
  <1> SUFFICES ASSUME Init PROVE FeedbackInv
    OBVIOUS
  <1> USE FeedbackAssumption
  <1>1. TypeOK
    <2>1. replies \in Seq(Replies) /\ frame \in Seq(Replies) /\ Len(replies) = 0
          /\ Len(frame) = 0
      BY DEF Init
    <2>2. recent \in [Acked -> 0 .. Window + 1]
      BY DEF Init
    <2>3. age \in Ages /\ online \in Flags
      BY DEF Init, NoState, Ages, Flags
    <2>4. built \in [position : 0 .. samples, age : Ages, online : Flags]
      BY DEF Init, NoState, Ages, Flags
    <2>5. published \in [position : 0 .. samples, online : Flags]
      BY DEF Init, NoState, Flags
    <2>6. QED BY <2>1, <2>2, <2>3, <2>4, <2>5 DEF Init, TypeOK
  <1>2. UnderwayInOrder
    BY DEF Init, UnderwayInOrder, FrameAhead, RepliesAhead, FrameFirst, RepliesOrdered
  <1>3. PositionsFollow /\ Agree
    BY DEF Init, NoState, PositionsFollow, Agree, Lag, InBuild, ImuMatches, MotorMatches
  <1>4. QED BY <1>1, <1>2, <1>3 DEF FeedbackInv
-----------------------------------------------------------------------------
(***************************************************************************)
(* The devices and the way back.                                           *)
(***************************************************************************)
LEMMA NewPositionInv ==
  ASSUME FeedbackInv, samples < MaxSamples, Len(replies) < MaxReplies,
         samples' = samples + 1,
         replies' = Append(replies, Reply("status", samples + 1)),
         UNCHANGED <<rx, frame, recent, position, age, online, ctl, command, built,
                     asOfNow, elapsed, raced, published>>
  PROVE  FeedbackInv'
  <1> DEFINE r == Reply("status", samples + 1)
  <1> USE FeedbackAssumption
  <1>1. samples \in Nat /\ replies \in Seq(Replies) /\ samples + 1 \in 1 .. MaxSamples
        /\ Len(replies) \in Nat
    BY Numbers DEF FeedbackInv
  <1>2. r \in Replies /\ r.kind = "status" /\ r.n = samples + 1
    BY <1>1, StatusIsReply
  <1> HIDE DEF r
  <1>3. /\ replies' \in Seq(Replies) /\ Len(replies') = Len(replies) + 1
        /\ \A i \in 1 .. Len(replies) : replies'[i] = replies[i]
        /\ replies'[Len(replies) + 1] = r
    BY <1>1, <1>2, AppendProperties DEF r
  <1>4. TypeOK'
    <2>1. /\ samples' \in 0 .. MaxSamples /\ position' \in 0 .. samples'
          /\ Len(replies') <= MaxReplies
      BY <1>1, <1>3, Numbers DEF FeedbackInv
    <2>2. /\ built' \in [position : 0 .. samples', age : Ages, online : Flags]
          /\ published' \in [position : 0 .. samples', online : Flags]
      <3>1. /\ built \in [position : 0 .. samples, age : Ages, online : Flags]
            /\ published \in [position : 0 .. samples, online : Flags]
        BY DEF FeedbackInv, TypeOK
      <3>2. \A n \in 0 .. samples : n \in 0 .. samples'
        BY <1>1
      <3>3. QED BY <3>1, <3>2
    <2>3. QED BY <1>3, <2>1, <2>2 DEF FeedbackInv, TypeOK
  <1>5. UnderwayInOrder'
    <2>1. FrameAhead'
      <3> SUFFICES ASSUME NEW i \in 1 .. Len(frame), frame[i].kind = "status"
                   PROVE  position < frame[i].n /\ frame[i].n <= samples + 1
        BY DEF FrameAhead
      <3>1. position < frame[i].n /\ frame[i].n <= samples
        BY DEF FeedbackInv, UnderwayInOrder, FrameAhead
      <3>2. frame[i].n \in Nat
        BY Numbers, ElementOfSeq, ReplyFields DEF FeedbackInv
      <3>3. QED BY <1>1, <3>1, <3>2
    <2>2. ASSUME NEW i \in 1 .. Len(replies')
          PROVE  i \in 1 .. Len(replies) \/ (i = Len(replies) + 1 /\ replies'[i] = r)
      BY <1>1, <1>3
    <2>3. position < samples + 1
      BY Numbers DEF FeedbackInv
    <2>4. RepliesAhead'
      <3> SUFFICES ASSUME NEW i \in 1 .. Len(replies'), replies'[i].kind = "status"
                   PROVE  position < replies'[i].n /\ replies'[i].n <= samples + 1
        BY DEF RepliesAhead
      <3>1. CASE i \in 1 .. Len(replies)
        <4>1. position < replies[i].n /\ replies[i].n <= samples
          BY <1>3, <3>1 DEF FeedbackInv, UnderwayInOrder, RepliesAhead
        <4>2. replies[i].n \in Nat
          BY <1>1, <3>1, ElementOfSeq, ReplyFields
        <4>3. QED BY <1>1, <1>3, <3>1, <4>1, <4>2
      <3>2. CASE replies'[i] = r
        BY <1>1, <1>2, <2>3, <3>2
      <3>3. QED BY <2>2, <3>1, <3>2
    <2>5. FrameFirst'
      <3> SUFFICES ASSUME NEW i \in 1 .. Len(frame), NEW j \in 1 .. Len(replies'),
                          frame[i].kind = "status", replies'[j].kind = "status"
                   PROVE  frame[i].n < replies'[j].n
        BY DEF FrameFirst
      <3>1. CASE j \in 1 .. Len(replies)
        BY <1>3, <3>1 DEF FeedbackInv, UnderwayInOrder, FrameFirst
      <3>2. CASE replies'[j] = r
        <4>1. frame[i].n <= samples
          BY DEF FeedbackInv, UnderwayInOrder, FrameAhead
        <4>2. frame[i].n \in Nat
          BY ElementOfSeq, ReplyFields DEF FeedbackInv, TypeOK
        <4>3. QED BY <1>1, <1>2, <3>2, <4>1, <4>2
      <3>3. QED BY <2>2, <3>1, <3>2
    <2>6. RepliesOrdered'
      <3> SUFFICES ASSUME NEW i \in 1 .. Len(replies'), NEW j \in 1 .. Len(replies'),
                          i < j, replies'[i].kind = "status", replies'[j].kind = "status"
                   PROVE  replies'[i].n < replies'[j].n
        BY DEF RepliesOrdered
      <3>0. i \in 1 .. Len(replies)
        BY <1>1, <1>3
      <3>1. CASE j \in 1 .. Len(replies)
        BY <1>3, <3>0, <3>1 DEF FeedbackInv, UnderwayInOrder, RepliesOrdered
      <3>2. CASE replies'[j] = r
        <4>1. replies[i].n <= samples
          BY <1>3, <3>0 DEF FeedbackInv, UnderwayInOrder, RepliesAhead
        <4>2. replies[i].n \in Nat
          BY <1>1, <3>0, ElementOfSeq, ReplyFields
        <4>3. replies'[i] = replies[i] /\ replies'[j].n = samples + 1
          BY <1>2, <1>3, <3>0, <3>2
        <4>4. replies[i].n < samples + 1
          BY <1>1, <4>1, <4>2
        <4>5. QED BY <4>3, <4>4
      <3>3. QED BY <2>2, <3>1, <3>2
    <2>7. QED BY <2>1, <2>4, <2>5, <2>6 DEF UnderwayInOrder
  <1>6. PositionsFollow' /\ Agree'
    BY DEF FeedbackInv, PositionsFollow, Agree, Lag, InBuild, ImuMatches, MotorMatches
  <1>7. QED BY <1>4, <1>5, <1>6 DEF FeedbackInv

LEMMA OtherAnswerInv ==
  ASSUME FeedbackInv, Len(replies) < MaxReplies, NEW k \in Acked \cup Imu,
         replies' = Append(replies, Reply(k, 0)),
         UNCHANGED <<samples, rx, frame, recent, position, age, online, ctl, command,
                     built, asOfNow, elapsed, raced, published>>
  PROVE  FeedbackInv'
  <1> DEFINE r == Reply(k, 0)
  <1> USE FeedbackAssumption
  <1>1. replies \in Seq(Replies) /\ Len(replies) \in Nat
    BY Numbers DEF FeedbackInv
  <1>2. r \in Replies /\ r.kind # "status"
    BY OtherIsReply
  <1> HIDE DEF r
  <1>3. /\ replies' \in Seq(Replies) /\ Len(replies') = Len(replies) + 1
        /\ \A i \in 1 .. Len(replies) : replies'[i] = replies[i]
        /\ replies'[Len(replies) + 1] = r
    BY <1>1, <1>2, AppendProperties DEF r
  <1>4. TypeOK'
    <2>1. Len(replies') <= MaxReplies
      BY <1>1, <1>3
    <2>2. QED BY <1>3, <2>1 DEF FeedbackInv, TypeOK
  <1>5. \A i \in 1 .. Len(replies') : replies'[i].kind = "status" =>
          i \in 1 .. Len(replies) /\ replies'[i] = replies[i]
    BY <1>1, <1>2, <1>3
  <1>6. FrameAhead' /\ RepliesAhead'
    BY <1>5 DEF FeedbackInv, UnderwayInOrder, FrameAhead, RepliesAhead
  <1>7. FrameFirst'
    BY <1>5 DEF FeedbackInv, UnderwayInOrder, FrameFirst
  <1>8. RepliesOrdered'
    <2> SUFFICES ASSUME NEW i \in 1 .. Len(replies'), NEW j \in 1 .. Len(replies'),
                        i < j, replies'[i].kind = "status", replies'[j].kind = "status"
                 PROVE  replies'[i].n < replies'[j].n
      BY DEF RepliesOrdered
    <2>1. /\ i \in 1 .. Len(replies) /\ replies'[i] = replies[i]
          /\ j \in 1 .. Len(replies) /\ replies'[j] = replies[j]
      BY <1>5
    <2>2. QED BY <2>1 DEF FeedbackInv, UnderwayInOrder, RepliesOrdered
  <1>9. PositionsFollow' /\ Agree'
    BY DEF FeedbackInv, PositionsFollow, Agree, Lag, InBuild, ImuMatches, MotorMatches
  <1>10. QED BY <1>4, <1>6, <1>7, <1>8, <1>9 DEF FeedbackInv, UnderwayInOrder

LEMMA AnswerInv == FeedbackInv /\ Answer => FeedbackInv'
  BY NewPositionInv, OtherAnswerInv DEF Answer

\* The rest of what is under way keeps its order.
LEMMA TailInOrder ==
  ASSUME FeedbackInv, replies # <<>>
  PROVE  /\ Tail(replies) \in Seq(Replies) /\ Len(Tail(replies)) = Len(replies) - 1
         /\ Len(replies) \in Nat
         /\ \A i \in 1 .. Len(Tail(replies)) :
              /\ i + 1 \in 1 .. Len(replies) /\ Tail(replies)[i] = replies[i + 1]
              /\ 1 < i + 1
  <1>1. replies \in Seq(Replies) /\ Len(replies) \in Nat
    BY LenProperties DEF FeedbackInv, TypeOK
  <1>2. /\ Tail(replies) \in Seq(Replies) /\ Len(Tail(replies)) = Len(replies) - 1
        /\ \A i \in 1 .. Len(Tail(replies)) : Tail(replies)[i] = replies[i + 1]
    BY <1>1, HeadTailProperties
  <1>3. \A i \in 1 .. Len(Tail(replies)) : i + 1 \in 1 .. Len(replies) /\ 1 < i + 1
    BY <1>1, <1>2
  <1>4. QED BY <1>1, <1>2, <1>3

LEMMA LoseInv == FeedbackInv /\ Lose => FeedbackInv'
  <1> SUFFICES ASSUME FeedbackInv, Lose PROVE FeedbackInv'
    OBVIOUS
  <1> USE FeedbackAssumption
  <1>1. /\ replies' \in Seq(Replies) /\ Len(replies') = Len(replies) - 1
        /\ Len(replies) \in Nat
        /\ \A i \in 1 .. Len(replies') :
             i + 1 \in 1 .. Len(replies) /\ replies'[i] = replies[i + 1]
    BY TailInOrder DEF Lose
  <1>2. TypeOK'
    <2>1. Len(replies) <= MaxReplies
      BY DEF FeedbackInv, TypeOK
    <2>2. Len(replies') <= MaxReplies
      BY <1>1, <2>1
    <2>3. QED BY <1>1, <2>2 DEF FeedbackInv, TypeOK, Lose
  <1>3. FrameAhead' /\ RepliesAhead' /\ FrameFirst'
    BY <1>1 DEF FeedbackInv, UnderwayInOrder, FrameAhead, RepliesAhead, FrameFirst, Lose
  <1>4. RepliesOrdered'
    <2> SUFFICES ASSUME NEW i \in 1 .. Len(replies'), NEW j \in 1 .. Len(replies'),
                        i < j, replies'[i].kind = "status", replies'[j].kind = "status"
                 PROVE  replies'[i].n < replies'[j].n
      BY DEF RepliesOrdered
    <2>1. i + 1 < j + 1
      OBVIOUS
    <2>2. QED BY <1>1, <2>1 DEF FeedbackInv, UnderwayInOrder, RepliesOrdered
  <1>5. PositionsFollow' /\ Agree'
    BY DEF FeedbackInv, PositionsFollow, Agree, Lag, InBuild, ImuMatches, MotorMatches, Lose
  <1>6. QED BY <1>2, <1>3, <1>4, <1>5 DEF FeedbackInv, UnderwayInOrder
-----------------------------------------------------------------------------
(***************************************************************************)
(* The rx thread.                                                          *)
(***************************************************************************)
LEMMA ReceiveInv == FeedbackInv /\ Receive => FeedbackInv'
  <1> SUFFICES ASSUME FeedbackInv, Receive PROVE FeedbackInv'
    OBVIOUS
  <1> USE FeedbackAssumption
  <1>1. /\ replies' \in Seq(Replies) /\ Len(replies') = Len(replies) - 1
        /\ Len(replies) \in Nat
        /\ \A i \in 1 .. Len(replies') :
             i + 1 \in 1 .. Len(replies) /\ replies'[i] = replies[i + 1] /\ 1 < i + 1
    BY TailInOrder DEF Receive
  <1>2. 1 \in 1 .. Len(replies) /\ Head(replies) = replies[1] /\ Head(replies) \in Replies
    BY Numbers, First DEF FeedbackInv, Receive
  <1>3. /\ frame' \in Seq(Replies) /\ Len(frame') = 1 /\ frame'[1] = replies[1]
    BY <1>2, Single DEF Receive
  <1>4. TypeOK'
    <2>1. Len(replies') <= MaxReplies
      BY <1>1, Numbers DEF FeedbackInv
    <2>2. rx' \in {"filter", "merge"}
      BY DEF Receive
    <2>3. QED BY <1>1, <1>3, <2>1, <2>2 DEF FeedbackInv, TypeOK, Receive
  <1>5. FrameAhead'
    BY <1>2, <1>3 DEF FeedbackInv, UnderwayInOrder, FrameAhead, RepliesAhead, Receive
  <1>6. RepliesAhead'
    BY <1>1 DEF FeedbackInv, UnderwayInOrder, RepliesAhead, Receive
  <1>7. FrameFirst'
    <2> SUFFICES ASSUME NEW j \in 1 .. Len(replies'),
                        frame'[1].kind = "status", replies'[j].kind = "status"
                 PROVE  frame'[1].n < replies'[j].n
      BY <1>3 DEF FrameFirst
    <2>1. QED BY <1>1, <1>2, <1>3 DEF FeedbackInv, UnderwayInOrder, RepliesOrdered
  <1>8. RepliesOrdered'
    <2> SUFFICES ASSUME NEW i \in 1 .. Len(replies'), NEW j \in 1 .. Len(replies'),
                        i < j, replies'[i].kind = "status", replies'[j].kind = "status"
                 PROVE  replies'[i].n < replies'[j].n
      BY DEF RepliesOrdered
    <2>1. i + 1 < j + 1
      OBVIOUS
    <2>2. QED BY <1>1, <2>1 DEF FeedbackInv, UnderwayInOrder, RepliesOrdered
  <1>9. PositionsFollow' /\ Agree'
    BY DEF FeedbackInv, PositionsFollow, Agree, Lag, InBuild, ImuMatches, MotorMatches, Receive
  <1>10. QED BY <1>4, <1>5, <1>6, <1>7, <1>8, <1>9 DEF FeedbackInv, UnderwayInOrder

\* A frame that is dropped leaves nothing behind.
LEMMA DropInv ==
  ASSUME FeedbackInv, Done,
         UNCHANGED <<samples, replies, recent, position, age, online, ctl, command,
                     built, asOfNow, elapsed, raced, published>>
  PROVE  FeedbackInv'
  <1>1. frame' \in Seq(Replies) /\ Len(frame') = 0 /\ rx' = "read"
    BY EmptySeq DEF Done
  <1>2. TypeOK'
    BY <1>1 DEF FeedbackInv, TypeOK
  <1>3. UnderwayInOrder'
    BY <1>1 DEF FeedbackInv, UnderwayInOrder, FrameAhead, RepliesAhead, FrameFirst,
                RepliesOrdered
  <1>4. PositionsFollow' /\ Agree'
    BY DEF FeedbackInv, PositionsFollow, Agree, Lag, InBuild, ImuMatches, MotorMatches
  <1>5. QED BY <1>2, <1>3, <1>4 DEF FeedbackInv

\* A step of the rx thread that touches neither the frame nor the driver.
LEMMA RxStepInv ==
  ASSUME FeedbackInv, rx' \in {"filter", "disturbed", "merge", "read", "dead"},
         rx \in {"filter", "disturbed", "merge"} <=> rx' \in {"filter", "disturbed", "merge"},
         UNCHANGED <<samples, replies, frame, recent, position, age, online, ctl, command,
                     built, asOfNow, elapsed, raced, published>>
  PROVE  FeedbackInv'
  <1>1. TypeOK'
    BY DEF FeedbackInv, TypeOK
  <1>2. UnderwayInOrder'
    BY DEF FeedbackInv, UnderwayInOrder, FrameAhead, RepliesAhead, FrameFirst,
           RepliesOrdered
  <1>3. PositionsFollow' /\ Agree'
    BY DEF FeedbackInv, PositionsFollow, Agree, Lag, InBuild, ImuMatches, MotorMatches
  <1>4. QED BY <1>1, <1>2, <1>3 DEF FeedbackInv

LEMMA FilterInv == FeedbackInv /\ (Filter \/ FilterRaises) => FeedbackInv'
  <1>1. ASSUME FeedbackInv, Filter, IsRecentTxEcho(Head(frame)) PROVE FeedbackInv'
    BY <1>1, DropInv DEF Filter
  <1>2. ASSUME FeedbackInv, Filter, ~IsRecentTxEcho(Head(frame)) PROVE FeedbackInv'
    BY <1>2, RxStepInv DEF Filter
  <1>3. ASSUME FeedbackInv, FilterRaises PROVE FeedbackInv'
    BY <1>3, DropInv DEF FilterRaises
  <1>4. QED BY <1>1, <1>2, <1>3

LEMMA RxDiesInv == FeedbackInv /\ RxDies => FeedbackInv'
  BY RxStepInv DEF RxDies

\* What a frame does to the merged state of its channel.
LEMMA Merged ==
  ASSUME FeedbackInv, Merge
  PROVE  /\ position <= position' /\ position' \in 0 .. samples
         /\ \A j \in 1 .. Len(replies) :
              replies[j].kind = "status" => position' < replies[j].n
         /\ age' \in Ages /\ online' \in Flags
         /\ \A c \in Channel \ {ChannelOf(Head(frame))} :
              age'[c] = age[c] /\ online'[c] = online[c]
         /\ ChannelOf(Head(frame)) \in Channel
  <1> DEFINE f == Head(frame)
  <1>1. f \in Replies /\ f = frame[1] /\ 1 \in 1 .. Len(frame)
    BY FrameIsReply DEF FeedbackInv, Merge
  <1>2. ChannelOf(f) \in Channel /\ f.n \in Nat
    BY <1>1, ReplyFields
  <1>3. /\ position' = MergePosition(f)
        /\ age' = [age EXCEPT ![ChannelOf(f)] = 0]
        /\ online' = [online EXCEPT ![ChannelOf(f)] = TRUE]
    BY DEF Merge
  <1> HIDE DEF f
  <1>4. age \in [Channel -> 0 .. Timeout + 1] /\ online \in [Channel -> BOOLEAN]
    BY DEF FeedbackInv, TypeOK, Ages, Flags
  <1>5. age' \in Ages /\ online' \in Flags
    <2>1. 0 \in 0 .. Timeout + 1
      BY FeedbackAssumption
    <2>2. QED BY <1>3, <1>4, <2>1 DEF Ages, Flags
  <1>6. \A c \in Channel \ {ChannelOf(f)} : age'[c] = age[c] /\ online'[c] = online[c]
    BY <1>3, <1>4
  <1>7. CASE f.kind = "status"
    <2>1. position' = f.n
      BY <1>3, <1>7 DEF MergePosition
    <2>2. position < f.n /\ f.n <= samples
      BY <1>1, <1>7 DEF FeedbackInv, UnderwayInOrder, FrameAhead
    <2>3. \A j \in 1 .. Len(replies) : replies[j].kind = "status" => f.n < replies[j].n
      BY <1>1, <1>7 DEF FeedbackInv, UnderwayInOrder, FrameFirst
    <2>4. position <= position' /\ position' \in 0 .. samples
      BY <1>2, <2>1, <2>2, Numbers DEF FeedbackInv
    <2>5. QED BY <1>2, <1>5, <1>6, <2>1, <2>3, <2>4 DEF f
  <1>8. CASE f.kind # "status"
    <2>1. position' = position
      BY <1>3, <1>8 DEF MergePosition
    <2>2. position <= position' /\ position' \in 0 .. samples
      BY <2>1, Numbers DEF FeedbackInv
    <2>3. \A j \in 1 .. Len(replies) :
            replies[j].kind = "status" => position' < replies[j].n
      BY <2>1 DEF FeedbackInv, UnderwayInOrder, RepliesAhead
    <2>4. QED BY <1>2, <1>5, <1>6, <2>2, <2>3 DEF f
  <1>9. QED BY <1>7, <1>8

LEMMA MergeInv == FeedbackInv /\ Merge => FeedbackInv'
  <1> SUFFICES ASSUME FeedbackInv, Merge PROVE FeedbackInv'
    OBVIOUS
  <1> DEFINE m == ChannelOf(Head(frame))
  <1>1. frame' \in Seq(Replies) /\ Len(frame') = 0 /\ rx' = "read"
    BY EmptySeq DEF Merge, Done
  <1>2. raced' = raced \cup (Building \cap {m})
    BY DEF Merge
  <1>3. /\ position <= position' /\ position' \in 0 .. samples
        /\ \A j \in 1 .. Len(replies) :
             replies[j].kind = "status" => position' < replies[j].n
        /\ age' \in Ages /\ online' \in Flags
        /\ \A c \in Channel \ {m} : age'[c] = age[c] /\ online'[c] = online[c]
        /\ m \in Channel
    BY Merged
  <1>4. UNCHANGED <<samples, replies, recent, ctl, command, built, elapsed, published>>
        /\ age' = [age EXCEPT ![m] = 0] /\ online' = [online EXCEPT ![m] = TRUE]
        /\ asOfNow' = IF InBuild THEN [asOfNow EXCEPT ![m] = 0] ELSE asOfNow
    BY DEF Merge
  <1> HIDE DEF m
  <1>11. /\ \A c \in Channel : /\ age[c] \in Nat /\ asOfNow[c] \in Nat /\ built.age[c] \in Nat
                               /\ online[c] \in BOOLEAN
         /\ elapsed \in Nat /\ Timeout \in Nat
         /\ "motor" \in Channel
         /\ \A c \in Imu : c \in Channel /\ c # "motor"
    BY AgeNumbers DEF FeedbackInv
  <1>12. age \in Ages /\ asOfNow \in Ages /\ online \in Flags
    BY DEF FeedbackInv, TypeOK
  <1>5. TypeOK'
    <2>1. raced' \subseteq Channel
      BY <1>2, <1>3 DEF FeedbackInv, TypeOK
    <2>2. asOfNow' \in Ages
      <3>1. 0 \in 0 .. Timeout + 1
        BY FeedbackAssumption
      <3>2. QED BY <1>4, <1>12, <3>1 DEF Ages
    <2>3. QED BY <1>1, <1>3, <1>4, <2>1, <2>2 DEF FeedbackInv, TypeOK
  <1>6. UnderwayInOrder'
    <2>1. FrameAhead' /\ FrameFirst'
      BY <1>1 DEF FrameAhead, FrameFirst
    <2>2. RepliesAhead' /\ RepliesOrdered'
      BY <1>3, <1>4 DEF FeedbackInv, UnderwayInOrder, RepliesAhead, RepliesOrdered
    <2>3. QED BY <2>1, <2>2 DEF UnderwayInOrder
  <1>7. PositionsFollow'
    <2>1. /\ position \in Nat /\ built.position \in Nat /\ published.position \in Nat
          /\ position' \in Nat
      BY <1>3, Numbers DEF FeedbackInv
    <2>2. /\ published.position <= position /\ built.position <= position
          /\ ctl = "motor comm" => published.position <= built.position
      BY DEF FeedbackInv, PositionsFollow
    <2>3. position <= position'
      BY <1>3
    <2>4. published.position <= position' /\ built.position <= position'
      BY <2>1, <2>2, <2>3, AtMost
    <2>5. QED BY <1>4, <2>2, <2>4 DEF PositionsFollow
  <1>8. \A c \in Channel \ {m} : age'[c] = age[c] /\ online'[c] = online[c]
                                /\ asOfNow'[c] = asOfNow[c]
    BY <1>3, <1>4, <1>12 DEF Ages
  <1>13. age'[m] = 0 /\ online'[m] = TRUE /\ (InBuild => asOfNow'[m] = 0)
    BY <1>3, <1>4, <1>12 DEF Ages, Flags
  <1>14. Lag'
    <2> SUFFICES ASSUME InBuild, NEW c \in Channel
                 PROVE  asOfNow'[c] <= age'[c] /\ age'[c] <= asOfNow'[c] + elapsed
      BY <1>4 DEF Lag, InBuild
    <2>1. CASE c = m
      BY <1>11, <1>13, <2>1
    <2>2. CASE c # m
      BY <1>8, <2>2 DEF FeedbackInv, Agree, Lag
    <2>3. QED BY <2>1, <2>2
  <1>15. ImuMatches'
    <2> SUFFICES ASSUME NEW c \in Imu
                 PROVE  ImuMatches!(c)'
      BY DEF ImuMatches
    <2>1. ImuMatches!(c)
      BY DEF FeedbackInv, Agree, ImuMatches
    <2>2. CASE c = m
      <3>1. ctl = "imu comm" => c \in raced'
        BY <1>2, <2>2 DEF Building
      <3>2. ctl = "imu state" => asOfNow'[c] = 0
        BY <1>13, <2>2 DEF InBuild
      <3>3. online'[c] = TRUE /\ (c \in raced => c \in raced')
        BY <1>2, <1>13, <2>2
      <3>4. ctl' = ctl /\ elapsed' = elapsed /\ built' = built
        BY <1>4
      <3>5. ctl \in {"motor state", "motor comm"} =>
              /\ built.online[c] => built.age[c] <= Timeout \/ c \in raced'
              /\ ~built.online[c] => built.age[c] + elapsed > Timeout
        BY <2>1, <3>3
      <3>8. Timeout \in Nat
        BY <1>11
      <3>6. ctl = "imu state" => asOfNow'[c] <= Timeout
        BY <3>2, <3>8, ZeroLeast
      <3>7. QED BY <3>1, <3>3, <3>4, <3>5, <3>6
    <2>3. CASE c # m
      <3>1. online'[c] = online[c] /\ asOfNow'[c] = asOfNow[c] /\ (c \in raced => c \in raced')
        BY <1>2, <1>8, <1>11, <2>3
      <3>2. QED BY <1>4, <2>1, <3>1
    <2>4. QED BY <2>2, <2>3
  <1>9. MotorMatches'
    <2> SUFFICES ASSUME ctl = "motor comm"
                 PROVE  /\ asOfNow'["motor"] <= built.age["motor"]
                        /\ built.age["motor"] = asOfNow'["motor"] \/ "motor" \in raced'
      BY <1>4 DEF MotorMatches
    <2>1. /\ asOfNow["motor"] <= built.age["motor"]
          /\ built.age["motor"] = asOfNow["motor"] \/ "motor" \in raced
      BY DEF FeedbackInv, Agree, MotorMatches
    <2>2. CASE m = "motor"
      <3>1. asOfNow'["motor"] = 0
        BY <1>13, <2>2 DEF InBuild
      <3>2. "motor" \in raced'
        BY <1>2, <2>2 DEF Building
      <3>3. built.age["motor"] \in Nat
        BY <1>11
      <3>4. asOfNow'["motor"] <= built.age["motor"]
        BY <3>1, <3>3, ZeroLeast
      <3>5. QED BY <3>2, <3>4
    <2>3. CASE m # "motor"
      BY <1>2, <1>8, <1>11, <2>1, <2>3
    <2>4. QED BY <2>2, <2>3
  <1>10. QED BY <1>5, <1>6, <1>7, <1>9, <1>14, <1>15 DEF FeedbackInv, Agree
-----------------------------------------------------------------------------
(***************************************************************************)
(* The control loop and the clock.                                         *)
(***************************************************************************)
LEMMA SendFrameInv == FeedbackInv /\ SendFrame => FeedbackInv'
  <1> SUFFICES ASSUME FeedbackInv, SendFrame PROVE FeedbackInv'
    OBVIOUS
  <1>1. TypeOK'
    BY DEF FeedbackInv, TypeOK, SendFrame
  <1>2. UnderwayInOrder'
    BY DEF FeedbackInv, UnderwayInOrder, FrameAhead, RepliesAhead, FrameFirst,
           RepliesOrdered, SendFrame
  <1>3. PositionsFollow' /\ Agree'
    BY DEF FeedbackInv, PositionsFollow, Agree, Lag, InBuild, ImuMatches, MotorMatches, SendFrame
  <1>4. QED BY <1>1, <1>2, <1>3 DEF FeedbackInv

LEMMA RememberTxFrameInv == FeedbackInv /\ RememberTxFrame => FeedbackInv'
  <1> SUFFICES ASSUME FeedbackInv, RememberTxFrame PROVE FeedbackInv'
    OBVIOUS
  <1>1. TypeOK'
    <2>1. recent' \in [Acked -> 0 .. Window + 1]
      <3>1. recent \in [Acked -> 0 .. Window + 1]
        BY DEF FeedbackInv, TypeOK
      <3>2. 0 \in 0 .. Window + 1
        BY FeedbackAssumption
      <3>3. QED BY <3>1, <3>2 DEF RememberTxFrame
    <2>2. /\ rx' \in {"read", "filter", "disturbed", "merge", "dead"}
          /\ rx' \in {"filter", "disturbed", "merge"} <=>
               rx \in {"filter", "disturbed", "merge"}
      BY DEF FeedbackInv, TypeOK, RememberTxFrame
    <2>3. QED BY <2>1, <2>2 DEF FeedbackInv, TypeOK, RememberTxFrame
  <1>2. UnderwayInOrder'
    BY DEF FeedbackInv, UnderwayInOrder, FrameAhead, RepliesAhead, FrameFirst,
           RepliesOrdered, RememberTxFrame
  <1>3. PositionsFollow' /\ Agree'
    BY DEF FeedbackInv, PositionsFollow, Agree, Lag, InBuild, ImuMatches, MotorMatches, RememberTxFrame
  <1>4. QED BY <1>1, <1>2, <1>3 DEF FeedbackInv

LEMMA BuildNowInv == FeedbackInv /\ BuildNow => FeedbackInv'
  <1> SUFFICES ASSUME FeedbackInv, BuildNow PROVE FeedbackInv'
    OBVIOUS
  <1>1. TypeOK'
    BY DEF FeedbackInv, TypeOK, BuildNow
  <1>2. UnderwayInOrder'
    BY DEF FeedbackInv, UnderwayInOrder, FrameAhead, RepliesAhead, FrameFirst,
           RepliesOrdered, BuildNow
  <1>3. PositionsFollow' /\ ImuMatches' /\ MotorMatches'
    BY DEF FeedbackInv, PositionsFollow, ImuMatches, MotorMatches, BuildNow
  <1>4. Lag'
    <2>1. asOfNow' = age /\ UNCHANGED <<age, elapsed>>
      BY DEF BuildNow
    <2>2. elapsed \in Nat /\ \A c \in Channel : age[c] \in Nat
      BY AgeNumbers DEF FeedbackInv
    <2>3. QED BY <2>1, <2>2 DEF Lag
  <1>5. QED BY <1>1, <1>2, <1>3, <1>4 DEF FeedbackInv, Agree

LEMMA BuildImuFlagsInv == FeedbackInv /\ BuildImuFlags => FeedbackInv'
  <1> SUFFICES ASSUME FeedbackInv, BuildImuFlags PROVE FeedbackInv'
    OBVIOUS
  <1>1. TypeOK'
    <2>1. online' \in Flags
      <3>1. online \in [Channel -> BOOLEAN]
        BY DEF FeedbackInv, TypeOK, Flags
      <3>2. \A c \in Channel :
              (IF c \in Imu THEN UpdateFaultFlags(c) ELSE online[c]) \in BOOLEAN
        <4> SUFFICES ASSUME NEW c \in Channel
                     PROVE  (IF c \in Imu THEN UpdateFaultFlags(c) ELSE online[c]) \in BOOLEAN
          OBVIOUS
        <4>1. UpdateFaultFlags(c) \in BOOLEAN
          BY DEF UpdateFaultFlags
        <4>2. online[c] \in BOOLEAN
          BY <3>1
        <4>3. QED BY <4>1, <4>2, Zenon
      <3>3. QED BY <3>2 DEF BuildImuFlags, Flags
    <2>2. QED BY <2>1 DEF FeedbackInv, TypeOK, BuildImuFlags
  <1>2. UnderwayInOrder'
    BY DEF FeedbackInv, UnderwayInOrder, FrameAhead, RepliesAhead, FrameFirst,
           RepliesOrdered, BuildImuFlags
  <1>3. PositionsFollow' /\ MotorMatches' /\ Lag'
    BY DEF FeedbackInv, Agree, PositionsFollow, MotorMatches, Lag, InBuild, BuildImuFlags
  <1>4. ImuMatches'
    <2>1. \A c \in Imu : online'[c] <=> age[c] <= Timeout
      BY DEF BuildImuFlags, UpdateFaultFlags, Channel
    <2>2. \A c \in Imu : /\ asOfNow[c] <= age[c] /\ age[c] <= asOfNow[c] + elapsed
                         /\ age[c] \in Nat /\ asOfNow[c] \in Nat
      BY AgeNumbers DEF FeedbackInv, Agree, Lag, InBuild, BuildImuFlags
    <2>3. elapsed \in Nat /\ Timeout \in Nat
      BY AgeNumbers DEF FeedbackInv
    <2>4. ctl' = "imu state" /\ UNCHANGED <<asOfNow, elapsed>>
      BY DEF BuildImuFlags
    <2>5. \A c \in Imu : /\ online'[c] => asOfNow[c] <= Timeout
                         /\ ~online'[c] => asOfNow[c] + elapsed > Timeout
      BY <2>1, <2>2, <2>3
    <2>6. QED BY <2>4, <2>5 DEF ImuMatches
  <1>5. QED BY <1>1, <1>2, <1>3, <1>4 DEF FeedbackInv, Agree

LEMMA BuildImuStateInv == FeedbackInv /\ BuildImuState => FeedbackInv'
  <1> SUFFICES ASSUME FeedbackInv, BuildImuState PROVE FeedbackInv'
    OBVIOUS
  <1> DEFINE g == [asOfNow EXCEPT !["motor"] = Timeout + 1]
  <1>1. asOfNow \in [Channel -> 0 .. Timeout + 1]
    BY DEF FeedbackInv, TypeOK, Ages
  <1>2. g \in Ages /\ \A c \in Imu : g[c] = asOfNow[c]
    <2>1. Timeout + 1 \in 0 .. Timeout + 1 /\ \A c \in Imu : c # "motor" /\ c \in Channel
      BY FeedbackAssumption DEF Channel
    <2>2. QED BY <1>1, <2>1 DEF Ages
  <1>3. built' = [built EXCEPT !.age = g]
    BY DEF BuildImuState
  <1> HIDE DEF g
  <1>4. built \in [position : 0 .. samples, age : Ages, online : Flags]
    BY DEF FeedbackInv, TypeOK
  <1>5. /\ built' \in [position : 0 .. samples, age : Ages, online : Flags]
        /\ built'.position = built.position /\ built'.age = g
    BY <1>2, <1>3, <1>4
  <1>6. TypeOK'
    BY <1>5 DEF FeedbackInv, TypeOK, BuildImuState
  <1>7. UnderwayInOrder'
    BY DEF FeedbackInv, UnderwayInOrder, FrameAhead, RepliesAhead, FrameFirst,
           RepliesOrdered, BuildImuState
  <1>8. PositionsFollow' /\ MotorMatches' /\ Lag'
    BY <1>5 DEF FeedbackInv, Agree, PositionsFollow, MotorMatches, Lag, InBuild, BuildImuState
  <1>9. ImuMatches'
    BY <1>2, <1>5 DEF FeedbackInv, Agree, ImuMatches, BuildImuState
  <1>10. QED BY <1>6, <1>7, <1>8, <1>9 DEF FeedbackInv, Agree

LEMMA BuildImuCommInv == FeedbackInv /\ BuildImuComm => FeedbackInv'
  <1> SUFFICES ASSUME FeedbackInv, BuildImuComm PROVE FeedbackInv'
    OBVIOUS
  <1> DEFINE g == [online EXCEPT !["motor"] = FALSE]
  <1>1. online \in [Channel -> BOOLEAN]
    BY DEF FeedbackInv, TypeOK, Flags
  <1>2. g \in Flags /\ \A c \in Imu : g[c] <=> online[c]
    <2>1. \A c \in Imu : c # "motor" /\ c \in Channel
      BY FeedbackAssumption DEF Channel
    <2>2. QED BY <1>1, <2>1 DEF Flags
  <1>3. built' = [built EXCEPT !.online = g]
    BY DEF BuildImuComm
  <1> HIDE DEF g
  <1>4. built \in [position : 0 .. samples, age : Ages, online : Flags]
    BY DEF FeedbackInv, TypeOK
  <1>5. /\ built' \in [position : 0 .. samples, age : Ages, online : Flags]
        /\ built'.position = built.position /\ built'.age = built.age /\ built'.online = g
    BY <1>2, <1>3, <1>4
  <1>6. TypeOK'
    BY <1>5 DEF FeedbackInv, TypeOK, BuildImuComm
  <1>7. UnderwayInOrder'
    BY DEF FeedbackInv, UnderwayInOrder, FrameAhead, RepliesAhead, FrameFirst,
           RepliesOrdered, BuildImuComm
  <1>8. PositionsFollow' /\ MotorMatches' /\ Lag'
    BY <1>5 DEF FeedbackInv, Agree, PositionsFollow, MotorMatches, Lag, InBuild, BuildImuComm
  <1>9. ImuMatches'
    BY <1>2, <1>5 DEF FeedbackInv, Agree, ImuMatches, BuildImuComm
  <1>10. QED BY <1>6, <1>7, <1>8, <1>9 DEF FeedbackInv, Agree

LEMMA BuildMotorStateInv == FeedbackInv /\ BuildMotorState => FeedbackInv'
  <1> SUFFICES ASSUME FeedbackInv, BuildMotorState PROVE FeedbackInv'
    OBVIOUS
  <1> DEFINE g == [built.age EXCEPT !["motor"] = asOfNow["motor"]]
  <1>1. asOfNow \in [Channel -> 0 .. Timeout + 1]
    BY DEF FeedbackInv, TypeOK, Ages
  <1>2. /\ built \in [position : 0 .. samples, age : Ages, online : Flags]
        /\ position \in 0 .. samples
    BY DEF FeedbackInv, TypeOK
  <1>3. /\ g \in Ages /\ g["motor"] = asOfNow["motor"]
        /\ \A c \in Imu : g[c] = built.age[c]
    <2>1. /\ "motor" \in Channel
          /\ \A c \in Imu : c # "motor" /\ c \in Channel
      BY FeedbackAssumption DEF Channel
    <2>2. built.age \in [Channel -> 0 .. Timeout + 1]
      BY <1>2 DEF Ages
    <2>3. QED BY <1>1, <2>1, <2>2 DEF Ages
  <1>4. built' = [position |-> position, age |-> g, online |-> built.online]
    BY <1>2 DEF BuildMotorState
  <1> HIDE DEF g
  <1>5. /\ built' \in [position : 0 .. samples, age : Ages, online : Flags]
        /\ built'.position = position /\ built'.age = g /\ built'.online = built.online
    BY <1>2, <1>3, <1>4
  <1>6. TypeOK'
    BY <1>5 DEF FeedbackInv, TypeOK, BuildMotorState
  <1>7. UnderwayInOrder'
    BY DEF FeedbackInv, UnderwayInOrder, FrameAhead, RepliesAhead, FrameFirst,
           RepliesOrdered, BuildMotorState
  <1>8. PositionsFollow'
    <2>1. position <= position
      BY Numbers DEF FeedbackInv
    <2>2. QED BY <1>5, <2>1 DEF FeedbackInv, PositionsFollow, BuildMotorState
  <1>9. ImuMatches' /\ MotorMatches' /\ Lag'
    <2>1. asOfNow["motor"] <= asOfNow["motor"]
      BY AgeNumbers DEF FeedbackInv
    <2>2. QED
      BY <1>3, <1>5, <2>1
         DEF FeedbackInv, Agree, ImuMatches, MotorMatches, Lag, InBuild, BuildMotorState
  <1>10. QED BY <1>6, <1>7, <1>8, <1>9 DEF FeedbackInv, Agree

LEMMA NoStateType ==
  ASSUME NEW n \in Nat
  PROVE  NoState \in [position : 0 .. n, age : Ages, online : Flags]
  <1>1. 0 \in 0 .. n /\ Timeout + 1 \in 0 .. Timeout + 1
    BY FeedbackAssumption
  <1>2. QED BY <1>1 DEF NoState, Ages, Flags

\* What is published is the state as built, with the motor's flag of this moment.
LEMMA Published ==
  ASSUME FeedbackInv, BuildMotorComm
  PROVE  /\ published' \in [position : 0 .. samples, online : Flags]
         /\ published'.position = built.position
         /\ published'.online["motor"] <=> age["motor"] <= Timeout
         /\ \A c \in Imu : published'.online[c] <=> built.online[c]
  <1> DEFINE g == [built.online EXCEPT !["motor"] = UpdateFaultFlags("motor")]
  <1>1. built \in [position : 0 .. samples, age : Ages, online : Flags]
    BY DEF FeedbackInv, TypeOK
  <1>2. UpdateFaultFlags("motor") \in BOOLEAN
    BY DEF UpdateFaultFlags
  <1>3. /\ g \in Flags /\ g["motor"] = UpdateFaultFlags("motor")
        /\ \A c \in Imu : g[c] = built.online[c]
    <2>1. "motor" \in Channel /\ \A c \in Imu : c # "motor" /\ c \in Channel
      BY FeedbackAssumption DEF Channel
    <2>2. built.online \in [Channel -> BOOLEAN]
      BY <1>1 DEF Flags
    <2>3. QED BY <1>2, <2>1, <2>2 DEF Flags
  <1>4. published' = [position |-> built.position, online |-> g]
    BY DEF BuildMotorComm, Publish
  <1> HIDE DEF g
  <1>5. QED BY <1>1, <1>3, <1>4 DEF UpdateFaultFlags

LEMMA BuildMotorCommInv == FeedbackInv /\ BuildMotorComm => FeedbackInv'
  <1> SUFFICES ASSUME FeedbackInv, BuildMotorComm PROVE FeedbackInv'
    OBVIOUS
  <1>1. /\ published' \in [position : 0 .. samples, online : Flags]
        /\ published'.position = built.position
    BY Published
  <1>2. built' = NoState /\ built' \in [position : 0 .. samples, age : Ages, online : Flags]
        /\ built'.position = 0
    <2>1. built' = NoState
      BY DEF BuildMotorComm, Publish
    <2>2. samples \in Nat
      BY Numbers DEF FeedbackInv
    <2>3. QED BY <2>1, <2>2, NoStateType DEF NoState
  <1>3. online' \in Flags
    <2>1. online \in [Channel -> BOOLEAN]
      BY DEF FeedbackInv, TypeOK, Flags
    <2>2. UpdateFaultFlags("motor") \in BOOLEAN
      BY DEF UpdateFaultFlags
    <2>3. QED BY <2>1, <2>2 DEF BuildMotorComm, Publish, Flags
  <1>4. /\ ctl' = "send" /\ raced' = {}
        /\ UNCHANGED <<samples, replies, rx, frame, recent, position, age, command>>
        /\ asOfNow' = NoState.age /\ elapsed' = 0
    BY DEF BuildMotorComm, Publish
  <1>10. NoState.age \in Ages /\ 0 \in 0 .. Timeout + 1
    BY FeedbackAssumption DEF NoState, Ages
  <1>5. TypeOK'
    BY <1>1, <1>2, <1>3, <1>4, <1>10 DEF FeedbackInv, TypeOK
  <1>6. UnderwayInOrder'
    BY <1>4 DEF FeedbackInv, UnderwayInOrder, FrameAhead, RepliesAhead, FrameFirst,
                RepliesOrdered
  <1>7. PositionsFollow'
    <2>1. 0 <= position
      BY Numbers DEF FeedbackInv
    <2>2. QED BY <1>1, <1>2, <1>4, <2>1 DEF FeedbackInv, PositionsFollow
  <1>8. Agree'
    BY <1>4 DEF Agree, Lag, InBuild, ImuMatches, MotorMatches
  <1>9. QED BY <1>5, <1>6, <1>7, <1>8 DEF FeedbackInv

LEMMA TickInv == FeedbackInv /\ Tick => FeedbackInv'
  <1> SUFFICES ASSUME FeedbackInv, Tick PROVE FeedbackInv'
    OBVIOUS
  <1>1. TypeOK'
    <2>1. age' \in Ages
      <3>1. age \in [Channel -> 0 .. Timeout + 1]
        BY DEF FeedbackInv, TypeOK, Ages
      <3>2. \A c \in Channel : Later(age[c], Timeout) \in 0 .. Timeout + 1
        BY <3>1, FeedbackAssumption, LaterType
      <3>3. QED BY <3>2 DEF Tick, Ages
    <2>2. recent' \in [Acked -> 0 .. Window + 1]
      <3>1. recent \in [Acked -> 0 .. Window + 1]
        BY DEF FeedbackInv, TypeOK
      <3>2. \A k \in Acked : Later(recent[k], Window) \in 0 .. Window + 1
        BY <3>1, FeedbackAssumption, LaterType
      <3>3. QED BY <3>2 DEF Tick
    <2>3. elapsed' \in 0 .. Timeout + 1
      <3>1. elapsed \in 0 .. Timeout + 1
        BY DEF FeedbackInv, TypeOK
      <3>2. Later(elapsed, Timeout) \in 0 .. Timeout + 1
        BY <3>1, FeedbackAssumption, LaterType
      <3>3. QED BY <3>1, <3>2 DEF Tick
    <2>4. QED BY <2>1, <2>2, <2>3 DEF FeedbackInv, TypeOK, Tick
  <1>2. UnderwayInOrder'
    BY DEF FeedbackInv, UnderwayInOrder, FrameAhead, RepliesAhead, FrameFirst,
           RepliesOrdered, Tick
  <1>3. PositionsFollow'
    BY DEF FeedbackInv, PositionsFollow, Tick
  <1>6. /\ \A c \in Channel : /\ age[c] \in Nat /\ asOfNow[c] \in Nat /\ built.age[c] \in Nat
                              /\ age[c] <= Timeout + 1
        /\ elapsed \in Nat /\ elapsed <= Timeout + 1 /\ Timeout \in Nat
        /\ "motor" \in Channel /\ \A c \in Imu : c \in Channel
    BY AgeNumbers DEF FeedbackInv
  <1>7. /\ \A c \in Channel : age'[c] = Later(age[c], Timeout)
        /\ elapsed' = IF InBuild THEN Later(elapsed, Timeout) ELSE elapsed
        /\ UNCHANGED <<online, ctl, built, asOfNow, raced>>
    BY DEF Tick
  <1>8. elapsed' \in Nat /\ elapsed <= elapsed'
    BY <1>6, <1>7 DEF Later
  <1>9. Lag'
    <2> SUFFICES ASSUME InBuild, NEW c \in Channel
                 PROVE  asOfNow[c] <= age'[c] /\ age'[c] <= asOfNow[c] + elapsed'
      BY <1>7 DEF Lag, InBuild
    <2>1. asOfNow[c] <= age[c] /\ age[c] <= asOfNow[c] + elapsed
      BY DEF FeedbackInv, Agree, Lag
    <2>2. age'[c] = Later(age[c], Timeout) /\ elapsed' = Later(elapsed, Timeout)
      BY <1>7
    <2>3. QED BY <1>6, <2>1, <2>2 DEF Later
  <1>10. ImuMatches'
    <2> SUFFICES ASSUME NEW c \in Imu
                 PROVE  ImuMatches!(c)'
      BY DEF ImuMatches
    <2>1. ImuMatches!(c)
      BY DEF FeedbackInv, Agree, ImuMatches
    <2>2. asOfNow[c] + elapsed > Timeout => asOfNow[c] + elapsed' > Timeout
      BY <1>6, <1>8
    <2>3. built.age[c] + elapsed > Timeout => built.age[c] + elapsed' > Timeout
      BY <1>6, <1>8
    <2>4. QED BY <1>7, <2>1, <2>2, <2>3
  <1>4. MotorMatches'
    BY <1>7 DEF FeedbackInv, Agree, MotorMatches
  <1>5. QED BY <1>1, <1>2, <1>3, <1>4, <1>9, <1>10 DEF FeedbackInv, Agree

LEMMA StutterInv == FeedbackInv /\ UNCHANGED vars => FeedbackInv'
  BY DEF vars, FeedbackInv, TypeOK, UnderwayInOrder, FrameAhead, RepliesAhead, FrameFirst,
         RepliesOrdered, PositionsFollow, Agree, Lag, InBuild, ImuMatches, MotorMatches

LEMMA NextFeedback == FeedbackInv /\ [Next]_vars => FeedbackInv'
  BY AnswerInv, LoseInv, ReceiveInv, FilterInv, MergeInv, RxDiesInv, SendFrameInv,
     RememberTxFrameInv, BuildNowInv, BuildImuFlagsInv, BuildImuStateInv, BuildImuCommInv,
     BuildMotorStateInv, BuildMotorCommInv, TickInv, StutterInv
  DEF Next, RxThread, ControlLoop
-----------------------------------------------------------------------------
\* Order of what is under way, and agreement of flags and ages, for all answers,
\* losses and interleavings of the two threads.
THEOREM FeedbackInvariant == Spec => []FeedbackInv
  BY InitFeedback, NextFeedback, PTL DEF Spec

\* Types: no queue, age or counter leaves its range.
THEOREM FeedbackTypes == Spec => []TypeOK
  <1>1. FeedbackInv => TypeOK
    BY DEF FeedbackInv
  <1>2. QED BY <1>1, FeedbackInvariant, PTL

\* Flags and ages of a published state agree but for what came between the calls
\* that take them: online with an age over the timeout only if a frame came,
\* offline with an age within it only if the time the build took makes it up.
THEOREM OnlineIsFresh == Spec => OnlineMatchesAge
  <1>1. ASSUME FeedbackInv, [Next]_vars, NEW c \in Channel,
               ctl = "motor comm", ctl' = "send"
        PROVE  /\ published'.online[c] => built.age[c] <= Timeout \/ c \in raced
               /\ ~published'.online[c] => built.age[c] + elapsed > Timeout
    <2>1. BuildMotorComm
      BY <1>1 DEF Next, RxThread, ControlLoop, vars, Answer, Lose, Receive, Filter,
                  FilterRaises, Merge, RxDies, SendFrame, RememberTxFrame, BuildNow, BuildImuFlags,
                  BuildImuState, BuildImuComm, BuildMotorState, Tick
    <2>2. /\ published'.online["motor"] <=> age["motor"] <= Timeout
          /\ \A d \in Imu : published'.online[d] <=> built.online[d]
      BY <1>1, <2>1, Published
    <2>3. CASE c \in Imu
      BY <1>1, <2>2, <2>3 DEF FeedbackInv, Agree, ImuMatches
    <2>4. CASE c = "motor"
      <3>1. /\ age[c] \in Nat /\ asOfNow[c] \in Nat /\ built.age[c] \in Nat
            /\ elapsed \in Nat /\ Timeout \in Nat
        BY <1>1, AgeNumbers DEF FeedbackInv
      <3>2. asOfNow[c] <= age[c] /\ age[c] <= asOfNow[c] + elapsed
        BY <1>1 DEF FeedbackInv, Agree, Lag, InBuild
      <3>3. /\ asOfNow[c] <= built.age[c]
            /\ built.age[c] = asOfNow[c] \/ c \in raced
        BY <1>1, <2>4 DEF FeedbackInv, Agree, MotorMatches
      <3>4. QED BY <2>2, <2>4, <3>1, <3>2, <3>3
    <2>5. QED BY <1>1, <2>3, <2>4 DEF Channel
  <1>2. FeedbackInv /\ [Next]_vars =>
          [\A c \in Channel :
             ctl = "motor comm" /\ ctl' = "send" =>
               /\ published'.online[c] => built.age[c] <= Timeout \/ c \in raced
               /\ ~published'.online[c] => built.age[c] + elapsed > Timeout]_vars
    BY <1>1
  <1>3. QED BY <1>2, FeedbackInvariant, PTL DEF Spec, OnlineMatchesAge

\* A published position is one the motor has reported, and never goes back to an
\* earlier one or to none.
THEOREM PositionsInOrder == Spec => FeedbackInOrder
  <1>1. ASSUME FeedbackInv, [Next]_vars
        PROVE  published'.position >= published.position /\ published'.position <= samples'
    <2>1. /\ published'.position \in Nat /\ published.position \in Nat
          /\ samples' \in Nat /\ position' \in Nat /\ position' <= samples'
      <3>1. TypeOK' /\ TypeOK
        BY <1>1, NextFeedback DEF FeedbackInv
      <3>2. /\ published'.position \in 0 .. samples' /\ samples' \in 0 .. MaxSamples
            /\ position' \in 0 .. samples'
        BY <3>1 DEF TypeOK
      <3>3. QED BY <3>1, <3>2, FeedbackAssumption, Numbers
    <2>2. CASE BuildMotorComm
      <3>1. published'.position = built.position
        BY <1>1, <2>2, Published
      <3>2. ctl = "motor comm" /\ samples' = samples
        BY <2>2 DEF BuildMotorComm, Publish
      <3>3. published.position <= built.position /\ built.position <= position
        BY <1>1, <3>2 DEF FeedbackInv, PositionsFollow
      <3>4. /\ built.position \in Nat /\ position \in Nat /\ position <= samples
            /\ samples \in Nat
        BY <1>1, Numbers DEF FeedbackInv
      <3>5. built.position <= samples
        BY <3>3, <3>4, AtMost
      <3>6. published.position <= published'.position /\ published'.position <= samples'
        BY <3>1, <3>2, <3>3, <3>5
      <3>7. QED BY <2>1, <3>6
    <2>3. CASE ~BuildMotorComm
      <3>1. published' = published
        BY <1>1, <2>3 DEF Next, RxThread, ControlLoop, vars, Answer, Lose, Receive, Filter,
                  FilterRaises, Merge, RxDies, SendFrame, RememberTxFrame, BuildNow, BuildImuFlags,
                  BuildImuState, BuildImuComm, BuildMotorState, Tick
      <3>2. published'.position <= position'
        BY <1>1, NextFeedback DEF FeedbackInv, PositionsFollow
      <3>3. published'.position <= samples'
        BY <2>1, <3>2, AtMost
      <3>4. published.position <= published'.position
        BY <2>1, <3>1
      <3>5. QED BY <2>1, <3>3, <3>4
    <2>4. QED BY <2>2, <2>3
  <1>2. QED BY <1>1, FeedbackInvariant, PTL DEF Spec, FeedbackInOrder
-----------------------------------------------------------------------------
\* The rx thread has ended, and every channel is old and shown as offline, in
\* the driver, in the state under construction and in the published one.
Silent ==
  /\ rx = "dead"
  /\ \A c \in Channel : /\ age[c] > Timeout
                        /\ ~online[c] /\ ~built.online[c] /\ ~published.online[c]

\* The half of SilenceShown that needs no fairness: silence, once shown, is shown
\* for good, though answers go on arriving and the loop goes on sending.
THEOREM SilenceStays == Spec => [][Silent => Silent']_vars
  <1>1. ASSUME FeedbackInv, Silent, [Next]_vars
        PROVE  Silent'
    <2>1. /\ age \in Ages /\ online \in Flags /\ built.online \in Flags
          /\ published.online \in Flags /\ Timeout \in Nat
          /\ \A c \in Channel : age[c] \in Nat
          /\ built \in [position : 0 .. samples, age : Ages, online : Flags]
      <3>1. /\ age \in Ages /\ online \in Flags
            /\ built \in [position : 0 .. samples, age : Ages, online : Flags]
            /\ published \in [position : 0 .. samples, online : Flags]
        BY <1>1 DEF FeedbackInv, TypeOK
      <3>2. \A c \in Channel : age[c] \in 0 .. Timeout + 1
        BY <3>1 DEF Ages
      <3>3. QED BY <3>1, <3>2, FeedbackAssumption
    <2>2. rx = "dead" /\ \A c \in Channel : age[c] > Timeout /\ ~online[c]
          /\ ~built.online[c] /\ ~published.online[c]
      BY <1>1 DEF Silent
    <2>3. ~RxThread /\ ~RxDies
      BY <2>2 DEF RxThread, Receive, Filter, FilterRaises, Merge, RxDies
    <2>4. rx' = "dead"
      BY <1>1, <2>2, <2>3
         DEF Next, vars, Answer, Lose, ControlLoop, SendFrame, RememberTxFrame, BuildNow, BuildImuFlags,
             BuildImuState, BuildImuComm, BuildMotorState, BuildMotorComm, Publish, Tick
    <2>5. CASE Tick
      <3>1. age' = [c \in Channel |-> Later(age[c], Timeout)]
            /\ UNCHANGED <<online, built, published>>
        BY <2>5 DEF Tick
      <3>2. \A c \in Channel : age'[c] = age[c]
        BY <2>1, <2>2, <3>1 DEF Later
      <3>3. QED BY <2>2, <2>4, <3>1, <3>2 DEF Silent
    <2>6. CASE BuildImuFlags
      <3>1. \A c \in Channel : online'[c] = FALSE
        <4> SUFFICES ASSUME NEW c \in Channel PROVE online'[c] = FALSE
          OBVIOUS
        <4>1. ~(age[c] <= Timeout) /\ online[c] \in BOOLEAN /\ ~online[c]
          BY <2>1, <2>2 DEF Flags
        <4>2. online'[c] = IF c \in Imu THEN UpdateFaultFlags(c) ELSE online[c]
          BY <2>6 DEF BuildImuFlags
        <4>3. UpdateFaultFlags(c) = FALSE
          BY <4>1 DEF UpdateFaultFlags
        <4>4. QED BY <4>1, <4>2, <4>3
      <3>2. QED BY <2>2, <2>4, <2>6, <3>1 DEF BuildImuFlags, Silent
    <2>7. CASE BuildImuState \/ BuildMotorState
      <3>1. built'.online = built.online /\ UNCHANGED <<age, online, published>>
        <4>1. CASE BuildImuState
          <5>1. built' = [built EXCEPT !.age = [asOfNow EXCEPT !["motor"] = Timeout + 1]]
                /\ UNCHANGED <<age, online, published>>
            BY <4>1 DEF BuildImuState
          <5>2. QED BY <2>1, <5>1
        <4>2. CASE BuildMotorState
          <5>1. built' = [built EXCEPT !.position = position, !.age["motor"] = asOfNow["motor"]]
                /\ UNCHANGED <<age, online, published>>
            BY <4>2 DEF BuildMotorState
          <5>2. QED BY <2>1, <5>1
        <4>3. QED BY <2>7, <4>1, <4>2
      <3>2. QED BY <2>2, <2>4, <3>1 DEF Silent
    <2>8. CASE BuildImuComm
      <3>1. built'.online = [online EXCEPT !["motor"] = FALSE]
            /\ UNCHANGED <<age, online, published>>
        BY <1>1, <2>8 DEF BuildImuComm, FeedbackInv, TypeOK
      <3>2. \A c \in Channel : built'.online[c] = FALSE
        BY <2>1, <2>2, <3>1 DEF Flags
      <3>3. QED BY <2>2, <2>4, <3>1, <3>2 DEF Silent
    <2>9. CASE BuildMotorComm
      <3>1. ~UpdateFaultFlags("motor")
        BY <2>1, <2>2 DEF UpdateFaultFlags, Channel
      <3>2. \A c \in Channel : /\ online'[c] = FALSE /\ published'.online[c] = FALSE
                               /\ built'.online[c] = FALSE
        <4>1. /\ online' = [online EXCEPT !["motor"] = UpdateFaultFlags("motor")]
              /\ published' = [position |-> built.position, online |->
                                [built.online EXCEPT !["motor"] = UpdateFaultFlags("motor")]]
              /\ built' = NoState
          BY <2>9 DEF BuildMotorComm, Publish
        <4>2. UpdateFaultFlags("motor") = FALSE
          BY <3>1 DEF UpdateFaultFlags
        <4>3. \A c \in Channel : online[c] = FALSE /\ built.online[c] = FALSE
          BY <2>1, <2>2 DEF Flags
        <4>4. \A c \in Channel : online'[c] = FALSE /\ built'.online[c] = FALSE
          BY <2>1, <4>1, <4>2, <4>3 DEF Flags, NoState
        <4>5. published'.online = [built.online EXCEPT !["motor"] = FALSE]
          BY <4>1, <4>2
        <4>6. \A c \in Channel : published'.online[c] = FALSE
          BY <2>1, <4>3, <4>5 DEF Flags
        <4>7. QED BY <4>4, <4>6
      <3>3. age' = age
        BY <2>9 DEF BuildMotorComm, Publish
      <3>4. QED BY <2>2, <2>4, <3>2, <3>3 DEF Silent
    <2>10. CASE UNCHANGED <<age, online, built, published>>
      BY <2>2, <2>4, <2>10 DEF Silent
    <2>11. QED
      BY <1>1, <2>3, <2>5, <2>6, <2>7, <2>8, <2>9, <2>10
         DEF Next, ControlLoop, Answer, Lose, SendFrame, RememberTxFrame, BuildNow, vars
  <1>2. FeedbackInv /\ [Next]_vars => [Silent => Silent']_vars
    BY <1>1
  <1>3. QED BY <1>2, FeedbackInvariant, PTL DEF Spec
=============================================================================
