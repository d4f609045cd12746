------------------------- MODULE MotorSystemProofs -------------------------
(***************************************************************************)
(* Proofs about RobotController, for every set of actuators, every set of  *)
(* commands, every way a copied command can be cut into chunks, and any    *)
(* number of commands; and about MotorSystem, what the loop guarantees of  *)
(* the motors behind the bus, for every delay, loss and reset.             *)
(***************************************************************************)
EXTENDS MotorSystem, TLAPS

\* The mode logic by itself: which modes a tick can lead to, and on what.
LEMMA FsmUpdateFacts ==
  ASSUME NEW m \in ControllerMode, NEW word \in CommandWord, NEW t \in Nat,
         NEW next, next = FsmUpdate(m, word, t)
  PROVE  /\ next \in ControllerMode
         /\ next = "NORMAL" => m \in {"DAMPING", "NORMAL"}
         /\ m = "ESTOP" /\ next # "ESTOP"
              => next = "DISABLED" /\ word = "RESET_FAULT"
         /\ next # m => \/ word \in OperatorCommandCode \ {"NONE"}
                        \/ <<m, next>> \in {<<"ENABLING", "DAMPING">>,
                                            <<"ZERO_SETTING", "DISABLED">>}
  <1> USE EnableDurationAssumption
  <1>1. CASE word \in OperatorCommandCode
    BY <1>1 DEF FsmUpdate, SafetyLayer, OperatorLayer, AutomaticLayer, Unhandled,
         ParseCommandCode, ControllerMode, CommandWord, OperatorCommandCode
  <1>2. CASE word = "INVALID"
    BY <1>2 DEF FsmUpdate, SafetyLayer, OperatorLayer, AutomaticLayer, Unhandled,
         ParseCommandCode, ControllerMode, CommandWord, OperatorCommandCode
  <1>3. QED BY <1>1, <1>2 DEF CommandWord

LEMMA FrameFacts ==
  ASSUME NEW m \in ControllerMode
  PROVE  /\ FrameFor(m) \in Frames
         /\ FrameFor(m) \in FramesAtRest(m)
         /\ FramesAtRest(m) \subseteq Frames
  BY DEF FrameFor, FramesAtRest, Frames, ControllerMode

LEMMA ConsumedFacts ==
  ASSUME NEW cmd \in Command
  PROVE  /\ Consumed(cmd) \in Command
         /\ Consumed(cmd).code \in OperatorCommandCode \ {"NONE"}
              => Fresh(cmd) /\ Consumed(cmd) = cmd
  BY DEF Consumed, Fresh, AsksForSomething, Command, Released, CommandWord,
         OperatorCommandCode

LEMMA RecipientsFacts ==
  ASSUME NEW m, NEW cmd, NEW ids
  PROVE  /\ Recipients(m, cmd, ids) \subseteq Actuators
         /\ m \notin {"ZERO_SETTING", "NORMAL"} => Recipients(m, cmd, ids) = Actuators
  BY DEF Recipients, ZeroSetTargets

LEMMA CopiedFacts ==
  ASSUME mailbox \in Command, writing \in Command, NEW chunk
  PROVE  Copied(chunk) \in Command /\ Copied(chunk).ts \in {mailbox.ts, writing.ts}
  BY DEF Copied, Command
-----------------------------------------------------------------------------
LEMMA InitInv == Init => ControllerInv
  <1> SUFFICES ASSUME Init PROVE ControllerInv
    OBVIOUS
  <1> USE EnableDurationAssumption, ControllerAssumption DEF Init
  <1>1. Released(0) \in Command /\ Released(0).ts = 0
    BY DEF Released, Command, CommandWord, OperatorCommandCode
  <1>2. TypeOK
    <2>1. told \in [Actuators -> Frames]
      BY DEF Frames
    <2>2. published \in [mode : ControllerMode, source : Frames]
      BY DEF Frames, ControllerMode
    <2>3. /\ op \in CommandWord /\ mode \in ControllerMode /\ source \in Frames
          /\ pc \in ControlPoint /\ age \in 0 .. EnableDuration
      BY DEF CommandWord, OperatorCommandCode, ControllerMode, ControlPoint, Frames
    <2>4. QED BY <1>1, <2>1, <2>2, <2>3 DEF TypeOK
  <1>3. FramesFollowMode
    BY DEF FramesFollowMode, FramesAtRest
  <1>4. PublishedCoherent
    BY DEF PublishedCoherent, SourcesUnder
  <1>5. QED
    BY <1>1, <1>2, <1>3, <1>4 DEF ControllerInv, TimestampsOrdered, ServedFollowMode,
       ServedAreDisabled, NothingLeftWhenStopped, None

LEMMA BeginTickInv ==
  ASSUME ControllerInv, BeginTick
  PROVE  ControllerInv'
  <1> DEFINE cmd  == Consumed(mailbox)
             next == FsmUpdate(mode, cmd.code, age)
  <1> USE EnableDurationAssumption, ControllerAssumption
  <1>1. TypeOK /\ FramesFollowMode /\ TimestampsOrdered /\ PublishedCoherent
    BY DEF ControllerInv
  <1>2. cmd \in Command
    BY <1>1, ConsumedFacts DEF TypeOK
  <1>3. next \in ControllerMode /\ (next = "NORMAL" => mode \in {"DAMPING", "NORMAL"})
    <2>1. mode \in ControllerMode /\ cmd.code \in CommandWord /\ age \in Nat
      BY <1>1, <1>2 DEF TypeOK, Command
    <2>2. QED BY ONLY <2>1, FsmUpdateFacts
  <1>4. /\ pc = "idle" /\ pc' \in {"exit", "send"}
        /\ op' = cmd.code /\ mode' = next /\ age' = AgeAfter(mode, next, age)
        /\ lastConsumed' \in {lastConsumed, mailbox.ts}
        /\ todo' \subseteq Actuators
        /\ pc' = "send" /\ next \notin {"ZERO_SETTING", "NORMAL"} => todo' = Actuators
        /\ source' \in {source, FrameFor(next)}
        /\ UNCHANGED <<mailbox, writing, left, told, warned, running, published>>
    BY <1>1, RecipientsFacts DEF BeginTick, TypeOK, operatorVars
  <1>5. TypeOK'
    <2>1. age' \in 0 .. EnableDuration
      BY <1>1, <1>4 DEF TypeOK, AgeAfter
    <2>2. source' \in Frames
      BY <1>1, <1>3, <1>4, FrameFacts DEF TypeOK
    <2>3. op' \in CommandWord /\ lastConsumed' \in Nat \cup {None}
      BY <1>1, <1>2, <1>4 DEF TypeOK, Command
    <2>4. QED
      BY <1>1, <1>3, <1>4, <2>1, <2>2, <2>3 DEF TypeOK, ControlPoint
  <1>6. TimestampsOrdered'
    BY <1>1, <1>4 DEF TimestampsOrdered, TypeOK, Command, None
  <1>7. ServedFollowMode'
    <2> SUFFICES ASSUME pc' = "send", NEW a \in Actuators \ todo'
                 PROVE  told[a] \in FramesAtRest(next)
      BY <1>4 DEF ServedFollowMode
    <2>1. next \in {"ZERO_SETTING", "NORMAL"}
      BY <1>4
    <2>2. told[a] \in Frames /\ told[a] \in FramesAtRest(mode)
      BY <1>1, <1>4 DEF TypeOK, FramesFollowMode
    <2>3. CASE next = "ZERO_SETTING"
      BY <2>2, <2>3 DEF FramesAtRest
    <2>4. CASE next = "NORMAL"
      BY <1>3, <2>2, <2>4 DEF FramesAtRest, FrameFor
    <2>5. QED BY <2>1, <2>3, <2>4
  <1>8. QED
    BY <1>1, <1>4, <1>5, <1>6, <1>7
       DEF ControllerInv, FramesFollowMode, ServedAreDisabled,
           NothingLeftWhenStopped, PublishedCoherent

\* A frame sent in a tick, or in the shutdown, is the frame of its actuator alone.
LEMMA SentFacts ==
  ASSUME told \in [Actuators -> Frames], NEW a \in Actuators, NEW frame \in Frames,
         told' = [told EXCEPT ![a] = frame]
  PROVE  /\ told' \in [Actuators -> Frames]
         /\ told'[a] = frame
         /\ \A b \in Actuators \ {a} : told'[b] = told[b]
  OBVIOUS

LEMMA SendFrameInv ==
  ASSUME ControllerInv, NEW a \in Actuators, SendFrame(a)
  PROVE  ControllerInv'
  <1>1. TypeOK /\ ServedFollowMode /\ TimestampsOrdered /\ PublishedCoherent
    BY DEF ControllerInv
  <1>2. /\ pc = "send" /\ todo' = todo \ {a}
        /\ told' = [told EXCEPT ![a] = FrameFor(mode)]
        /\ UNCHANGED <<mailbox, writing, left, lastConsumed, op, mode, age, pc,
                       source, warned, running, published>>
    BY DEF SendFrame, operatorVars, fsmVars
  <1>3. FrameFor(mode) \in Frames /\ FrameFor(mode) \in FramesAtRest(mode)
    BY <1>1, FrameFacts DEF TypeOK
  <1>4. /\ told' \in [Actuators -> Frames]
        /\ told'[a] = FrameFor(mode)
        /\ \A b \in Actuators \ {a} : told'[b] = told[b]
    BY <1>1, <1>2, <1>3, SentFacts DEF TypeOK
  <1>5. TypeOK'
    BY <1>1, <1>2, <1>4 DEF TypeOK
  <1>6. ServedFollowMode'
    BY <1>1, <1>2, <1>3, <1>4 DEF ServedFollowMode
  <1>7. QED
    BY <1>1, <1>2, <1>5, <1>6
       DEF ControllerInv, TimestampsOrdered, FramesFollowMode, ServedAreDisabled,
           NothingLeftWhenStopped, PublishedCoherent

LEMMA EndTickInv ==
  ASSUME ControllerInv, EndTick
  PROVE  ControllerInv'
  <1>1. TypeOK /\ ServedFollowMode /\ TimestampsOrdered /\ PublishedCoherent
    BY DEF ControllerInv
  <1>2. /\ pc = "send" /\ todo = {} /\ pc' = "idle" /\ op' = "NONE"
        /\ source' = FrameFor(mode)
        /\ published' \in {published, [mode |-> mode, source |-> source']}
        /\ UNCHANGED <<mailbox, writing, left, lastConsumed, mode, age, todo, told,
                       warned, running>>
    BY DEF EndTick, operatorVars
  <1>3. source' \in Frames
    BY <1>1, <1>2, FrameFacts DEF TypeOK
  <1>4. published' \in [mode : ControllerMode, source : Frames]
    BY <1>1, <1>2, <1>3 DEF TypeOK
  <1>5. TypeOK'
    BY <1>1, <1>2, <1>3, <1>4 DEF TypeOK, ControlPoint, CommandWord,
                                  OperatorCommandCode
  <1>6. PublishedCoherent'
    BY <1>1, <1>2 DEF PublishedCoherent, SourcesUnder
  <1>7. FramesFollowMode'
    BY <1>1, <1>2 DEF ServedFollowMode, FramesFollowMode
  <1>8. QED
    BY <1>1, <1>2, <1>5, <1>6, <1>7
       DEF ControllerInv, TimestampsOrdered, ServedFollowMode, ServedAreDisabled,
           NothingLeftWhenStopped

LEMMA ShutdownSendInv ==
  ASSUME ControllerInv, NEW a \in Actuators, ShutdownSend(a)
  PROVE  ControllerInv'
  <1>1. TypeOK /\ ServedAreDisabled /\ TimestampsOrdered /\ PublishedCoherent
    BY DEF ControllerInv
  <1>2. /\ pc = "shutdown" /\ todo' = todo \ {a}
        /\ told' = [told EXCEPT ![a] = "DISABLE"]
        /\ UNCHANGED <<mailbox, writing, left, lastConsumed, op, mode, age, pc,
                       source, warned, running, published>>
    BY DEF ShutdownSend, operatorVars, fsmVars
  <1>3. "DISABLE" \in Frames
    BY DEF Frames
  <1>4. /\ told' \in [Actuators -> Frames]
        /\ told'[a] = "DISABLE"
        /\ \A b \in Actuators \ {a} : told'[b] = told[b]
    BY <1>1, <1>2, <1>3, SentFacts DEF TypeOK
  <1>5. TypeOK'
    BY <1>1, <1>2, <1>4 DEF TypeOK
  <1>6. ServedAreDisabled'
    BY <1>1, <1>2, <1>4 DEF ServedAreDisabled
  <1>7. QED
    BY <1>1, <1>2, <1>5, <1>6
       DEF ControllerInv, TimestampsOrdered, FramesFollowMode, ServedFollowMode,
           NothingLeftWhenStopped, PublishedCoherent

LEMMA FinishShutdownInv ==
  ASSUME ControllerInv, FinishShutdown
  PROVE  ControllerInv'
  <1>1. TypeOK /\ ServedAreDisabled /\ TimestampsOrdered
    BY DEF ControllerInv
  <1>2. /\ pc = "shutdown" /\ todo = {} /\ pc' = "stopped"
        /\ published' = [mode |-> mode, source |-> source]
        /\ UNCHANGED <<mailbox, writing, left, lastConsumed, op, mode, age, todo,
                       source, told, warned, running>>
    BY DEF FinishShutdown, operatorVars, fsmVars
  <1>3. published' \in [mode : ControllerMode, source : Frames]
    BY <1>1, <1>2 DEF TypeOK
  <1>4. TypeOK'
    BY <1>1, <1>2, <1>3 DEF TypeOK, ControlPoint
  <1>5. QED
    BY <1>1, <1>2, <1>4
       DEF ControllerInv, TimestampsOrdered, FramesFollowMode, ServedFollowMode,
           ServedAreDisabled, NothingLeftWhenStopped, PublishedCoherent

\* The ways out of the loop: a refused frame, a signal, the shutdown it leads to.
LEMMA LeavingInv ==
  ASSUME ControllerInv,
         SendFails \/ ImuRequestFails \/ RequestStop \/ BeginShutdown
           \/ ShutdownSendFails
  PROVE  ControllerInv'
  <1>1. /\ UNCHANGED <<mailbox, writing, left, lastConsumed, op, mode, age, told,
                       published>>
        /\ source' \in {source, "DISABLE"} /\ todo' \in {{}, todo, Actuators}
        /\ running' \in {running, FALSE} /\ warned' \in {warned, TRUE}
        /\ pc' \in {pc, "exit", "shutdown"}
    BY DEF SendFails, ImuRequestFails, RequestStop, BeginShutdown,
           ShutdownSendFails, operatorVars, fsmVars, outputVars
  <1>2. TypeOK'
    <2>1. TypeOK BY DEF ControllerInv
    <2>2. source' \in Frames /\ pc' \in ControlPoint
      BY <1>1, <2>1 DEF TypeOK, Frames, ControlPoint
    <2>3. todo' \subseteq Actuators /\ running' \in BOOLEAN /\ warned' \in BOOLEAN
      BY <1>1, <2>1 DEF TypeOK
    <2>4. QED BY <1>1, <2>1, <2>2, <2>3 DEF TypeOK
  <1>3. /\ pc = "stopped" => pc' = "stopped"
        /\ pc' \in {"idle", "send"} => pc' = pc /\ todo' = todo
        /\ pc' = "stopped" => pc = "stopped" /\ todo' = todo /\ warned' = warned
        /\ pc' = "shutdown" => todo' = Actuators \/ warned'
                               \/ (pc = "shutdown" /\ todo' = todo /\ warned' = warned)
    BY DEF SendFails, ImuRequestFails, RequestStop, BeginShutdown,
           ShutdownSendFails, outputVars
  <1>4. TimestampsOrdered' /\ FramesFollowMode' /\ ServedFollowMode'
    BY <1>1, <1>3 DEF ControllerInv, TimestampsOrdered, FramesFollowMode,
                      ServedFollowMode
  <1>5. ServedAreDisabled'
    BY <1>1, <1>3 DEF ControllerInv, ServedAreDisabled
  <1>6. NothingLeftWhenStopped' /\ PublishedCoherent'
    BY <1>1, <1>3 DEF ControllerInv, NothingLeftWhenStopped, PublishedCoherent
  <1>7. QED BY <1>2, <1>4, <1>5, <1>6 DEF ControllerInv

\* The dashboard and the clock do not touch what the loop has told.
LEMMA EnvironmentInv ==
  ASSUME ControllerInv,
         \/ \E body \in Commands : Publish(body)
         \/ \E chunk \in Chunks : StoreChunk(chunk)
         \/ ClockTick
  PROVE  ControllerInv'
  <1> USE ControllerAssumption, EnableDurationAssumption
  <1>1. TypeOK /\ TimestampsOrdered
    BY DEF ControllerInv
  <1>2. UNCHANGED <<lastConsumed, op, mode, pc, todo, running, source, published,
                    told, warned>>
    BY DEF Publish, StoreChunk, ClockTick, fsmVars, outputVars
  <1>3. ASSUME NEW body \in Commands, Publish(body)
        PROVE  /\ mailbox' \in Command /\ writing' \in Command
               /\ left' \subseteq Chunks /\ age' \in 0 .. EnableDuration
               /\ TimestampsOrdered'
    <2>1. /\ mailbox' = mailbox /\ left' = Chunks /\ age' = age
          /\ lastConsumed' = lastConsumed
      BY <1>3 DEF Publish, fsmVars
    <2>2. writing' \in Command /\ writing'.ts = writing.ts + 1
      BY <1>3, <1>1 DEF Publish, TypeOK, Command, Body
    <2>3. mailbox.ts \in Nat /\ writing.ts \in Nat
      BY <1>1 DEF TypeOK, Command
    <2>4. QED BY <1>1, <2>1, <2>2, <2>3 DEF TypeOK, TimestampsOrdered
  <1>4. ASSUME NEW chunk \in Chunks, StoreChunk(chunk)
        PROVE  /\ mailbox' \in Command /\ writing' \in Command
               /\ left' \subseteq Chunks /\ age' \in 0 .. EnableDuration
               /\ TimestampsOrdered'
    <2>1. /\ mailbox' = Copied(chunk) /\ left' \subseteq left /\ age' = age
          /\ lastConsumed' = lastConsumed /\ writing' = writing
      BY <1>4 DEF StoreChunk, fsmVars
    <2>2. mailbox' \in Command /\ mailbox'.ts \in {mailbox.ts, writing.ts}
      BY <1>1, <2>1, CopiedFacts DEF TypeOK
    <2>3. mailbox.ts \in Nat /\ writing.ts \in Nat
      BY <1>1 DEF TypeOK, Command
    <2>4. QED BY <1>1, <2>1, <2>2, <2>3 DEF TypeOK, TimestampsOrdered
  <1>5. ASSUME ClockTick
        PROVE  /\ mailbox' \in Command /\ writing' \in Command
               /\ left' \subseteq Chunks /\ age' \in 0 .. EnableDuration
               /\ TimestampsOrdered'
    BY <1>1, <1>5 DEF ClockTick, operatorVars, TypeOK, TimestampsOrdered
  <1>6. QED
    BY <1>1, <1>2, <1>3, <1>4, <1>5 DEF ControllerInv, TypeOK, FramesFollowMode,
       ServedFollowMode, ServedAreDisabled, NothingLeftWhenStopped,
       PublishedCoherent
-----------------------------------------------------------------------------
LEMMA StutterInv == ControllerInv /\ UNCHANGED vars => ControllerInv'
  BY DEF ControllerInv, vars, operatorVars, fsmVars, outputVars, TypeOK,
         TimestampsOrdered, FramesFollowMode, ServedFollowMode, ServedAreDisabled,
         NothingLeftWhenStopped, PublishedCoherent

\* Every step of the controller, the dashboard and the clock keeps what a tick
\* and a shutdown have established.
LEMMA StepInv == ControllerInv /\ [Next]_vars => ControllerInv'
  BY BeginTickInv, SendFrameInv, EndTickInv, ShutdownSendInv, FinishShutdownInv,
     LeavingInv, EnvironmentInv, StutterInv DEF Next, Controller, Stopped

\* The inductive invariant of the control loop (loop, shutdown): frames, mode,
\* timestamps and the published state stay tied together.
THEOREM ControllerInvariant == Spec => []ControllerInv
  BY InitInv, StepInv, PTL DEF Spec

\* The variables keep their types.
THEOREM TypesHold == Spec => []TypeOK
  <1>1. ControllerInv => TypeOK
    BY DEF ControllerInv
  <1>2. QED BY <1>1, ControllerInvariant, PTL

\* Whatever was torn, refused or skipped, between two ticks no actuator is
\* left with a frame of a mode other than the current one.
THEOREM FramesHold == Spec => []FramesFollowMode
  <1>1. ControllerInv => FramesFollowMode
    BY DEF ControllerInv
  <1>2. QED BY <1>1, ControllerInvariant, PTL

\* control_state pairs a mode with the output of the same tick.
THEOREM PublishedHolds == Spec => []PublishedCoherent
  <1>1. ControllerInv => PublishedCoherent
    BY DEF ControllerInv
  <1>2. QED BY <1>1, ControllerInvariant, PTL

\* A stopped controller has disabled every actuator or logged that it could not.
THEOREM StopHolds == Spec => []StoppedMeansDisabled
  <1>1. ControllerInv => StoppedMeansDisabled
    BY DEF ControllerInv, NothingLeftWhenStopped, ServedAreDisabled,
           StoppedMeansDisabled, AllTold
  <1>2. QED BY <1>1, ControllerInvariant, PTL
-----------------------------------------------------------------------------
\* What a change of mode means: only the start of a tick changes the mode, and
\* a command behind the change is newer than all those consumed before.
LEMMA ModeChange ==
  ASSUME ControllerInv, [Next]_vars, mode' # mode
  PROVE  /\ BeginTick
         /\ mode' = FsmUpdate(mode, op', age)
         /\ op' \in OperatorCommandCode \ {"NONE"}
              => /\ lastConsumed' = mailbox.ts /\ mailbox.ts > lastConsumed
                 /\ lastConsumed' > lastConsumed
         /\ mode \in ControllerMode /\ op' \in CommandWord /\ age \in Nat
  <1> DEFINE cmd == Consumed(mailbox)
  <1>1. TypeOK /\ TimestampsOrdered
    BY DEF ControllerInv
  <1>2. BeginTick
    BY DEF Next, Controller, Stopped, SendFrame, ShutdownSend, EndTick,
           BeginShutdown, FinishShutdown, SendFails, ShutdownSendFails,
           ImuRequestFails, Publish, StoreChunk, RequestStop, ClockTick, vars,
           fsmVars
  <1>3. /\ op' = cmd.code /\ mode' = FsmUpdate(mode, cmd.code, age)
        /\ lastConsumed' = IF Fresh(mailbox) THEN mailbox.ts ELSE lastConsumed
    BY <1>2 DEF BeginTick
  <1>4. /\ mailbox.ts \in Nat /\ lastConsumed \in Nat \cup {-1} /\ cmd \in Command
        /\ op' \in OperatorCommandCode \ {"NONE"} => Fresh(mailbox)
    BY <1>1, <1>3, ConsumedFacts DEF TypeOK, Command, None
  <1>5. Fresh(mailbox) => /\ lastConsumed' = mailbox.ts /\ mailbox.ts > lastConsumed
                          /\ lastConsumed' > lastConsumed
    BY <1>1, <1>3, <1>4 DEF Fresh, TimestampsOrdered
  <1>6. mode \in ControllerMode /\ op' \in CommandWord /\ age \in Nat
    BY <1>1, <1>3, <1>4, EnableDurationAssumption DEF TypeOK, Command
  <1>7. QED BY <1>2, <1>3, <1>4, <1>5, <1>6

\* ESTOP stays latched until a RESET_FAULT is acted upon, for every command
\* sequence and every way a command can be torn.
THEOREM EstopLatched == Spec => EstopLatch
  <1>1. ASSUME ControllerInv, [Next]_vars, mode = "ESTOP", mode' # "ESTOP"
        PROVE  mode' = "DISABLED" /\ op' = "RESET_FAULT"
               /\ lastConsumed' > lastConsumed
    <2>1. mode' = "DISABLED" /\ op' = "RESET_FAULT"
      BY <1>1, ModeChange, FsmUpdateFacts
    <2>2. QED BY <1>1, <2>1, ModeChange DEF OperatorCommandCode
  <1>2. ControllerInv /\ [Next]_vars
          => [mode = "ESTOP" /\ mode' # "ESTOP"
                => mode' = "DISABLED" /\ op' = "RESET_FAULT"
                   /\ lastConsumed' > lastConsumed]_vars
    BY <1>1
  <1>3. QED BY <1>2, ControllerInvariant, PTL DEF Spec, EstopLatch

\* A timestamp is acted upon once: no command takes effect after the tick that
\* consumed its timestamp.
THEOREM TimestampsNotReused == Spec => TimestampActedUponOnce
  <1>1. ASSUME ControllerInv, [Next]_vars, mode' # mode
        PROVE  \/ lastConsumed' = mailbox.ts /\ mailbox.ts > lastConsumed
               \/ <<mode, mode'>> \in {<<"ENABLING", "DAMPING">>,
                                       <<"ZERO_SETTING", "DISABLED">>}
    BY <1>1, ModeChange, FsmUpdateFacts
  <1>2. ControllerInv /\ [Next]_vars
          => [mode' # mode
                => \/ lastConsumed' = mailbox.ts /\ mailbox.ts > lastConsumed
                   \/ <<mode, mode'>> \in {<<"ENABLING", "DAMPING">>,
                                           <<"ZERO_SETTING", "DISABLED">>}]_vars
    BY <1>1
  <1>3. QED BY <1>2, ControllerInvariant, PTL DEF Spec, TimestampActedUponOnce
-----------------------------------------------------------------------------
\* The refinement mapping: distinct modes are distinct authorities, and a mode's
\* frame is the one its authority allows.
LEMMA AuthorityFacts ==
  ASSUME NEW m \in ControllerMode
  PROVE  /\ AuthorityOf(m) \in Authority!Authorities
         /\ Authority!FrameUnder(AuthorityOf(m)) = FrameFor(m)
         /\ AuthorityOf(m) = "drive" => m = "NORMAL"
         /\ AuthorityOf(m) = "latched" <=> m = "ESTOP"
  BY DEF AuthorityOf, Authority!Authorities, Authority!FrameUnder, FrameFor,
         ControllerMode

LEMMA AuthorityInit == Init => Authority!Init
  BY DEF Init, Authority!Init, AuthorityOf

LEMMA ModeChangeIsGrantOrClear ==
  ASSUME ControllerInv, [Next]_vars, mode' # mode
  PROVE  Authority!Next
  <1>1. TypeOK /\ FramesFollowMode /\ BeginTick
    BY ModeChange DEF ControllerInv
  <1>2. /\ pc = "idle" /\ pc' \in {"send", "exit"} /\ told' = told
        /\ mode \in ControllerMode
    BY <1>1 DEF BeginTick, TypeOK
  <1>3. /\ mode' \in ControllerMode
        /\ mode' = "NORMAL" => mode = "DAMPING"
        /\ mode = "ESTOP" => mode' = "DISABLED"
    BY ModeChange, FsmUpdateFacts
  <1>4. \A a \in Actuators : told[a] \in FramesAtRest(mode)
    BY <1>1, <1>2 DEF FramesFollowMode
  <1>5. CASE mode = "ESTOP"
    <2>1. AuthorityOf(mode) = "latched" /\ AuthorityOf(mode') = "off"
      BY <1>3, <1>5 DEF AuthorityOf
    <2>2. \A a \in Actuators : told[a] = "DISABLE"
      BY <1>4, <1>5 DEF FramesAtRest, FrameFor
    <2>3. Authority!Clear
      BY <1>2, <2>1, <2>2 DEF Authority!Clear, Authority!AllTold
    <2>4. QED BY <2>3 DEF Authority!Next
  <1>6. CASE mode # "ESTOP"
    <2>1. AuthorityOf(mode) # "latched"
      BY <1>2, <1>6, AuthorityFacts
    <2>2. AuthorityOf(mode') \in Authority!Authorities
      BY <1>3, AuthorityFacts
    <2>3. ASSUME AuthorityOf(mode') = "drive"
          PROVE  AuthorityOf(mode) = "hold" /\ \A a \in Actuators : told[a] = "DAMPING"
      <3>1. mode = "DAMPING"
        BY <1>3, <2>3, AuthorityFacts
      <3>2. QED BY <1>4, <3>1 DEF AuthorityOf, FramesAtRest, FrameFor
    <2>4. Authority!Grant(AuthorityOf(mode'))
      BY <1>2, <2>1, <2>3 DEF Authority!Grant, Authority!AllTold
    <2>5. QED BY <2>2, <2>4 DEF Authority!Next
  <1>7. QED BY <1>5, <1>6

LEMMA StepImplements ==
  ASSUME ControllerInv, [Next]_vars
  PROVE  [Authority!Next]_Authority!vars
  <1>1. TypeOK
    BY DEF ControllerInv
  <1>2. CASE mode' # mode
    BY <1>2, ModeChangeIsGrantOrClear
  <1>3. CASE mode' = mode
    <2>1. ASSUME NEW a \in Actuators, SendFrame(a)
          PROVE  Authority!Tell(a)
      <3>1. Authority!FrameUnder(AuthorityOf(mode)) = FrameFor(mode)
        BY <1>1, AuthorityFacts DEF TypeOK
      <3>2. /\ pc = "send" /\ pc' = pc /\ mode' = mode
            /\ told' = [told EXCEPT ![a] = FrameFor(mode)]
        BY <2>1 DEF SendFrame, fsmVars
      <3>3. QED BY <3>1, <3>2 DEF Authority!Tell
    <2>2. ASSUME NEW a \in Actuators, ShutdownSend(a)
          PROVE  Authority!SwitchOff(a)
      BY <1>3, <2>2 DEF ShutdownSend, Authority!SwitchOff
    <2>3. CASE BeginShutdown
      BY <1>3, <2>3 DEF BeginShutdown, Authority!Next, Authority!Halt
    <2>4. CASE \/ BeginTick \/ EndTick \/ FinishShutdown
               \/ SendFails \/ ShutdownSendFails \/ ImuRequestFails
               \/ \E body \in Commands : Publish(body)
               \/ \E chunk \in Chunks : StoreChunk(chunk)
               \/ RequestStop \/ ClockTick \/ UNCHANGED vars
      <3>1. /\ told' = told
            /\ pc' \in {"shutdown", "stopped"} <=> pc \in {"shutdown", "stopped"}
        BY <2>4 DEF BeginTick, EndTick, FinishShutdown, SendFails,
                    ShutdownSendFails, ImuRequestFails, Publish, StoreChunk,
                    RequestStop, ClockTick, vars, outputVars
      <3>2. QED BY <1>3, <3>1 DEF Authority!vars
    <2>5. QED
      BY <2>1, <2>2, <2>3, <2>4 DEF Next, Controller, Stopped, Authority!Next
  <1>4. QED BY <1>2, <1>3

\* The control loop grants the motors exactly the authority MotorAuthority
\* promises: the policy drives only motors that were all told to hold, and an
\* emergency stop is cleared only after every motor was told to switch off.
THEOREM AuthorityImplemented == Spec => ImplementsAuthority
  BY AuthorityInit, StepImplements, ControllerInvariant, PTL
     DEF Spec, ImplementsAuthority, Authority!Spec
-----------------------------------------------------------------------------
(***************************************************************************)
(* A mailbox that is read whole (Chunks = {Fields}), as it would be behind *)
(* one of the two shared-memory buffers: no emergency stop is lost.        *)
(***************************************************************************)
\* A mailbox whose emergency stop was consumed holds it under ESTOP only, and a
\* command that is being copied is newer than the one it replaces.
WholeInv ==
  /\ mailbox.code = "ESTOP" /\ lastConsumed = mailbox.ts => mode = "ESTOP"
  /\ left \subseteq {Fields}
  /\ left # {} => mailbox.ts < writing.ts

\* A tick that finds an emergency stop, be it new or already consumed, ends in
\* ESTOP.
LEMMA EstopTick ==
  ASSUME ControllerInv, WholeInv, BeginTick, mailbox.code = "ESTOP"
  PROVE  mode' = "ESTOP"
  <1>1. mode' = FsmUpdate(mode, Consumed(mailbox).code, age)
    BY DEF BeginTick
  <1>2. CASE Fresh(mailbox)
    <2>1. Consumed(mailbox).code = "ESTOP"
      BY <1>2 DEF Consumed
    <2>2. QED
      BY <1>1, <2>1 DEF FsmUpdate, ParseCommandCode, SafetyLayer, Unhandled,
                        OperatorCommandCode
  <1>3. CASE ~Fresh(mailbox)
    <2>1. AsksForSomething(mailbox) /\ lastConsumed = mailbox.ts
      BY <1>3 DEF AsksForSomething, Fresh, OperatorCommandCode
    <2>2. Consumed(mailbox).code = "NONE"
      BY <1>3, <2>1 DEF Consumed, Released
    <2>3. mode = "ESTOP"
      BY <2>1 DEF WholeInv
    <2>4. QED
      BY <1>1, <2>2, <2>3 DEF FsmUpdate, ParseCommandCode, SafetyLayer, Unhandled,
                              OperatorCommandCode
  <1>4. QED BY <1>2, <1>3

LEMMA WholeStep ==
  ASSUME Chunks = {Fields}, ControllerInv, WholeInv, [Next]_vars
  PROVE  WholeInv'
  <1>1. /\ mailbox.ts \in Nat /\ writing.ts \in Nat /\ lastConsumed \in Nat \cup {-1}
        /\ lastConsumed <= mailbox.ts /\ mailbox.ts <= writing.ts
    BY DEF ControllerInv, TypeOK, TimestampsOrdered, Command, None
  <1>2. CASE BeginTick
    <2>1. UNCHANGED <<mailbox, writing, left>>
      BY <1>2 DEF BeginTick, operatorVars
    <2>2. QED BY <1>2, <2>1, EstopTick DEF WholeInv
  <1>3. ASSUME NEW body \in Commands, Publish(body)
        PROVE  WholeInv'
    <2>1. UNCHANGED <<mailbox, lastConsumed, mode>> /\ left' = {Fields}
      BY <1>3 DEF Publish, fsmVars
    <2>2. writing'.ts = writing.ts + 1
      BY <1>3 DEF Publish
    <2>3. QED BY <1>1, <2>1, <2>2 DEF WholeInv
  <1>4. ASSUME NEW chunk \in Chunks, StoreChunk(chunk)
        PROVE  WholeInv'
    <2>1. UNCHANGED <<writing, lastConsumed, mode>> /\ chunk = Fields /\ left # {}
          /\ left' = left \ {chunk} /\ mailbox' = Copied(chunk)
      BY <1>4 DEF StoreChunk, fsmVars
    <2>2. mailbox'.ts = writing.ts
      BY <2>1 DEF Copied, Fields
    <2>3. lastConsumed' # mailbox'.ts
      BY <1>1, <2>1, <2>2 DEF WholeInv
    <2>4. left' = {}
      BY <2>1 DEF WholeInv
    <2>5. QED BY <2>3, <2>4 DEF WholeInv
  <1>5. CASE UNCHANGED <<mailbox, writing, left, lastConsumed, mode>>
    BY <1>5 DEF WholeInv
  <1>6. QED
    BY <1>2, <1>3, <1>4, <1>5
       DEF Next, Controller, SendFrame, ShutdownSend, EndTick, BeginShutdown, FinishShutdown,
           SendFails, ShutdownSendFails, ImuRequestFails, RequestStop, ClockTick, Stopped,
           vars, operatorVars, fsmVars

\* With whole reads an emergency stop in the mailbox is obeyed by every tick,
\* whatever commands came before and however often it is read.  (The run of the
\* torn mailbox shows that the hypothesis is needed.)
THEOREM WholeEstopObeyed ==
  ASSUME Chunks = {Fields}
  PROVE  Spec => EstopObeyed
  <1>1. Init => WholeInv
    BY DEF Init, WholeInv, Released, None
  <1>2. WholeInv /\ ControllerInv /\ [Next]_vars => WholeInv'
    BY WholeStep
  <1>3. ASSUME ControllerInv, WholeInv, [Next]_vars, pc = "idle", pc' = "send",
               mailbox.code = "ESTOP"
        PROVE  mode' = "ESTOP"
    <2>1. BeginTick
      BY <1>3 DEF Next, Controller, Stopped, SendFrame, ShutdownSend, EndTick,
                  BeginShutdown, FinishShutdown, SendFails, ShutdownSendFails,
                  ImuRequestFails, Publish, StoreChunk, RequestStop, ClockTick, vars,
                  outputVars
    <2>2. QED BY <1>3, <2>1, EstopTick
  <1>4. ControllerInv /\ WholeInv /\ [Next]_vars
          => [pc = "idle" /\ pc' = "send" /\ left = {} /\ mailbox.code = "ESTOP"
                => mode' = "ESTOP"]_vars
    BY <1>3
  <1>5. QED BY <1>1, <1>2, <1>4, ControllerInvariant, PTL DEF Spec, EstopObeyed
-----------------------------------------------------------------------------
(***************************************************************************)
(* The motors behind the bus.                                              *)
(***************************************************************************)
LEMMA FirmwareFacts ==
  ASSUME NEW m \in Motor, NEW frame \in Frames \ {"NONE"}
  PROVE  /\ OnCanFrame(m, frame) \in Motor
         /\ frame = "DISABLE" => ~AppliesTorque(OnCanFrame(m, frame))
         /\ MotorReset \in Motor
         /\ ~AppliesTorque(MotorReset)
         /\ HoldEnds(m) \in Motor /\ HoldReturns(m) \in Motor
         /\ AppliesTorque(HoldEnds(m)) = AppliesTorque(m)
         /\ AppliesTorque(HoldReturns(m)) = AppliesTorque(m)
  <1>1. /\ EnterMotorMode(m) \in Motor /\ ExitMotorMode(m) \in Motor
        /\ ~AppliesTorque(ExitMotorMode(m))
        /\ SetZeroPosition(m) \in Motor
    BY DEF EnterMotorMode, ExitMotorMode, SetZeroPosition, Motor, Latched, AppliesTorque
  <1>2. frame \in {"DAMPING", "POLICY"} => MitControl(m, frame) \in Motor
    BY DEF MitControl, Discards, Motor, Latched
  <1>3. OnCanFrame(m, frame) \in Motor
        /\ (frame = "DISABLE" => ~AppliesTorque(OnCanFrame(m, frame)))
    BY <1>1, <1>2 DEF OnCanFrame, Frames
  <1>4. MotorReset \in Motor /\ ~AppliesTorque(MotorReset)
    BY DEF MotorReset, Motor, Latched, AppliesTorque
  <1>5. /\ HoldEnds(m) \in Motor /\ AppliesTorque(HoldEnds(m)) = AppliesTorque(m)
        /\ HoldReturns(m) \in Motor /\ AppliesTorque(HoldReturns(m)) = AppliesTorque(m)
    BY DEF HoldEnds, HoldReturns, Motor, AppliesTorque
  <1>6. QED BY <1>3, <1>4, <1>5

\* A step of the system is a step of the control loop or leaves it alone.
LEMMA SystemStepIsControllerStep == SystemNext => [Next]_vars
  BY DEF SystemNext, Loop, Environment, RunSimulation, SetTimeBack, SystemStopped, Lose,
         ResetSimulator,
         Deliver, FinishAndDrop, EndPublishedTick, Next, Controller

Sendable == Actuators \X (Frames \ {"NONE"})

\* What is left of the bus after its oldest n frames have gone.
LEMMA SuffixFacts ==
  ASSUME bus \in Seq(Sendable), NEW n \in 0 .. Len(bus),
         bus' = SubSeq(bus, n + 1, Len(bus))
  PROVE  /\ bus' \in Seq(Sendable)
         /\ Len(bus') = Len(bus) - n
         /\ \A i \in 1 .. Len(bus') : bus'[i] = bus[i + n]
  OBVIOUS

LEMMA TailIsSuffix ==
  ASSUME bus \in Seq(Sendable), bus # <<>>
  PROVE  /\ Tail(bus) = SubSeq(bus, 2, Len(bus))
         /\ 1 \in 0 .. Len(bus)
         /\ Head(bus) = bus[1]
         /\ bus[1][1] \in Actuators /\ bus[1][2] \in Frames \ {"NONE"}
         /\ bus[1] = <<bus[1][1], bus[1][2]>>
  <1>1. Len(bus) \in Nat /\ Len(bus) > 0
    OBVIOUS
  <1>2. bus[1] \in Sendable
    BY <1>1
  <1>3. Tail(bus) = SubSeq(bus, 2, Len(bus)) /\ Head(bus) = bus[1]
    BY <1>1
  <1>4. QED BY <1>1, <1>2, <1>3 DEF Sendable

\* The youngest frame of a motor is the last of its frames to go.
LEMMA SuffixKeepsLast ==
  ASSUME bus \in Seq(Sendable), NEW n \in 0 .. Len(bus),
         bus' = SubSeq(bus, n + 1, Len(bus)), told' = told,
         NEW a \in Actuators, LastIsTold(a)
  PROVE  LastIsTold(a)'
  <1>1. /\ Len(bus) \in Nat /\ Len(bus') = Len(bus) - n
        /\ \A i \in 1 .. Len(bus') : bus'[i] = bus[i + n]
    BY SuffixFacts
  <1>2. SUFFICES ASSUME NEW i \in 1 .. Len(bus'), bus'[i][1] = a,
                        \A j \in i + 1 .. Len(bus') : bus'[j][1] # a
                 PROVE  bus'[i][2] = told[a]
    BY DEF LastIsTold
  <1>3. i + n \in 1 .. Len(bus) /\ bus[i + n] = bus'[i]
    BY <1>1
  <1>4. ASSUME NEW k \in (i + n) + 1 .. Len(bus)
        PROVE  bus[k][1] # a
    <2>1. k - n \in i + 1 .. Len(bus') /\ k - n \in 1 .. Len(bus') /\ (k - n) + n = k
      BY <1>1, <1>4
    <2>2. bus'[k - n] = bus[k]
      BY <1>1, <2>1
    <2>3. QED BY <1>2, <2>1, <2>2
  <1>5. QED BY <1>2, <1>3, <1>4 DEF LastIsTold

LEMMA EnqueueKeepsLast ==
  ASSUME bus \in Seq(Sendable), told \in [Actuators -> Frames],
         NEW a \in Actuators, NEW frame \in Frames \ {"NONE"},
         bus' = Append(bus, <<a, frame>>), told' = [told EXCEPT ![a] = frame],
         NEW b \in Actuators, b # a => LastIsTold(b)
  PROVE  /\ LastIsTold(b)'
         /\ Addressed(bus') = Addressed(bus) \cup {a}
         /\ bus' \in Seq(Sendable)
  <1>1. /\ Len(bus) \in Nat /\ Len(bus') = Len(bus) + 1
        /\ bus'[Len(bus) + 1] = <<a, frame>>
        /\ \A i \in 1 .. Len(bus) : bus'[i] = bus[i]
        /\ bus' \in Seq(Sendable)
    BY DEF Sendable
  <1>2. ASSUME NEW i \in 1 .. Len(bus'), bus'[i][1] = b,
               \A j \in i + 1 .. Len(bus') : bus'[j][1] # b
        PROVE  bus'[i][2] = told'[b]
    <2>1. CASE i = Len(bus) + 1
      BY <1>1, <1>2, <2>1
    <2>2. CASE i # Len(bus) + 1
      <3>1. i \in 1 .. Len(bus) /\ Len(bus) + 1 \in i + 1 .. Len(bus')
        BY <1>1, <1>2, <2>2
      <3>2. a # b
        BY <1>1, <1>2, <3>1
      <3>3. \A j \in i + 1 .. Len(bus) : bus[j][1] # b
        BY <1>1, <1>2, <3>1
      <3>4. bus[i][2] = told[b]
        BY <1>1, <1>2, <3>1, <3>2, <3>3 DEF LastIsTold
      <3>5. QED BY <1>1, <3>1, <3>2, <3>4
    <2>3. QED BY <2>1, <2>2
  <1>3. Addressed(bus') = Addressed(bus) \cup {a}
    <2>1. ASSUME NEW x \in Addressed(bus') PROVE x \in Addressed(bus) \cup {a}
      BY <1>1, <2>1 DEF Addressed
    <2>2. ASSUME NEW x \in Addressed(bus) PROVE x \in Addressed(bus')
      BY <1>1, <2>2 DEF Addressed
    <2>3. a \in Addressed(bus')
      BY <1>1 DEF Addressed
    <2>4. QED BY <2>1, <2>2, <2>3
  <1>4. QED BY <1>1, <1>2, <1>3 DEF LastIsTold

\* Taking the oldest frame leaves every other motor addressed that was; the
\* motor whose last frame it was has now been reached with what it was told.
LEMMA TailFacts ==
  ASSUME bus \in Seq(Sendable), bus # <<>>, bus' = Tail(bus), NEW b \in Actuators
  PROVE  /\ b \in Addressed(bus) => b = Head(bus)[1] \/ b \in Addressed(bus')
         /\ b \in Addressed(bus') => b \in Addressed(bus)
         /\ b = Head(bus)[1] /\ b \notin Addressed(bus') /\ LastIsTold(b)
              => Head(bus)[2] = told[b]
  <1>1. /\ Head(bus) = bus[1] /\ Len(bus) \in Nat /\ Len(bus) > 0
        /\ Len(bus') = Len(bus) - 1
        /\ \A i \in 1 .. Len(bus') : bus'[i] = bus[i + 1]
    BY TailIsSuffix, SuffixFacts
  <1>2. ASSUME NEW j \in 2 .. Len(bus)
        PROVE  bus[j][1] \in Addressed(bus')
    <2>1. j - 1 \in 1 .. Len(bus') /\ (j - 1) + 1 = j
      BY <1>1, <1>2
    <2>2. bus'[j - 1] = bus[j]
      BY <1>1, <2>1
    <2>3. QED BY <2>1, <2>2 DEF Addressed
  <1>3. b \in Addressed(bus) => b = Head(bus)[1] \/ b \in Addressed(bus')
    <2>1. SUFFICES ASSUME NEW i \in 1 .. Len(bus), bus[i][1] = b
                   PROVE  b = Head(bus)[1] \/ b \in Addressed(bus')
      BY DEF Addressed
    <2>2. CASE i = 1
      BY <1>1, <2>1, <2>2
    <2>3. CASE i # 1
      <3>1. i \in 2 .. Len(bus)
        BY <1>1, <2>3
      <3>2. QED BY <1>2, <2>1, <3>1
    <2>4. QED BY <2>2, <2>3
  <1>4. b \in Addressed(bus') => b \in Addressed(bus)
    <2>1. SUFFICES ASSUME NEW i \in 1 .. Len(bus'), bus'[i][1] = b
                   PROVE  b \in Addressed(bus)
      BY DEF Addressed
    <2>2. i + 1 \in 1 .. Len(bus) /\ bus[i + 1][1] = b
      BY <1>1, <2>1
    <2>3. QED BY <2>2 DEF Addressed
  <1>5. ASSUME b = Head(bus)[1], b \notin Addressed(bus'), LastIsTold(b)
        PROVE  Head(bus)[2] = told[b]
    <2>1. 1 \in 1 .. Len(bus) /\ bus[1][1] = b
      BY <1>1, <1>5
    <2>2. \A j \in 1 + 1 .. Len(bus) : bus[j][1] # b
      BY <1>2, <1>5
    <2>3. QED BY <1>1, <1>5, <2>1, <2>2 DEF LastIsTold
  <1>6. QED BY <1>3, <1>4, <1>5

LEMMA SystemInitInv == SystemInit => SystemInv
  <1> SUFFICES ASSUME SystemInit PROVE SystemInv
    OBVIOUS
  <1>1. ControllerInv /\ TypeOK
    BY InitInv DEF SystemInit, ControllerInv
  <1>2. MotorReset \in Motor /\ ~AppliesTorque(MotorReset)
    BY DEF MotorReset, Motor, Latched, AppliesTorque
  <1>3. bus \in Seq(Sendable) /\ Len(bus) = 0 /\ Len(bus) <= QueueSize
    BY MotorSystemAssumption DEF SystemInit
  <1>4. SystemTypeOK
    BY <1>1, <1>2, <1>3 DEF SystemTypeOK, SystemInit, Sendable
  <1>5. \A a \in Actuators : LastIsTold(a)
    BY <1>3 DEF LastIsTold
  <1>6. DisabledMotorsAreOff
    BY <1>2 DEF DisabledMotorsAreOff, SystemInit
  <1>7. QED BY <1>1, <1>4, <1>5, <1>6 DEF SystemInv

\* Steps that say nothing to the motors.
LEMMA SilentInv ==
  ASSUME SystemInv, ControllerInv', UNCHANGED <<told, bus, motor, lost, deaf>>
  PROVE  SystemInv'
  <1>1. SystemTypeOK'
    BY DEF SystemInv, SystemTypeOK, ControllerInv
  <1>2. QED
    BY <1>1 DEF SystemInv, LastIsTold, DisabledMotorsAreOff, Settled, Addressed

LEMMA EnqueueInv ==
  ASSUME SystemInv, ControllerInv', NEW a \in Actuators,
         NEW frame \in Frames \ {"NONE"},
         Enqueue(a, frame), told' = [told EXCEPT ![a] = frame]
  PROVE  SystemInv'
  <1>1. /\ bus \in Seq(Sendable) /\ told \in [Actuators -> Frames]
        /\ bus' = Append(bus, <<a, frame>>) /\ Len(bus) < QueueSize
        /\ UNCHANGED <<motor, lost, deaf>>
    BY DEF SystemInv, SystemTypeOK, TypeOK, Sendable, Enqueue
  <1>2. ASSUME NEW b \in Actuators \ lost PROVE LastIsTold(b)'
    BY <1>1, <1>2, EnqueueKeepsLast DEF SystemInv
  <1>3. bus' \in Seq(Sendable) /\ Addressed(bus') = Addressed(bus) \cup {a}
    <2>1. CASE a \in lost
      <3>1. DEFINE appended == Append(bus, <<a, frame>>)
      <3>2. appended \in Seq(Sendable) /\ Len(bus) \in Nat
            /\ Len(appended) = Len(bus) + 1
            /\ appended[Len(bus) + 1] = <<a, frame>>
            /\ \A i \in 1 .. Len(bus) : appended[i] = bus[i]
        BY <1>1 DEF Sendable
      <3>3. QED BY <1>1, <3>2 DEF Addressed
    <2>2. CASE a \notin lost
      BY <1>1, EnqueueKeepsLast DEF SystemInv
    <2>3. QED BY <2>1, <2>2
  <1>4. SystemTypeOK'
    <2>1. Len(bus') <= QueueSize
      BY <1>1, MotorSystemAssumption
    <2>2. QED
      BY <1>1, <1>3, <2>1 DEF SystemInv, SystemTypeOK, ControllerInv, Sendable
  <1>5. DisabledMotorsAreOff'
    <2>1. SUFFICES ASSUME NEW b \in Actuators, b \notin Addressed(bus'),
                          b \notin lost, told'[b] = "DISABLE"
                   PROVE  ~AppliesTorque(motor[b])
      BY <1>1 DEF DisabledMotorsAreOff, Settled
    <2>2. b # a /\ b \notin Addressed(bus) /\ told[b] = "DISABLE"
      BY <1>1, <1>3, <2>1
    <2>3. QED BY <2>1, <2>2 DEF SystemInv, DisabledMotorsAreOff, Settled
  <1>6. QED BY <1>1, <1>2, <1>4, <1>5 DEF SystemInv

LEMMA DeliverInv ==
  ASSUME SystemInv, ControllerInv', NEW a \in Actuators, Deliver(a)
  PROVE  SystemInv'
  <1>1. /\ bus \in Seq(Sendable) /\ bus # <<>> /\ bus' = Tail(bus)
        /\ motor \in [Actuators -> Motor]
        /\ motor' = [motor EXCEPT ![a] = OnCanFrame(@, Head(bus)[2])]
        /\ Head(bus)[1] = a /\ told' = told /\ lost' = lost
        /\ Len(bus) <= QueueSize /\ deaf' \subseteq Actuators
    BY DEF SystemInv, SystemTypeOK, Sendable, Deliver, DeafAfter, vars, outputVars
  <1>2. Head(bus)[2] \in Frames \ {"NONE"}
    BY <1>1, TailIsSuffix
  <1>3. /\ bus' \in Seq(Sendable) /\ Len(bus') <= QueueSize
        /\ \A b \in Actuators \ lost : LastIsTold(b)'
    <2>1. bus' = SubSeq(bus, 1 + 1, Len(bus)) /\ 1 \in 0 .. Len(bus)
      BY <1>1, TailIsSuffix
    <2>2. bus' \in Seq(Sendable) /\ Len(bus') = Len(bus) - 1
      BY <1>1, <2>1, SuffixFacts
    <2>3. \A b \in Actuators \ lost : LastIsTold(b)'
      BY <1>1, <2>1, SuffixKeepsLast DEF SystemInv
    <2>4. QED BY <1>1, <2>2, <2>3, MotorSystemAssumption
  <1>4. motor' \in [Actuators -> Motor]
    BY <1>1, <1>2, FirmwareFacts
  <1>5. DisabledMotorsAreOff'
    <2>1. SUFFICES ASSUME NEW b \in Actuators, b \notin Addressed(bus'),
                          b \notin lost, told[b] = "DISABLE"
                   PROVE  ~AppliesTorque(motor'[b])
      BY <1>1 DEF DisabledMotorsAreOff, Settled
    <2>2. CASE b = a
      <3>1. Head(bus)[2] = "DISABLE"
        BY <1>1, <2>1, <2>2, TailFacts DEF SystemInv
      <3>2. motor'[b] = OnCanFrame(motor[a], Head(bus)[2]) /\ motor[a] \in Motor
        BY <1>1, <2>2
      <3>3. QED BY <1>2, <3>1, <3>2, FirmwareFacts
    <2>3. CASE b # a
      <3>1. b \notin Addressed(bus)
        BY <1>1, <2>1, <2>3, TailFacts
      <3>2. motor'[b] = motor[b]
        BY <1>1, <2>3
      <3>3. QED BY <2>1, <3>1, <3>2 DEF SystemInv, DisabledMotorsAreOff, Settled
    <2>4. QED BY <2>2, <2>3
  <1>6. SystemTypeOK'
    BY <1>1, <1>3, <1>4 DEF SystemInv, SystemTypeOK, ControllerInv, Sendable
  <1>7. QED BY <1>1, <1>3, <1>5, <1>6 DEF SystemInv

LEMMA LoseInv ==
  ASSUME SystemInv, ControllerInv', Lose
  PROVE  SystemInv'
  <1>1. /\ bus \in Seq(Sendable) /\ bus # <<>> /\ bus' = Tail(bus)
        /\ told' = told /\ motor' = motor /\ lost' = lost \cup {Head(bus)[1]}
        /\ Len(bus) <= QueueSize /\ lost \subseteq Actuators /\ deaf' = deaf
    BY DEF SystemInv, SystemTypeOK, Sendable, Lose, vars, outputVars
  <1>2. bus' = SubSeq(bus, 1 + 1, Len(bus)) /\ 1 \in 0 .. Len(bus)
        /\ Head(bus)[1] \in Actuators
    BY <1>1, TailIsSuffix
  <1>3. bus' \in Seq(Sendable) /\ Len(bus') = Len(bus) - 1
    BY <1>1, <1>2, SuffixFacts
  <1>4. \A b \in Actuators \ lost' : LastIsTold(b)'
    BY <1>1, <1>2, SuffixKeepsLast DEF SystemInv
  <1>5. DisabledMotorsAreOff'
    BY <1>1, TailFacts DEF SystemInv, DisabledMotorsAreOff, Settled
  <1>6. SystemTypeOK'
    <2>1. Len(bus') <= QueueSize
      BY <1>1, <1>3, MotorSystemAssumption
    <2>2. QED
      BY <1>1, <1>2, <1>3, <2>1 DEF SystemInv, SystemTypeOK, ControllerInv, Sendable
  <1>7. QED BY <1>4, <1>5, <1>6 DEF SystemInv

LEMMA ResetInv ==
  ASSUME SystemInv, ControllerInv', ResetSimulator
  PROVE  SystemInv'
  <1>1. PICK n \in 0 .. Len(bus) : bus' = SubSeq(bus, n + 1, Len(bus))
    BY DEF ResetSimulator
  <1>2. /\ bus \in Seq(Sendable) /\ Len(bus) <= QueueSize
        /\ told' = told /\ lost' = lost /\ deaf' = {}
        /\ motor' = [a \in Actuators |-> MotorReset]
    BY DEF SystemInv, SystemTypeOK, Sendable, ResetSimulator, vars, outputVars
  <1>3. MotorReset \in Motor /\ ~AppliesTorque(MotorReset)
    BY DEF MotorReset, Motor, Latched, AppliesTorque
  <1>4. bus' \in Seq(Sendable) /\ Len(bus') = Len(bus) - n /\ Len(bus) \in Nat
    BY <1>1, <1>2, SuffixFacts
  <1>5. \A b \in Actuators \ lost' : LastIsTold(b)'
    BY <1>1, <1>2, SuffixKeepsLast DEF SystemInv
  <1>6. DisabledMotorsAreOff'
    BY <1>2, <1>3 DEF DisabledMotorsAreOff
  <1>7. SystemTypeOK'
    <2>1. Len(bus') <= QueueSize
      BY <1>2, <1>4, MotorSystemAssumption
    <2>2. QED
      BY <1>2, <1>3, <1>4, <2>1 DEF SystemInv, SystemTypeOK, ControllerInv, Sendable
  <1>8. QED BY <1>5, <1>6, <1>7 DEF SystemInv

\* Whichever way the simulated time moves, only holds end or come back.
LEMMA SimulatedTimeFacts ==
  ASSUME SystemTypeOK, RunSimulation \/ SetTimeBack
  PROVE  /\ UNCHANGED <<vars, bus, lost, deaf>>
         /\ motor' \in [Actuators -> Motor]
         /\ \A a \in Actuators :
              /\ motor'[a].latched = motor[a].latched
              /\ motor'[a].enabled = motor[a].enabled
              /\ AppliesTorque(motor'[a]) = AppliesTorque(motor[a])
  <1>1. motor \in [Actuators -> Motor]
    BY DEF SystemTypeOK
  <1>2. ASSUME NEW m \in Motor
        PROVE  /\ HoldEnds(m) \in Motor /\ HoldReturns(m) \in Motor
               /\ HoldEnds(m).latched = m.latched /\ HoldReturns(m).latched = m.latched
               /\ HoldEnds(m).enabled = m.enabled /\ HoldReturns(m).enabled = m.enabled
    BY <1>2 DEF HoldEnds, HoldReturns, Motor
  <1>3. CASE RunSimulation
    BY <1>1, <1>2, <1>3 DEF RunSimulation, AppliesTorque
  <1>4. CASE SetTimeBack
    BY <1>1, <1>2, <1>4 DEF SetTimeBack, AppliesTorque
  <1>5. QED BY <1>3, <1>4

LEMMA SimulatedTimeInv ==
  ASSUME SystemInv, ControllerInv', RunSimulation \/ SetTimeBack
  PROVE  SystemInv'
  <1>1. SystemTypeOK
    BY DEF SystemInv
  <1>2. /\ UNCHANGED <<told, bus, lost, deaf>>
        /\ motor' \in [Actuators -> Motor]
        /\ \A a \in Actuators : AppliesTorque(motor'[a]) = AppliesTorque(motor[a])
    BY <1>1, SimulatedTimeFacts DEF vars, outputVars
  <1>3. SystemTypeOK'
    BY <1>2 DEF SystemInv, SystemTypeOK, ControllerInv
  <1>4. DisabledMotorsAreOff'
    BY <1>2 DEF SystemInv, DisabledMotorsAreOff, Settled
  <1>5. \A a \in Actuators \ lost' : LastIsTold(a)'
    BY <1>2 DEF SystemInv, LastIsTold
  <1>6. QED BY <1>3, <1>4, <1>5 DEF SystemInv

\* The daemon drops what it has not sent: those motors are not settled any more.
LEMMA FinishInv ==
  ASSUME SystemInv, ControllerInv', FinishAndDrop
  PROVE  SystemInv'
  <1>1. /\ bus' = <<>> /\ UNCHANGED <<told, motor, deaf>>
        /\ lost' = lost \cup Addressed(bus)
    BY DEF FinishAndDrop, FinishShutdown
  <1>2. bus' \in Seq(Sendable) /\ Len(bus') = 0 /\ Len(bus') <= QueueSize
    BY <1>1, MotorSystemAssumption
  <1>3. Addressed(bus) \subseteq Actuators
    <2>1. bus \in Seq(Sendable)
      BY DEF SystemInv, SystemTypeOK, Sendable
    <2>2. \A i \in 1 .. Len(bus) : bus[i] \in Sendable
      BY <2>1
    <2>3. QED BY <2>2 DEF Addressed, Sendable
  <1>4. SystemTypeOK'
    BY <1>1, <1>2, <1>3 DEF SystemInv, SystemTypeOK, ControllerInv, Sendable
  <1>5. \A a \in Actuators : LastIsTold(a)'
    BY <1>2 DEF LastIsTold
  <1>6. DisabledMotorsAreOff'
    BY <1>1 DEF SystemInv, DisabledMotorsAreOff, Settled
  <1>7. QED BY <1>4, <1>5, <1>6 DEF SystemInv

LEMMA SystemStepInv == SystemInv /\ [SystemNext]_systemVars => SystemInv'
  <1> SUFFICES ASSUME SystemInv, [SystemNext]_systemVars PROVE SystemInv'
    OBVIOUS
  <1>1. ControllerInv'
    <2>1. [Next]_vars
      BY SystemStepIsControllerStep DEF systemVars
    <2>2. QED BY <2>1, StepInv DEF SystemInv
  <1>2. CASE Loop
    <2>1. CASE (BeginTick \/ EndPublishedTick \/ BeginShutdown) /\ UNCHANGED <<bus, motor, lost, deaf>>
      <3>1. told' = told
        BY <2>1 DEF BeginTick, EndPublishedTick, EndTick, BeginShutdown
      <3>2. QED BY <1>1, <2>1, <3>1, SilentInv
    <2>2. ASSUME NEW a \in Actuators, SendFrame(a) /\ Enqueue(a, FrameFor(mode))
          PROVE  SystemInv'
      <3>1. FrameFor(mode) \in Frames \ {"NONE"}
        BY DEF FrameFor, Frames
      <3>2. told' = [told EXCEPT ![a] = FrameFor(mode)]
        BY <2>2 DEF SendFrame
      <3>3. QED BY <1>1, <2>2, <3>1, <3>2, EnqueueInv
    <2>3. ASSUME NEW a \in Actuators, ShutdownSend(a) /\ Enqueue(a, "DISABLE")
          PROVE  SystemInv'
      <3>1. "DISABLE" \in Frames \ {"NONE"}
        BY DEF Frames
      <3>2. told' = [told EXCEPT ![a] = "DISABLE"]
        BY <2>3 DEF ShutdownSend
      <3>3. QED BY <1>1, <2>3, <3>1, <3>2, EnqueueInv
    <2>4. CASE FinishAndDrop
      BY <1>1, <2>4, FinishInv
    <2>5. QED BY <1>2, <2>1, <2>2, <2>3, <2>4 DEF Loop
  <1>3. CASE Environment
    <2>1. UNCHANGED <<told, bus, motor, lost, deaf>>
      BY <1>3 DEF Environment, SendFails, ShutdownSendFails, ImuRequestFails,
                  RequestStop, ClockTick, Publish, StoreChunk, outputVars
    <2>2. QED BY <1>1, <2>1, SilentInv
  <1>4. CASE SystemStopped \/ UNCHANGED systemVars
    <2>1. UNCHANGED <<told, bus, motor, lost, deaf>>
      BY <1>4 DEF SystemStopped, Stopped, systemVars, vars, outputVars
    <2>2. QED BY <1>1, <2>1, SilentInv
  <1>5. QED
    BY <1>1, <1>2, <1>3, <1>4, DeliverInv, LoseInv, ResetInv, SimulatedTimeInv
       DEF SystemNext

\* The inductive invariant: what the loop last told a motor is the last frame
\* under way to it, or has arrived.
THEOREM SystemInvariant == SystemSpec => []SystemInv
  BY SystemInitInv, SystemStepInv, PTL DEF SystemSpec

\* The variables of the composition keep their types.
THEOREM SystemTypesHold == SystemSpec => []SystemTypeOK
  <1>1. SystemInv => SystemTypeOK
    BY DEF SystemInv
  <1>2. QED BY <1>1, SystemInvariant, PTL

\* A disabled motor that was reached applies no torque, whatever frames of
\* other motors were lost, delayed or cleared by a reset of the simulator.
THEOREM DisabledMotorsStayOff == SystemSpec => []DisabledMotorsAreOff
  <1>1. SystemInv => DisabledMotorsAreOff
    BY DEF SystemInv
  <1>2. QED BY <1>1, SystemInvariant, PTL

\* Composing the loop with the bus takes nothing away: it is the loop of
\* RobotController, and everything proved of that holds of the system.
THEOREM SystemRunsController == SystemSpec => Spec
  <1>1. SystemInit => Init
    BY DEF SystemInit
  <1>2. [SystemNext]_systemVars => [Next]_vars
    BY SystemStepIsControllerStep DEF systemVars
  <1>3. QED BY <1>1, <1>2, PTL DEF SystemSpec, Spec
-----------------------------------------------------------------------------
(***************************************************************************)
(* Who a policy frame finds.  The loop sends the policy only where its     *)
(* last frame was a control frame; so a policy frame under way follows     *)
(* another control frame to the same motor, or finds a motor that is       *)
(* holding, following, switched off or deaf.                               *)
(***************************************************************************)
Control == {"DAMPING", "POLICY"}

\* In motor mode, without torque, and listening.
Limp(a) ==
  motor[a].enabled /\ motor[a].latched \notin Control /\ a \notin deaf

\* No frame for a is under way strictly between the i-th and the k-th.
NoneBetween(a, i, k) == \A j \in i + 1 .. k - 1 : bus[j][1] # a

PolicyAfterControl(a) ==
  \A k \in 1 .. Len(bus) : \A i \in 1 .. k - 1 :
    bus[k][1] = a /\ bus[k][2] = "POLICY" /\ bus[i][1] = a /\ NoneBetween(a, i, k)
      => bus[i][2] \in Control

PolicyNotToLimp(a) ==
  /\ \A k \in 1 .. Len(bus) :
       bus[k][1] = a /\ bus[k][2] = "POLICY" /\ NoneBetween(a, 0, k) => ~Limp(a)
  /\ a \notin Addressed(bus) /\ told[a] \in Control => ~Limp(a)

\* Under NORMAL every actuator was told to hold before the policy is sent.
HeldInNormal ==
  pc = "send" /\ mode = "NORMAL" => \A a \in Actuators : told[a] \in Control

PolicyInOrder ==
  \A a \in Actuators \ lost : PolicyAfterControl(a) /\ PolicyNotToLimp(a)

TakeoverInv == HeldInNormal /\ PolicyInOrder

\* What hearing a frame does to a motor: no control frame leaves it limp and
\* listening, and only a policy frame makes it follow the policy.
LEMMA HeardFacts ==
  ASSUME SystemTypeOK, NEW a \in Actuators, NEW frame \in Frames \ {"NONE"},
         motor' = [motor EXCEPT ![a] = OnCanFrame(@, frame)],
         deaf' = DeafAfter(a, frame)
  PROVE  /\ frame \in Control => ~Limp(a)'
         /\ \A b \in Actuators \ {a} : Limp(b)' = Limp(b)
         /\ motor[a].latched # "POLICY" /\ motor'[a].latched = "POLICY"
              => frame = "POLICY" /\ motor[a].enabled
  <1> DEFINE m == motor[a]
  <1>1. m \in Motor /\ motor \in [Actuators -> Motor]
    BY DEF SystemTypeOK
  <1>2. motor'[a] = OnCanFrame(m, frame)
    BY <1>1
  <1>3. \A b \in Actuators \ {a} : motor'[b] = motor[b] /\ (b \in deaf' <=> b \in deaf)
    BY <1>1 DEF DeafAfter
  <1>4. \A b \in Actuators \ {a} : Limp(b)' = Limp(b)
    BY <1>3 DEF Limp
  <1>5. ASSUME frame \in Control
        PROVE  \/ a \in deaf'
               \/ motor'[a] = m /\ ~m.enabled
               \/ motor'[a].latched = frame
    <2>1. motor'[a] = MitControl(m, frame)
      BY <1>2, <1>5 DEF OnCanFrame, Control
    <2>2. CASE Discards(m, frame)
      BY <2>2 DEF DeafAfter
    <2>3. CASE ~Discards(m, frame)
      BY <2>1, <2>3 DEF MitControl
    <2>4. QED BY <2>2, <2>3
  <1>6. frame \in Control => ~Limp(a)'
    BY <1>5 DEF Limp, Control
  <1>7. ASSUME m.latched # "POLICY", motor'[a].latched = "POLICY"
        PROVE  frame = "POLICY" /\ m.enabled
    <2>1. \/ motor'[a] \in {EnterMotorMode(m), ExitMotorMode(m), SetZeroPosition(m)}
          \/ motor'[a] = MitControl(m, frame)
      BY <1>2 DEF OnCanFrame
    <2>2. motor'[a] = MitControl(m, frame)
      BY <1>7, <2>1 DEF EnterMotorMode, ExitMotorMode, SetZeroPosition
    <2>3. QED BY <1>7, <2>2 DEF MitControl
  <1>8. QED BY <1>4, <1>6, <1>7 DEF Control

\* Frames that leave the bus at its old end keep the order of the others.
LEMMA SuffixKeepsControl ==
  ASSUME bus \in Seq(Sendable), NEW n \in 0 .. Len(bus),
         bus' = SubSeq(bus, n + 1, Len(bus)),
         NEW a \in Actuators, PolicyAfterControl(a)
  PROVE  PolicyAfterControl(a)'
  <1>1. /\ Len(bus) \in Nat /\ Len(bus') = Len(bus) - n
        /\ \A i \in 1 .. Len(bus') : bus'[i] = bus[i + n]
    BY SuffixFacts
  <1>2. SUFFICES ASSUME NEW k \in 1 .. Len(bus'), NEW i \in 1 .. k - 1,
                        bus'[k][1] = a, bus'[k][2] = "POLICY", bus'[i][1] = a,
                        NoneBetween(a, i, k)'
                 PROVE  bus'[i][2] \in Control
    BY DEF PolicyAfterControl
  <1>3. /\ k + n \in 1 .. Len(bus) /\ i + n \in 1 .. (k + n) - 1
        /\ bus[k + n] = bus'[k] /\ bus[i + n] = bus'[i]
    <2>1. n \in Nat /\ k \in Nat /\ i \in Nat /\ i < k /\ k <= Len(bus) - n /\ 1 <= i
      BY <1>1
    <2>2. i \in 1 .. Len(bus') /\ k + n \in 1 .. Len(bus) /\ i + n \in 1 .. (k + n) - 1
      BY <1>1, <2>1
    <2>3. QED BY <1>1, <2>2
  <1>4. ASSUME NEW j \in (i + n) + 1 .. (k + n) - 1
        PROVE  bus[j][1] # a
    <2>1. j - n \in i + 1 .. k - 1 /\ j - n \in 1 .. Len(bus') /\ (j - n) + n = j
      BY <1>1, <1>4
    <2>2. bus'[j - n] = bus[j]
      BY <1>1, <2>1
    <2>3. QED BY <1>2, <2>1, <2>2 DEF NoneBetween
  <1>5. QED BY <1>2, <1>3, <1>4 DEF PolicyAfterControl, NoneBetween

\* The first frame of a motor on the shorter bus was its first, or its second
\* behind the one that has just been taken.
LEMMA TailFirst ==
  ASSUME bus \in Seq(Sendable), bus # <<>>, bus' = Tail(bus), NEW a \in Actuators,
         NEW k \in 1 .. Len(bus'), NoneBetween(a, 0, k)'
  PROVE  /\ k + 1 \in 1 .. Len(bus) /\ bus'[k] = bus[k + 1]
         /\ NoneBetween(a, 1, k + 1)
         /\ Head(bus)[1] # a => NoneBetween(a, 0, k + 1)
  <1>1. /\ Head(bus) = bus[1] /\ Len(bus) \in Nat /\ Len(bus) > 0
        /\ Len(bus') = Len(bus) - 1
        /\ \A i \in 1 .. Len(bus') : bus'[i] = bus[i + 1]
    BY TailIsSuffix, SuffixFacts
  <1>2. ASSUME NEW j \in 2 .. k
        PROVE  bus[j][1] # a
    <2>1. j - 1 \in 1 .. k - 1 /\ j - 1 \in 1 .. Len(bus') /\ (j - 1) + 1 = j
      BY <1>1, <1>2
    <2>2. bus'[j - 1] = bus[j]
      BY <1>1, <2>1
    <2>3. QED BY <2>1, <2>2 DEF NoneBetween
  <1>3. k + 1 \in 1 .. Len(bus) /\ bus'[k] = bus[k + 1]
    BY <1>1
  <1>4. NoneBetween(a, 1, k + 1)
    BY <1>2 DEF NoneBetween
  <1>5. ASSUME Head(bus)[1] # a
        PROVE  NoneBetween(a, 0, k + 1)
    <2>1. ASSUME NEW j \in 1 .. k
          PROVE  bus[j][1] # a
      BY <1>1, <1>2, <1>5, <2>1
    <2>2. QED BY <2>1 DEF NoneBetween
  <1>6. QED BY <1>3, <1>4, <1>5

\* A frame more: to another motor it changes nothing; to the same one the order
\* holds if, being a policy frame, it follows a control frame or finds the motor
\* not limp.
LEMMA EnqueueKeepsTakeover ==
  ASSUME bus \in Seq(Sendable), told \in [Actuators -> Frames],
         NEW a \in Actuators, NEW frame \in Frames \ {"NONE"},
         bus' = Append(bus, <<a, frame>>), told' = [told EXCEPT ![a] = frame],
         UNCHANGED <<motor, deaf>>, frame = "POLICY" => told[a] \in Control,
         NEW b \in Actuators, LastIsTold(b), PolicyAfterControl(b), PolicyNotToLimp(b)
  PROVE  PolicyAfterControl(b)' /\ PolicyNotToLimp(b)'
  <1> DEFINE len == Len(bus)
  <1>1. /\ len \in Nat /\ Len(bus') = len + 1
        /\ bus'[len + 1] = <<a, frame>>
        /\ \A i \in 1 .. len : bus'[i] = bus[i]
    BY DEF Sendable
  <1>2. Limp(b)' = Limp(b)
    BY DEF Limp
  <1>3. \A i \in 0 .. len, k \in 1 .. len + 1 :
          NoneBetween(b, i, k)' <=> NoneBetween(b, i, k)
    <2> SUFFICES ASSUME NEW i \in 0 .. len, NEW k \in 1 .. len + 1
                 PROVE  NoneBetween(b, i, k)' <=> NoneBetween(b, i, k)
      OBVIOUS
    <2>1. \A j \in i + 1 .. k - 1 : j \in 1 .. len
      BY <1>1
    <2>2. QED BY <1>1, <2>1 DEF NoneBetween
  <1>4. PolicyAfterControl(b)'
    <2> SUFFICES ASSUME NEW k \in 1 .. len + 1, NEW i \in 1 .. k - 1,
                        bus'[k][1] = b, bus'[k][2] = "POLICY", bus'[i][1] = b,
                        NoneBetween(b, i, k)
                 PROVE  bus'[i][2] \in Control
      <3>1. \A k \in 1 .. len + 1 : \A i \in 1 .. k - 1 : i \in 0 .. len
        BY <1>1
      <3>2. QED BY <1>1, <1>3, <3>1 DEF PolicyAfterControl
    <2>1. i \in 1 .. len /\ bus'[i] = bus[i]
      BY <1>1
    <2>2. CASE k = len + 1
      <3>1. b = a /\ frame = "POLICY"
        BY <1>1, <2>2
      <3>2. \A j \in i + 1 .. len : bus[j][1] # b
        BY <1>1, <2>2 DEF NoneBetween
      <3>3. bus[i][2] = told[b]
        BY <2>1, <3>2 DEF LastIsTold
      <3>4. QED BY <2>1, <3>1, <3>3
    <2>3. CASE k # len + 1
      <3>1. k \in 1 .. len /\ bus'[k] = bus[k]
        BY <1>1, <2>3
      <3>2. QED BY <2>1, <3>1 DEF PolicyAfterControl
    <2>4. QED BY <2>2, <2>3
  <1>5. ASSUME NEW k \in 1 .. len + 1, bus'[k][1] = b, bus'[k][2] = "POLICY",
               NoneBetween(b, 0, k)
        PROVE  ~Limp(b)
    <2>1. CASE k = len + 1
      <3>1. b = a /\ frame = "POLICY" /\ told[b] \in Control
        BY <1>1, <1>5, <2>1
      <3>2. b \notin Addressed(bus)
        BY <1>1, <1>5, <2>1 DEF NoneBetween, Addressed
      <3>3. QED BY <3>1, <3>2 DEF PolicyNotToLimp
    <2>2. CASE k # len + 1
      <3>1. k \in 1 .. len /\ bus'[k] = bus[k]
        BY <1>1, <2>2
      <3>2. QED BY <1>5, <3>1 DEF PolicyNotToLimp
    <2>3. QED BY <2>1, <2>2
  <1>6. ASSUME b \notin Addressed(bus'), told'[b] \in Control
        PROVE  ~Limp(b)
    <2>1. b # a
      BY <1>1, <1>6 DEF Addressed
    <2>2. b \notin Addressed(bus)
      BY <1>1, <1>6 DEF Addressed
    <2>3. QED BY <1>6, <2>1, <2>2 DEF PolicyNotToLimp
  <1>7. PolicyNotToLimp(b)'
    <2>1. 0 \in 0 .. len
      BY <1>1
    <2>2. QED BY <1>1, <1>2, <1>3, <1>5, <1>6, <2>1 DEF PolicyNotToLimp
  <1>8. QED BY <1>4, <1>7

\* Frames leave the loop for a motor only as what it was told last, and a policy
\* frame only under NORMAL.
LEMMA TakeoverEnqueue ==
  ASSUME SystemInv, TakeoverInv, NEW a \in Actuators, NEW frame \in Frames \ {"NONE"},
         Enqueue(a, frame), told' = [told EXCEPT ![a] = frame],
         frame = "POLICY" => told[a] \in Control
  PROVE  PolicyInOrder'
  <1>1. /\ bus \in Seq(Sendable) /\ told \in [Actuators -> Frames]
        /\ bus' = Append(bus, <<a, frame>>)
        /\ UNCHANGED <<motor, deaf, lost>>
    BY DEF SystemInv, SystemTypeOK, TypeOK, Sendable, Enqueue
  <1>2. SUFFICES ASSUME NEW b \in Actuators \ lost
                 PROVE  PolicyAfterControl(b)' /\ PolicyNotToLimp(b)'
    BY <1>1 DEF PolicyInOrder
  <1>3. LastIsTold(b) /\ PolicyAfterControl(b) /\ PolicyNotToLimp(b)
    BY DEF SystemInv, TakeoverInv, PolicyInOrder
  <1>4. QED BY <1>1, <1>3, EnqueueKeepsTakeover

\* A frame is taken from the bus: by its motor, or by a failed send.
LEMMA TakeoverTail ==
  ASSUME SystemInv, TakeoverInv, bus # <<>>, bus' = Tail(bus), told' = told,
         NEW a \in Actuators \ lost,
         Head(bus)[1] # a => (Limp(a)' <=> Limp(a)),
         Head(bus)[1] = a => (Head(bus)[2] \in Control => ~Limp(a)')
  PROVE  PolicyAfterControl(a)' /\ PolicyNotToLimp(a)'
  <1>1. bus \in Seq(Sendable)
    BY DEF SystemInv, SystemTypeOK, Sendable
  <1>2. PolicyAfterControl(a) /\ PolicyNotToLimp(a) /\ LastIsTold(a)
    BY DEF SystemInv, TakeoverInv, PolicyInOrder
  <1>3. /\ Head(bus) = bus[1] /\ bus' = SubSeq(bus, 1 + 1, Len(bus))
        /\ 1 \in 0 .. Len(bus)
    BY <1>1, TailIsSuffix
  <1>4. PolicyAfterControl(a)'
    BY <1>1, <1>2, <1>3, SuffixKeepsControl
  <1>5. ASSUME NEW k \in 1 .. Len(bus'), bus'[k][1] = a, bus'[k][2] = "POLICY",
               NoneBetween(a, 0, k)'
        PROVE  ~Limp(a)'
    <2>1. /\ k + 1 \in 1 .. Len(bus) /\ bus'[k] = bus[k + 1]
          /\ NoneBetween(a, 1, k + 1)
          /\ Head(bus)[1] # a => NoneBetween(a, 0, k + 1)
      BY <1>1, <1>5, TailFirst
    <2>2. CASE Head(bus)[1] = a
      <3>1. k \in 1 .. Len(bus') /\ Len(bus') \in Nat
        BY <1>1, <1>3, SuffixFacts
      <3>2. 1 \in 1 .. (k + 1) - 1
        BY <3>1
      <3>3. bus[1][2] \in Control
        BY <1>2, <1>3, <1>5, <2>1, <2>2, <3>2 DEF PolicyAfterControl
      <3>4. QED BY <1>3, <2>2, <3>3
    <2>3. CASE Head(bus)[1] # a
      BY <1>2, <1>5, <2>1, <2>3 DEF PolicyNotToLimp
    <2>4. QED BY <2>2, <2>3
  <1>6. ASSUME a \notin Addressed(bus'), told[a] \in Control
        PROVE  ~Limp(a)'
    <2>1. CASE Head(bus)[1] = a
      BY <1>1, <1>2, <1>6, <2>1, TailFacts
    <2>2. CASE Head(bus)[1] # a
      <3>1. a \notin Addressed(bus)
        BY <1>1, <1>6, <2>2, TailFacts
      <3>2. QED BY <1>2, <1>6, <2>2, <3>1 DEF PolicyNotToLimp
    <2>3. QED BY <2>1, <2>2
  <1>7. QED BY <1>4, <1>5, <1>6 DEF PolicyNotToLimp

\* No step but those above touches a frame or a motor in a way that matters.
LEMMA TakeoverQuiet ==
  ASSUME TakeoverInv, UNCHANGED <<told, bus, lost>>,
         \A a \in Actuators : Limp(a)' <=> Limp(a)
  PROVE  PolicyInOrder'
  BY DEF TakeoverInv, PolicyInOrder, PolicyAfterControl, PolicyNotToLimp, NoneBetween, Addressed

\* The tick that enters NORMAL, or stays in it, found every actuator told to hold
\* or to follow.
LEMMA HeldInNormalStep ==
  ASSUME ControllerInv, HeldInNormal, [Next]_vars
  PROVE  HeldInNormal'
  <1>1. TypeOK
    BY DEF ControllerInv
  <1>2. SUFFICES ASSUME pc' = "send", mode' = "NORMAL"
                 PROVE  \A a \in Actuators : told'[a] \in Control
    BY DEF HeldInNormal
  <1>3. CASE BeginTick
    <2>1. pc = "idle" /\ told' = told
      BY <1>3 DEF BeginTick
    <2>2. mode \in {"DAMPING", "NORMAL"}
      <3>1. CASE mode' = mode
        BY <1>2, <3>1
      <3>2. CASE mode' # mode
        BY <1>2, <3>2, ModeChange, FsmUpdateFacts
      <3>3. QED BY <3>1, <3>2
    <2>3. QED
      BY <2>1, <2>2 DEF ControllerInv, FramesFollowMode, FramesAtRest, FrameFor, Control
  <1>4. ASSUME NEW a \in Actuators, SendFrame(a)
        PROVE  \A b \in Actuators : told'[b] \in Control
    <2>1. told' = [told EXCEPT ![a] = "POLICY"] /\ pc = "send" /\ mode = "NORMAL"
      BY <1>2, <1>4 DEF SendFrame, fsmVars, FrameFor
    <2>2. QED BY <1>1, <2>1 DEF HeldInNormal, TypeOK, Control
  <1>5. CASE UNCHANGED <<pc, mode, told>>
    BY <1>2, <1>5 DEF HeldInNormal
  <1>6. QED
    BY <1>2, <1>3, <1>4, <1>5
       DEF Next, Controller, ShutdownSend, EndTick, BeginShutdown, FinishShutdown, SendFails,
           ShutdownSendFails, ImuRequestFails, Publish, StoreChunk, RequestStop, ClockTick,
           Stopped, vars, fsmVars, outputVars

LEMMA TakeoverInit == SystemInit => TakeoverInv
  <1> SUFFICES ASSUME SystemInit PROVE TakeoverInv
    OBVIOUS
  <1>1. HeldInNormal
    BY DEF SystemInit, Init, HeldInNormal
  <1>2. Len(bus) = 0
    BY DEF SystemInit
  <1>3. \A a \in Actuators : ~Limp(a)
    BY DEF SystemInit, MotorReset, Limp
  <1>4. QED BY <1>1, <1>2, <1>3 DEF TakeoverInv, PolicyInOrder, PolicyAfterControl, PolicyNotToLimp

LEMMA PolicyInOrderStep ==
  ASSUME SystemInv, TakeoverInv, [SystemNext]_systemVars
  PROVE  PolicyInOrder'
  <1>1. SystemTypeOK /\ TypeOK /\ ControllerInv /\ bus \in Seq(Sendable)
        /\ motor \in [Actuators -> Motor]
    BY DEF SystemInv, SystemTypeOK, Sendable
  <1>2. CASE UNCHANGED <<told, bus, motor, lost, deaf>>
    <2>1. \A a \in Actuators : Limp(a)' <=> Limp(a)
      BY <1>2 DEF Limp
    <2>2. QED BY <1>2, <2>1, TakeoverQuiet
  <1>3. ASSUME NEW a \in Actuators, SendFrame(a), Enqueue(a, FrameFor(mode))
        PROVE  PolicyInOrder'
    <2>1. FrameFor(mode) \in Frames \ {"NONE"}
      BY DEF FrameFor, Frames
    <2>2. FrameFor(mode) = "POLICY" => told[a] \in Control
      BY <1>1, <1>3 DEF FrameFor, SendFrame, TakeoverInv, HeldInNormal
    <2>3. told' = [told EXCEPT ![a] = FrameFor(mode)]
      BY <1>3 DEF SendFrame
    <2>4. QED BY <1>3, <2>1, <2>2, <2>3, TakeoverEnqueue
  <1>4. ASSUME NEW a \in Actuators, ShutdownSend(a), Enqueue(a, "DISABLE")
        PROVE  PolicyInOrder'
    <2>1. "DISABLE" \in Frames \ {"NONE"} /\ told' = [told EXCEPT ![a] = "DISABLE"]
      BY <1>4 DEF Frames, ShutdownSend
    <2>2. QED BY <1>4, <2>1, TakeoverEnqueue
  <1>5. CASE FinishAndDrop
    <2>1. /\ Len(bus') = 0 /\ UNCHANGED <<told, motor, deaf>>
          /\ lost' = lost \cup Addressed(bus)
      BY <1>5 DEF FinishAndDrop, FinishShutdown
    <2>2. QED
      BY <2>1 DEF TakeoverInv, PolicyInOrder, PolicyAfterControl, PolicyNotToLimp, Limp
  <1>6. ASSUME NEW a \in Actuators, Deliver(a)
        PROVE  PolicyInOrder'
    <2>1. /\ bus # <<>> /\ bus' = Tail(bus) /\ Head(bus)[1] = a /\ UNCHANGED <<told, lost>>
          /\ motor' = [motor EXCEPT ![a] = OnCanFrame(@, Head(bus)[2])]
          /\ deaf' = DeafAfter(a, Head(bus)[2])
      BY <1>6 DEF Deliver, vars, outputVars
    <2>2. Head(bus)[2] \in Frames \ {"NONE"}
      BY <1>1, <2>1, TailIsSuffix
    <2>3. /\ Head(bus)[2] \in Control => ~Limp(a)'
          /\ \A b \in Actuators \ {a} : Limp(b)' = Limp(b)
      BY <1>1, <2>1, <2>2, HeardFacts
    <2>4. ASSUME NEW b \in Actuators \ lost
          PROVE  PolicyAfterControl(b)' /\ PolicyNotToLimp(b)'
      <3>1. /\ Head(bus)[1] # b => (Limp(b)' <=> Limp(b))
            /\ Head(bus)[1] = b => (Head(bus)[2] \in Control => ~Limp(b)')
        BY <2>1, <2>3
      <3>2. QED BY <2>1, <3>1, TakeoverTail
    <2>5. QED BY <2>1, <2>4 DEF PolicyInOrder
  <1>7. CASE Lose
    <2>1. /\ bus # <<>> /\ bus' = Tail(bus) /\ told' = told
          /\ lost' = lost \cup {Head(bus)[1]} /\ UNCHANGED <<motor, deaf>>
      BY <1>7 DEF Lose, vars, outputVars
    <2>2. ASSUME NEW b \in Actuators \ lost'
          PROVE  PolicyAfterControl(b)' /\ PolicyNotToLimp(b)'
      <3>1. b \in Actuators \ lost /\ Head(bus)[1] # b /\ (Limp(b)' <=> Limp(b))
        BY <2>1 DEF Limp
      <3>2. QED BY <2>1, <3>1, TakeoverTail
    <2>3. QED BY <2>2 DEF PolicyInOrder
  <1>8. CASE ResetSimulator
    <2>1. PICK n \in 0 .. Len(bus) : bus' = SubSeq(bus, n + 1, Len(bus))
      BY <1>8 DEF ResetSimulator
    <2>2. \A a \in Actuators : ~Limp(a)'
      BY <1>8 DEF ResetSimulator, MotorReset, Limp
    <2>3. lost' = lost
      BY <1>8 DEF ResetSimulator
    <2>4. \A a \in Actuators \ lost : PolicyAfterControl(a)'
      BY <1>1, <2>1, SuffixKeepsControl DEF TakeoverInv, PolicyInOrder
    <2>5. QED BY <2>2, <2>3, <2>4 DEF PolicyNotToLimp, PolicyInOrder
  <1>9. CASE RunSimulation \/ SetTimeBack
    <2>1. /\ UNCHANGED <<told, bus, lost, deaf>>
          /\ \A a \in Actuators : /\ motor'[a].latched = motor[a].latched
                                  /\ motor'[a].enabled = motor[a].enabled
      BY <1>1, <1>9, SimulatedTimeFacts DEF vars, outputVars
    <2>2. \A a \in Actuators : Limp(a)' <=> Limp(a)
      BY <2>1 DEF Limp
    <2>3. QED BY <2>1, <2>2, TakeoverQuiet
  <1>10. CASE Loop
    <2>1. CASE (BeginTick \/ EndPublishedTick \/ BeginShutdown)
               /\ UNCHANGED <<bus, motor, lost, deaf>>
      <3>1. told' = told
        BY <2>1 DEF BeginTick, EndPublishedTick, EndTick, BeginShutdown
      <3>2. QED BY <1>2, <2>1, <3>1
    <2>2. QED BY <1>3, <1>4, <1>5, <1>10, <2>1 DEF Loop
  <1>11. CASE Environment \/ SystemStopped \/ UNCHANGED systemVars
    <2>1. UNCHANGED <<told, bus, motor, lost, deaf>>
      BY <1>11 DEF Environment, SendFails, ShutdownSendFails, ImuRequestFails, RequestStop,
                   ClockTick, Publish, StoreChunk, SystemStopped, Stopped, systemVars, vars, outputVars
    <2>2. QED BY <1>2, <2>1
  <1>12. QED BY <1>6, <1>7, <1>8, <1>9, <1>10, <1>11 DEF SystemNext

LEMMA TakeoverStep == SystemInv /\ TakeoverInv /\ [SystemNext]_systemVars => TakeoverInv'
  <1> SUFFICES ASSUME SystemInv, TakeoverInv, [SystemNext]_systemVars
               PROVE  TakeoverInv'
    OBVIOUS
  <1>1. [Next]_vars
    BY SystemStepIsControllerStep DEF systemVars
  <1>2. HeldInNormal'
    BY <1>1, HeldInNormalStep DEF TakeoverInv, SystemInv
  <1>3. QED BY <1>2, PolicyInOrderStep DEF TakeoverInv

\* The policy takes over no limp motor, whatever the hold of a zero-set, the
\* enabling period and the number of frames under way, unless the hold made the
\* motor ignore the damping frames before.
THEOREM PolicyFindsHoldingMotors == SystemSpec => PolicyTakesOverFromDamping
  <1>1. SystemSpec => []TakeoverInv
    BY TakeoverStep, TakeoverInit, SystemInvariant, PTL DEF SystemSpec
  <1>2. ASSUME SystemInv, TakeoverInv, [SystemNext]_systemVars,
               NEW a \in Actuators \ lost,
               motor[a].latched # "POLICY", motor'[a].latched = "POLICY"
        PROVE  motor[a].latched = "DAMPING" \/ a \in deaf
    <2>1. SystemTypeOK /\ bus \in Seq(Sendable) /\ motor \in [Actuators -> Motor]
      BY <1>2 DEF SystemInv, SystemTypeOK, Sendable
    <2>2. PICK b \in Actuators : Deliver(b)
      <3>1. CASE ResetSimulator
        BY <1>2, <3>1 DEF ResetSimulator, MotorReset
      <3>2. CASE RunSimulation \/ SetTimeBack
        BY <1>2, <2>1, <3>2, SimulatedTimeFacts
      <3>3. CASE motor' = motor
        BY <1>2, <3>3
      <3>4. QED
        BY <1>2, <3>1, <3>2, <3>3
           DEF SystemNext, Loop, Enqueue, FinishAndDrop, Environment, SystemStopped, Lose,
               systemVars
    <2>3. /\ bus # <<>> /\ Head(bus)[1] = b
          /\ motor' = [motor EXCEPT ![b] = OnCanFrame(@, Head(bus)[2])]
          /\ deaf' = DeafAfter(b, Head(bus)[2])
      BY <2>2 DEF Deliver
    <2>4. b = a
      BY <1>2, <2>1, <2>3
    <2>5. Head(bus)[2] \in Frames \ {"NONE"} /\ Head(bus) = bus[1]
      BY <2>1, <2>3, TailIsSuffix
    <2>6. Head(bus)[2] = "POLICY" /\ motor[a].enabled
      BY <1>2, <2>1, <2>3, <2>4, <2>5, HeardFacts
    <2>7. 1 \in 1 .. Len(bus) /\ NoneBetween(a, 0, 1)
      BY <2>1, <2>3 DEF NoneBetween
    <2>8. ~Limp(a)
      BY <1>2, <2>3, <2>4, <2>5, <2>6, <2>7 DEF TakeoverInv, PolicyInOrder, PolicyNotToLimp
    <2>9. QED BY <1>2, <2>6, <2>8 DEF Limp, Control
  <1>3. SystemInv /\ TakeoverInv /\ [SystemNext]_systemVars
          => [\A a \in Actuators \ lost :
                motor[a].latched # "POLICY" /\ motor'[a].latched = "POLICY"
                  => motor[a].latched = "DAMPING" \/ a \in deaf]_systemVars
    BY <1>2
  <1>4. QED BY <1>1, <1>3, SystemInvariant, PTL DEF SystemSpec, PolicyTakesOverFromDamping
=============================================================================
