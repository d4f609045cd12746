---------------------------- MODULE MotorSystem ----------------------------
(***************************************************************************)
(* The control loop with the motors at the other end of the bus.  Frames   *)
(* arrive in the order they were sent, each of them after a while or not   *)
(* at all; the simulator may be reset at any time.                         *)
(*                                                                         *)
(* Time: the controller's clock advances whenever it may, whatever is      *)
(* under way; the simulated time that ends a hold is another one, and      *)
(* nothing relates the two.                                                *)
(***************************************************************************)
EXTENDS RobotController, MotorFirmware, Sequences

CONSTANTS
  QueueSize   \* frames under way: the queue of the daemon and the bus

ASSUME MotorSystemAssumption == QueueSize \in Nat \ {0}

VARIABLES
  bus,     \* frames on their way: <<actuator, frame>>
  motor,   \* per actuator: its firmware
  lost,    \* actuators a frame of which did not arrive
  deaf     \* motors whose last frame fell into the hold after a zero-set

systemVars == <<vars, bus, motor, lost, deaf>>

SystemTypeOK ==
  /\ TypeOK
  /\ bus \in Seq(Actuators \X (Frames \ {"NONE"})) /\ Len(bus) <= QueueSize
  /\ motor \in [Actuators -> Motor]
  /\ lost \subseteq Actuators /\ deaf \subseteq Actuators

SystemInit ==
  /\ Init
  /\ bus = <<>>
  /\ motor = [a \in Actuators |-> MotorReset]
  /\ lost = {} /\ deaf = {}

Addressed(frames) == {frames[i][1] : i \in 1 .. Len(frames)}
-----------------------------------------------------------------------------
Enqueue(a, frame) ==
  /\ Len(bus) < QueueSize
  /\ bus' = Append(bus, <<a, frame>>)
  /\ UNCHANGED <<motor, lost, deaf>>

\* stop_all ends the CAN daemon, and what it has not sent is not sent.
FinishAndDrop ==
  /\ FinishShutdown
  /\ lost' = lost \cup Addressed(bus)
  /\ bus' = <<>>
  /\ UNCHANGED <<motor, deaf>>

\* A reduction: the state is published in every tick.  No property of this module
\* reads it, and RobotController leaves the throttling open.
EndPublishedTick ==
  EndTick /\ published' = [mode |-> mode, source |-> FrameFor(mode)]

Loop ==
  \/ /\ BeginTick \/ EndPublishedTick \/ BeginShutdown
     /\ UNCHANGED <<bus, motor, lost, deaf>>
  \/ \E a \in Actuators :
       \/ SendFrame(a) /\ Enqueue(a, FrameFor(mode))
       \/ ShutdownSend(a) /\ Enqueue(a, "DISABLE")
  \/ FinishAndDrop

Environment ==
  /\ \/ SendFails \/ ShutdownSendFails \/ ImuRequestFails \/ RequestStop \/ ClockTick
     \/ \E body \in Commands : Publish(body)
     \/ \E chunk \in Chunks : StoreChunk(chunk)
  /\ UNCHANGED <<bus, motor, lost, deaf>>

\* The control frames that a hold makes a motor ignore; a zero-set ends nothing.
DeafAfter(a, frame) ==
  IF Discards(motor[a], frame) THEN deaf \cup {a}
  ELSE IF frame = "ZERO_SET" THEN deaf ELSE deaf \ {a}

Deliver_Newest(a) ==
  /\ bus # <<>> /\ bus[Len(bus)][1] = a
  /\ motor' = [motor EXCEPT ![a] = OnCanFrame(@, bus[Len(bus)][2])]
  /\ deaf' = DeafAfter(a, bus[Len(bus)][2])
  /\ bus' = SubSeq(bus, 1, Len(bus) - 1)
  /\ UNCHANGED <<vars, lost>>

\* process_host_frames: the oldest frame goes to the device that accepts it.
Deliver(a) ==
  /\ bus # <<>> /\ Head(bus)[1] = a
  /\ motor' = [motor EXCEPT ![a] = OnCanFrame(@, Head(bus)[2])]
  /\ deaf' = DeafAfter(a, Head(bus)[2])
  /\ bus' = Tail(bus)
  /\ UNCHANGED <<vars, lost>>

\* The send on the socket raises: logged by the tx thread, no retry.
Lose ==
  /\ bus # <<>>
  /\ lost' = lost \cup {Head(bus)[1]}
  /\ bus' = Tail(bus)
  /\ UNCHANGED <<vars, motor, deaf>>

\* A model is loaded (reset_model): the motors forget everything, and the oldest frames, those the
\* bridge has received already, are cleared.
ResetSimulator ==
  /\ motor' = [a \in Actuators |-> MotorReset]
  /\ deaf' = {}
  /\ \E n \in 0 .. Len(bus) : bus' = SubSeq(bus, n + 1, Len(bus))
  /\ UNCHANGED <<vars, lost>>

\* The simulation runs on, and the holds of some motors end.
RunSimulation ==
  /\ \E ended \in SUBSET Actuators :
       motor' = [a \in Actuators |->
                  IF a \in ended THEN HoldEnds(motor[a]) ELSE motor[a]]
  /\ UNCHANGED <<vars, bus, lost, deaf>>

\* Reset, a key frame or the history sets the simulated time back, without
\* reset_model: of the motors once zeroed, some are in their hold again.
SetTimeBack ==
  /\ \E held \in SUBSET Actuators :
       motor' = [a \in Actuators |->
                  IF a \in held THEN HoldReturns(motor[a]) ELSE motor[a]]
  /\ UNCHANGED <<vars, bus, lost, deaf>>

SystemStopped == Stopped /\ UNCHANGED <<bus, motor, lost, deaf>>

SystemNext ==
  \/ Loop \/ Environment \/ SystemStopped
  \/ Lose \/ RunSimulation \/ SetTimeBack \/ ResetSimulator
  \/ \E a \in Actuators : Deliver(a)

\* The loop goes on; of the frames a motor is sent again and again one arrives
\* sooner or later.
SystemFairness ==
  /\ WF_systemVars(Loop)
  /\ \A a \in Actuators : SF_systemVars(Deliver(a))

SystemSpec == SystemInit /\ [][SystemNext]_systemVars
FairSystemSpec == SystemSpec /\ SystemFairness
-----------------------------------------------------------------------------
Settled(a) == a \notin Addressed(bus) /\ a \notin lost

\* A motor that was told to disable, and has been reached, applies no torque,
\* in ESTOP as at the end of a tick in DISABLED: nothing that was under way at
\* the time, delayed zero-set hold or reset included, brings it back.
DisabledMotorsAreOff ==
  \A a \in Actuators :
    Settled(a) /\ told[a] = "DISABLE" => ~AppliesTorque(motor[a])

\* Why: the last frame under way to a motor is the last one it was told, and
\* so what the motor will have heard when it is settled.
LastIsTold(a) ==
  \A i \in 1 .. Len(bus) :
    bus[i][1] = a /\ (\A j \in i + 1 .. Len(bus) : bus[j][1] # a)
      => bus[i][2] = told[a]

SystemInv ==
  /\ SystemTypeOK
  /\ ControllerInv
  /\ \A a \in Actuators \ lost : LastIsTold(a)
  /\ DisabledMotorsAreOff

\* A motor follows the policy only from holding: it is never driven out of
\* zero torque, whatever zero-sets, re-arming and resets came before, as long
\* as its frames arrive, unless the hold of a zero-set made it ignore the damping
\* frames (the simulator was paused meanwhile, or set back, or RUN was commanded
\* within the hold: zero-set, enable and run are enough).
PolicyTakesOverFromDamping ==
  [][\A a \in Actuators \ lost :
       motor[a].latched # "POLICY" /\ motor'[a].latched = "POLICY"
         => motor[a].latched = "DAMPING" \/ a \in deaf]_systemVars

\* An ESTOP ends the torque of every motor, though single frames are lost.
EstopStopsMotors ==
  mode = "ESTOP" ~>
    (pc = "stopped" \/ \A a \in Actuators : ~AppliesTorque(motor[a]))
=============================================================================
