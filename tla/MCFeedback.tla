---------------------------- MODULE MCFeedback ----------------------------
(* Instances of Feedback for TLC.  The channels of the IMU are handled alike, *)
(* as are the requests acknowledged with their bytes: one stands for all.     *)
(* ProtocolChecks is extended for its assumptions, which TLC evaluates first. *)
EXTENDS Feedback, ProtocolChecks

MCImu == {"gyro"}
MCAcked == {"enter"}
=============================================================================
