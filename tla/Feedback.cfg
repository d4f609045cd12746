\* Frames are lost and delayed, the rx thread may end at any time.
SPECIFICATION FairSpec
CONSTANTS
  Imu <- MCImu
  Acked <- MCAcked
  Timeout = 0
  Window = 1
  MaxSamples = 2
  MaxReplies = 1
INVARIANT
  TypeOK
PROPERTIES
  OnlineMatchesAge
  FeedbackInOrder
  SilenceShown
