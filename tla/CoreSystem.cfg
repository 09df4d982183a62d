SPECIFICATION FairSpec
CONSTANTS
  ListenIdle = 2
  ActiveIdle = 3
  WebOverrides <- MCAllModes
  MaxAge = 3
  SleepEvery = 2
  Behaviors = {"student"}
  MaxMessages = 1
INVARIANTS IdleDeadline HardwareFollowsMode SpaceFollowsMode
PROPERTIES IdleTimeoutDemotes TableOrOverride MotionListens SettlesAsleep
