SPECIFICATION ServerFairSpec
CONSTANTS
  Sockets = {s1, s2, s3}
  None = None
INVARIANTS ActiveNotEnded SingleNodeUntilError
PROPERTIES ReconnectsUnlessSilent
