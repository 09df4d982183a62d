SPECIFICATION FairSpec
CONSTANTS
  Sockets = {s1, s2, s3}
  MAX_DASHBOARD_CLIENTS = 2
  Frames = {f1, f2}
  IdleTimeout = 2
  None = None
INVARIANTS DashboardsCurrent OnlineIffRecent
PROPERTIES TurnedAwayOnlyIfFull OfflineInTheEnd
