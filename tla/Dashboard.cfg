SPECIFICATION FairSpec
CONSTANTS
  MaxRestarts = 2
  Cores = {c1, c2}
  None = None
  Pages = {p1}
  Conns = {s1, s2}
  Modes = {sleep, listen}
  Asleep = sleep
  MaxMessages = 2
INVARIANTS PagesCurrent BrokerCatchesUp StreamsAreClients
PROPERTIES StartsUp
