SPECIFICATION Spec
CONSTANTS
  SpaceIds = {default, study}
  DefaultSpace = default
  Skills = {greet, chime}
  Modes = {normal, student}
  DefaultMode = normal
  Capacity = 2
  Executors = {e1, e2, e3}
  MaxConflicts = 2
  MaxFirings = 3
  None = None
SYMMETRY ExecutorSymmetry
INVARIANTS SpacesRun LogIsRecent
 
CHECK_DEADLOCK FALSE
