SPECIFICATION Spec
CONSTANTS
  idleSleep = idleSleep
  reminder = reminder
  tooHot = tooHot
  sounds = sounds
  default = default
  student = student
  None = None
  greet = greet
  alarm = alarm
  listenUp = listenUp
  motion = motion
  voice = voice
  EventOf <- MCEventOf
  Events = {motion, voice}
  TriggerOf <- MCTriggerOf
  GroupOf <- MCGroupOf
  PriorityOf <- MCPriorityOf
  DefaultMode = default
  Modes = {default}
  Skills = {idleSleep, tooHot, greet, alarm, listenUp}
  Builtins = {idleSleep}
  Groups = {sounds}
  Cooling = {tooHot}
  Escalating = {}
  Objects = {o1, o2, o3, o4, o5}
  Timers = {t1, t2}
SYMMETRY ObjectSymmetry
INVARIANTS LoneConflictAnswerable HandleStopsTimer  RivalsOfOneEvent
PROPERTIES FiresWhatIsEnabled
CHECK_DEADLOCK FALSE
