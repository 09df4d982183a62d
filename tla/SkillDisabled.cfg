SPECIFICATION Spec
CONSTANTS
  idleSleep = idleSleep
  reminder = reminder
  tooHot = tooHot
  sounds = sounds
  default = default
  student = student
  None = None
  greet = greet
  alarm = alarm
  listenUp = listenUp
  motion = motion
  voice = voice
  EventOf <- MCEventOf
  Events = {}
  TriggerOf <- MCTriggerOf
  GroupOf <- MCGroupOf
  PriorityOf <- MCPriorityOf
  DefaultMode = default
  Modes = {default, student}
  Skills = {idleSleep, tooHot, reminder}
  Builtins = {idleSleep}
  Groups = {}
  Cooling = {reminder, tooHot}
  Escalating = {reminder}
  Objects = {o1, o2, o3, o4, o5}
  Timers = {}
PROPERTY DisabledIsSilent
CHECK_DEADLOCK FALSE
