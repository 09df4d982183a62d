----------------------------- MODULE CoreSystem -----------------------------
(***************************************************************************)
(* Core as harness/src/core.ts wires it: ModeManager, the builtin skills   *)
(* _pir-wake and _idle-sleep, the default space, the broker that carries   *)
(* mode commands, the dashboard, and the basic Brain (brain-basic.ts) at   *)
(* the other end of the MCP pipe.  All of them change the mode, and their  *)
(* messages to each other take time.                                       *)
(*                                                                         *)
(* The modules' handlers of one message run in one step, in the order they *)
(* were registered: a motion report goes to ModeManager, to the Brain as a *)
(* notification, and to the skills.                                        *)
(***************************************************************************)
EXTENDS ModeManager, Sequences

CONSTANTS
  SleepEvery,   \* trigger.everyMs of _idle-sleep, in units of time
  Behaviors,    \* behavioral modes the Brain switches to
  MaxMessages   \* bound: messages waiting on each way

DefaultBehavior == "default"

ASSUME CoreAssumption ==
  /\ SleepEvery \in Nat \ {0}
  /\ MaxMessages \in Nat \ {0}
  /\ Behaviors \cap (Modes \cup {DefaultBehavior}) = {}

VARIABLES
  commands,    \* mode_set messages the broker has for Core
  toBrain,     \* notifications the Brain has not handled
  calls,       \* modes of the set_mode calls Core has not handled
  isAccumulating,  \* Core's AudioAccumulator holds audio
  behavior,    \* activeMode of the default space
  sleepTimer,  \* units until the interval of _idle-sleep ticks
  cause,       \* history: what asked for a mode in the last step
  switched     \* history: the Brain chose the behavior since the last mode change

brainVars == <<toBrain, calls>>
vars == <<modeVars, commands, isAccumulating, brainVars, behavior, sleepTimer, cause, switched>>

\* What may arrive on xentient/control/mode.
Messages == Modes \cup {InvalidMode}

Notifications == {"motion_detected", "voice_start", "voice_end"}

\* What the Brain asks for on each of them.
Asked(n) == IF n = "voice_start" THEN "active" ELSE "listen"

Init ==
  /\ ModeInit
  /\ commands = <<>> /\ toBrain = <<>> /\ calls = <<>>
  /\ isAccumulating = FALSE
  /\ behavior = DefaultBehavior
  /\ sleepTimer = SleepEvery
  /\ cause = "start"
  /\ switched = TRUE

Room(queue) == Len(queue) < MaxMessages

\* Mutant: only a transition is announced, an override is not.
MutantModeChanged(announced) ==
  /\ behavior' = IF mode' # mode /\ ~announced THEN mode' ELSE behavior
  /\ switched' = (switched /\ mode' = mode)

\* The listener of modeChange in core.ts writes the mode over the behavior of
\* the default space.  forceSet announces the mode even if it is the same.
ModeChanged(announced) ==
  /\ behavior' = IF mode' # mode \/ announced THEN mode' ELSE behavior
  /\ switched' = (switched /\ mode' = mode /\ ~announced)

-----------------------------------------------------------------------------
\* MQTT.

\* Another program publishes on xentient/control/mode, a mode_set or something
\* that validateMessage refuses.
Publish(m) ==
  /\ running /\ Room(commands)
  /\ commands' = Append(commands, m)
  /\ cause' = "other"
  /\ UNCHANGED <<isAccumulating, modeVars, brainVars, behavior, sleepTimer, switched>>

\* mqtt.on("modeCommand")
ModeCommand ==
  /\ commands # <<>>
  /\ commands' = Tail(commands)
  /\ HandleModeCommand(Head(commands))
  /\ ModeChanged(FALSE)
  /\ cause' = "command"
  /\ UNCHANGED <<isAccumulating, brainVars, sleepTimer>>

\* Mutant: without _pir-wake.
MutantPirReport(motion) ==
  /\ Room(toBrain)
  /\ HandleSensorEvent("PIR")
  /\ toBrain' = IF motion THEN Append(toBrain, "motion_detected") ELSE toBrain
  /\ ModeChanged(FALSE)
  /\ cause' = "pir"
  /\ UNCHANGED <<isAccumulating, commands, calls, sleepTimer>>

\* mqtt.on("sensor"), a PIR report: handleSensorEvent, whatever the motion
\* flag says; with motion also the notification and the skill event, on which
\* _pir-wake sets listen.  From sleep the first has done that already.
PirReport(motion) ==
  /\ Room(toBrain)
  /\ IF motion THEN SetMode("listen") ELSE HandleSensorEvent("PIR")
  /\ toBrain' = IF motion THEN Append(toBrain, "motion_detected") ELSE toBrain
  /\ ModeChanged(FALSE)
  /\ cause' = "pir"
  /\ UNCHANGED <<isAccumulating, commands, calls, sleepTimer>>

\* An audio chunk in listen or active is accumulated.
AudioChunk ==
  /\ running /\ mode \in {"listen", "active"}
  /\ isAccumulating' = TRUE
  /\ cause' = "other"
  /\ UNCHANGED <<modeVars, commands, brainVars, behavior, sleepTimer, switched>>

\* The end trigger of an utterance, or the cap of the accumulator: the audio
\* goes to the Brain, whatever the mode is by now.  VoicePath has the details.
VoiceEnd ==
  /\ running /\ isAccumulating /\ Room(toBrain)
  /\ isAccumulating' = FALSE
  /\ toBrain' = Append(toBrain, "voice_end")
  /\ cause' = "other"
  /\ UNCHANGED <<modeVars, commands, calls, behavior, sleepTimer, switched>>

\* A trigger with source voice and stage "start" becomes a voice_start.  The
\* firmware and the dashboard send none (the firmware's start has no stage):
\* it takes another program on the broker.
VoiceStart ==
  /\ running /\ Room(toBrain)
  /\ toBrain' = Append(toBrain, "voice_start")
  /\ cause' = "other"
  /\ UNCHANGED <<isAccumulating, modeVars, commands, calls, behavior, sleepTimer, switched>>

-----------------------------------------------------------------------------
\* The dashboard.

\* POST /api/mode: publishes the mode_set, which comes back to Core, and
\* forces the mode.
WebPost(m) ==
  /\ Room(commands)
  /\ commands' = Append(commands, m)
  /\ WebOverride(m)
  /\ ModeChanged(TRUE)
  /\ cause' = "web"
  /\ UNCHANGED <<isAccumulating, brainVars, sleepTimer>>

-----------------------------------------------------------------------------
\* The Brain.

\* The notification handler.  At the end of an utterance listen is asked for
\* at once, without waiting for the turn.
HandleNotification ==
  /\ toBrain # <<>> /\ Room(calls)
  /\ toBrain' = Tail(toBrain)
  /\ calls' = Append(calls, Asked(Head(toBrain)))
  /\ cause' = "other"
  /\ UNCHANGED <<isAccumulating, modeVars, commands, behavior, sleepTimer, switched>>

\* Core handles xentient_set_mode.
SetModeCall ==
  /\ calls # <<>>
  /\ calls' = Tail(calls)
  /\ SetMode(Head(calls))
  /\ ModeChanged(FALSE)
  /\ cause' = "call"
  /\ UNCHANGED <<isAccumulating, commands, toBrain, sleepTimer>>

\* Core handles xentient_switch_mode for the default space.
SwitchModeCall(b) ==
  /\ running
  /\ behavior' = b
  /\ switched' = TRUE
  /\ cause' = "other"
  /\ UNCHANGED <<isAccumulating, modeVars, commands, brainVars, sleepTimer>>

-----------------------------------------------------------------------------
\* Timers and the process.

\* Mutant: _idle-sleep leaves a mode without a timeout alone.
MutantIdleSleepTick ==
  /\ running /\ sleepTimer = 0
  /\ sleepTimer' = SleepEvery
  /\ IF mode = "record" THEN UNCHANGED modeVars ELSE SetMode("sleep")
  /\ ModeChanged(FALSE)
  /\ cause' = "other"
  /\ UNCHANGED <<isAccumulating, commands, brainVars>>

\* The interval of the builtin _idle-sleep: set_mode sleep, unconditionally.
IdleSleepTick ==
  /\ running /\ sleepTimer = 0
  /\ sleepTimer' = SleepEvery
  /\ SetMode("sleep")
  /\ ModeChanged(FALSE)
  /\ cause' = "other"
  /\ UNCHANGED <<isAccumulating, commands, brainVars>>

\* ModeManager's own timer.
IdleTimer ==
  /\ IdleTimeout
  /\ ModeChanged(FALSE)
  /\ cause' = "other"
  /\ UNCHANGED <<isAccumulating, commands, brainVars, sleepTimer>>

\* A unit of time passes, when nothing is due.
TimePasses ==
  /\ running => sleepTimer # 0
  /\ Tick
  /\ sleepTimer' = IF running THEN sleepTimer - 1 ELSE sleepTimer
  /\ cause' = "other"
  /\ UNCHANGED <<isAccumulating, commands, brainVars, behavior, switched>>

\* Core ends.  Its pipe to the Brain and its session with the broker go too.
StopCore ==
  /\ Stop
  /\ commands' = <<>> /\ toBrain' = <<>> /\ calls' = <<>>
  /\ isAccumulating' = FALSE
  /\ cause' = "other"
  /\ UNCHANGED <<behavior, sleepTimer, switched>>

\* A new Brain starts a new Core.
StartCore ==
  /\ Start
  /\ behavior' = DefaultBehavior
  /\ sleepTimer' = SleepEvery
  /\ switched' = TRUE
  /\ cause' = "start"
  /\ UNCHANGED <<commands, isAccumulating, brainVars>>

\* What comes from outside.
Outside ==
  \/ \E m \in Messages : Publish(m)
  \/ \E motion \in BOOLEAN : PirReport(motion)
  \/ AudioChunk \/ VoiceStart \/ VoiceEnd
  \/ \E m \in WebOverrides : WebPost(m)
  \/ StopCore

Next ==
  \/ Outside
  \/ ModeCommand \/ HandleNotification \/ SetModeCall
  \/ \E b \in Behaviors : SwitchModeCall(b)
  \/ IdleSleepTick \/ IdleTimer \/ TimePasses \/ StartCore

Spec == Init /\ [][Next]_vars

\* Both event loops run, timers fire, time goes on and Core is started again.
Fairness ==
  /\ WF_vars(ModeCommand) /\ WF_vars(HandleNotification) /\ WF_vars(SetModeCall)
  /\ WF_vars(IdleSleepTick) /\ WF_vars(IdleTimer) /\ SF_vars(TimePasses)
  /\ WF_vars(StartCore)

FairSpec == Spec /\ Fairness

-----------------------------------------------------------------------------
Causes == {"start", "command", "pir", "web", "call", "other"}

\* Type invariant.
TypeOK ==
  /\ ModeTypeOK
  /\ commands \in Seq(Messages)
  /\ toBrain \in Seq(Notifications)
  /\ calls \in Seq({"listen", "active"})
  /\ isAccumulating \in BOOLEAN
  /\ behavior \in Modes \cup Behaviors \cup {DefaultBehavior}
  /\ sleepTimer \in 0..SleepEvery
  /\ cause \in Causes
  /\ switched \in BOOLEAN

\* The default space has the mode as its behavior, unless the Brain chose
\* another since the mode was last set: no way of changing the mode bypasses
\* the listener that keeps the two in sync.
SpaceFollowsMode == ~switched => behavior = mode

\* Motion leaves the node in listen, whatever mode it was in, with ModeManager,
\* _pir-wake and the transition table each having a say.
MotionListens ==
  [][(cause' = "pir" /\ Len(toBrain') > Len(toBrain)) => mode' = "listen"]_vars

\* When nothing comes from outside any more, Core ends in sleep and stays
\* there: the late commands, the notifications, the answers of the Brain and
\* the timers run out, and none of them wakes it up for good.
SettlesAsleep ==
  <>[][~Outside]_vars => <>[](mode = "sleep")
=============================================================================
