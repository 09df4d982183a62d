-------------------------- MODULE CoreSystemProofs --------------------------
(***************************************************************************)
(* Proofs about the mode.  The first part is about ModeManager alone: the  *)
(* mode state machine keeps its invariants and its action properties for   *)
(* every choice of the timeouts and of the modes the dashboard may force.  *)
(* The second is about the composition of Core: every step of it is a step *)
(* of ModeManager, so what the first part proves holds of the composition; *)
(* its own invariants hold for every timeout, interval and set of          *)
(* behaviors.                                                              *)
(***************************************************************************)
EXTENDS CoreSystem, SequenceTheorems, TLAPS

-----------------------------------------------------------------------------
\* ModeManager.

\* The inductive invariant: the invariants of the runs, and that a stopped
\* Core has no timer, without which Start could not establish IdleDeadline.
ModeIInv ==
  /\ ModeTypeOK
  /\ IdleDeadline
  /\ HardwareFollowsMode
  /\ ~running => idleTimer = NoTimer

LEMMA IdleTimeoutsType ==
  /\ IDLE_TIMEOUTS["sleep"] = NoTimer
  /\ IDLE_TIMEOUTS["record"] = NoTimer
  /\ IDLE_TIMEOUTS["listen"] = ListenIdle
  /\ IDLE_TIMEOUTS["active"] = ActiveIdle
  /\ \A m \in Modes : MODE_TRANSITIONS[m] \subseteq Modes
BY DEF IDLE_TIMEOUTS, MODE_TRANSITIONS, Modes

\* Setting any mode re-establishes the deadline: the common part of
\* transition and forceSet.
LEMMA EnterArms ==
  ASSUME NEW to \in Modes, Enter(to)
  PROVE  /\ mode' \in Modes /\ status' = to /\ age' = 0 /\ mode' = to
         /\ idleTimer' \in Nat \cup {NoTimer}
         /\ IF IDLE_TIMEOUTS[mode'] = NoTimer
            THEN idleTimer' = NoTimer
            ELSE idleTimer' >= 0 /\ idleTimer' + age' = IDLE_TIMEOUTS[mode']
BY IdleTimeoutsType, IdleAssumption DEF Enter, Modes, NoTimer

LEMMA TransitionKeepsInv ==
  ASSUME NEW to \in Modes, ModeIInv, running, transition(to)
  PROVE  ModeIInv'
<1>1. CASE to \in MODE_TRANSITIONS[mode]
  <2>1. Enter(to) /\ hw' = to /\ bypassed' = FALSE /\ running' = running
    BY <1>1 DEF transition
  <2>e. /\ mode' \in Modes /\ status' \in Modes /\ age' \in 0..MaxAge
        /\ idleTimer' \in Nat \cup {NoTimer} /\ hw' \in Modes
    BY <2>1, EnterArms, IdleAssumption
  <2>2. ModeTypeOK'
    BY <2>e, <2>1 DEF ModeIInv, ModeTypeOK
  <2>5. IdleDeadline'
    BY <2>1, EnterArms DEF IdleDeadline, IDLE_TIMEOUTS
  <2>3. HardwareFollowsMode'
    BY <2>1 DEF Enter, HardwareFollowsMode
  <2>4. QED BY <2>1, <2>2, <2>3, <2>5 DEF ModeIInv
<1>2. CASE to \notin MODE_TRANSITIONS[mode]
  BY <1>2 DEF transition, modeVars, ModeIInv, ModeTypeOK, IdleDeadline,
              HardwareFollowsMode
<1> QED BY <1>1, <1>2

LEMMA ModeStepKeepsInv == ModeIInv /\ [ModeNext]_modeVars => ModeIInv'
<1> SUFFICES ASSUME ModeIInv, [ModeNext]_modeVars PROVE ModeIInv'
  OBVIOUS
<1>u. CASE UNCHANGED modeVars
  BY <1>u DEF modeVars, ModeIInv, ModeTypeOK, IdleDeadline, HardwareFollowsMode
<1>1. ASSUME NEW data \in Modes \cup {InvalidMode}, HandleModeCommand(data)
      PROVE  ModeIInv'
  <2>1. CASE data = InvalidMode
    BY <1>1, <2>1, <1>u DEF HandleModeCommand
  <2>2. CASE data # InvalidMode
    BY <1>1, <2>2, TransitionKeepsInv DEF HandleModeCommand
  <2> QED BY <2>1, <2>2
<1>2. ASSUME NEW m \in Modes, SetMode(m) PROVE ModeIInv'
  BY <1>2, TransitionKeepsInv DEF SetMode
<1>3. ASSUME NEW p \in {"PIR", "BME280"}, HandleSensorEvent(p) PROVE ModeIInv'
  <2>1. "listen" \in Modes
    BY DEF Modes
  <2> QED BY <1>3, <1>u, <2>1, TransitionKeepsInv DEF HandleSensorEvent
<1>4. ASSUME NEW m \in WebOverrides, WebOverride(m) PROVE ModeIInv'
  <2>1. m \in Modes /\ Enter(m) /\ bypassed' = TRUE /\ UNCHANGED <<running, hw>>
    BY <1>4, IdleAssumption DEF WebOverride, forceSet
  <2> QED
    BY <1>4, <2>1, EnterArms, IdleAssumption
    DEF WebOverride, ModeIInv, ModeTypeOK, IdleDeadline, HardwareFollowsMode,
        IDLE_TIMEOUTS
<1>5. CASE Stop
  BY <1>5 DEF Stop, ModeIInv, ModeTypeOK, IdleDeadline, HardwareFollowsMode
<1>6. CASE Start
  BY <1>6, IdleTimeoutsType, IdleAssumption
  DEF Start, ModeIInv, ModeTypeOK, IdleDeadline, HardwareFollowsMode, Modes,
      IDLE_TIMEOUTS
<1>7. CASE IdleTimeout
  <2>1. IdleTarget \in Modes
    BY DEF IdleTarget, Modes
  <2>2. mode \in {"listen", "active"}
    BY <1>7, IdleTimeoutsType
    DEF IdleTimeout, ModeIInv, ModeTypeOK, IdleDeadline, NoTimer, Modes
  <2>3. IdleTarget \in MODE_TRANSITIONS[mode]
    BY <2>2 DEF IdleTarget, MODE_TRANSITIONS, Modes
  <2> QED BY <1>7, <2>1, <2>3, TransitionKeepsInv DEF IdleTimeout
<1>8. CASE Tick
  <2>1. CASE idleTimer = NoTimer
    BY <1>8, <2>1, IdleTimeoutsType, IdleAssumption
    DEF Tick, ModeIInv, ModeTypeOK, IdleDeadline, HardwareFollowsMode, NoTimer
  <2>2. CASE idleTimer # NoTimer
    <3>1. mode \in {"listen", "active"} /\ running /\ idleTimer \in Nat \ {0}
      BY <1>8, <2>2, IdleTimeoutsType
      DEF Tick, ModeIInv, ModeTypeOK, IdleDeadline, Modes
    <3>2. IDLE_TIMEOUTS[mode] # NoTimer /\ IDLE_TIMEOUTS[mode] \in Nat
          /\ IDLE_TIMEOUTS[mode] <= MaxAge
      BY <3>1, IdleTimeoutsType, IdleAssumption DEF NoTimer
    <3>3. age < MaxAge
      BY <3>1, <3>2, IdleAssumption DEF ModeIInv, ModeTypeOK, IdleDeadline
    <3>4. idleTimer' = idleTimer - 1 /\ age' = age + 1
          /\ UNCHANGED <<running, mode, hw, status, bypassed>>
      BY <1>8, <2>2, <3>3 DEF Tick
    <3> QED
      BY <3>1, <3>2, <3>3, <3>4, IdleAssumption
      DEF ModeIInv, ModeTypeOK, IdleDeadline, HardwareFollowsMode, NoTimer,
          IDLE_TIMEOUTS
  <2> QED BY <2>1, <2>2
<1> QED
  BY <1>u, <1>1, <1>2, <1>3, <1>4, <1>5, <1>6, <1>7, <1>8
  DEF ModeNext, Input

LEMMA ModeInitInv == ModeInit => ModeIInv
BY IdleTimeoutsType, IdleAssumption
DEF ModeInit, ModeIInv, ModeTypeOK, IdleDeadline, HardwareFollowsMode, Modes,
    NoTimer

\* The inductive invariant holds in every behaviour.
THEOREM ModeInvariant == ModeSpec => []ModeIInv
<1>1. QED BY ModeInitInv, ModeStepKeepsInv, PTL DEF ModeSpec

\* The mode, the timer and what the node was told always have their types.
THEOREM ModeTypeCorrect == ModeSpec => []ModeTypeOK
<1>1. ModeIInv => ModeTypeOK BY DEF ModeIInv
<1>2. QED BY <1>1, ModeInvariant, PTL

\* Whatever path led to the current mode, exactly the modes with a timeout
\* have a timer, and its deadline counts from the moment the mode was set.
THEOREM IdleDeadlineHolds == ModeSpec => []IdleDeadline
<1>1. ModeIInv => IdleDeadline BY DEF ModeIInv
<1>2. QED BY <1>1, ModeInvariant, PTL

\* Subsystems and status follow the mode except after a forced set or restart.
THEOREM HardwareFollows == ModeSpec => []HardwareFollowsMode
<1>1. ModeIInv => HardwareFollowsMode BY DEF ModeIInv
<1>2. QED BY <1>1, ModeInvariant, PTL

\* An idle timer that fires is never refused by the transition table.
THEOREM TimeoutDemotes == ModeSpec => IdleTimeoutDemotes
<1>1. ModeIInv /\ [ModeNext]_modeVars =>
        [IdleTimeout => \/ mode = "active" /\ mode' = "listen"
                        \/ mode = "listen" /\ mode' = "sleep"]_modeVars
  <2> SUFFICES ASSUME ModeIInv, IdleTimeout
               PROVE  \/ mode = "active" /\ mode' = "listen"
                      \/ mode = "listen" /\ mode' = "sleep"
    OBVIOUS
  <2>1. mode \in {"listen", "active"}
    BY IdleTimeoutsType
    DEF IdleTimeout, ModeIInv, ModeTypeOK, IdleDeadline, NoTimer, Modes
  <2>2. IdleTarget \in MODE_TRANSITIONS[mode]
    BY <2>1 DEF IdleTarget, MODE_TRANSITIONS, Modes
  <2>3. mode' = IdleTarget
    BY <2>2 DEF IdleTimeout, transition, Enter
  <2> QED BY <2>1, <2>3 DEF IdleTarget
<1>2. QED BY <1>1, ModeInvariant, PTL DEF ModeSpec, IdleTimeoutDemotes

\* Every mode change of a running Core is in the table or a dashboard override.
THEOREM ModeTableRespected == ModeSpec => TableOrOverride
<1>1. [ModeNext]_modeVars =>
        [(running /\ running' /\ mode' # mode) =>
            \/ mode' \in MODE_TRANSITIONS[mode]
            \/ mode' \in WebOverrides /\ bypassed']_modeVars
  <2> SUFFICES ASSUME ModeNext, running, running', mode' # mode
               PROVE  \/ mode' \in MODE_TRANSITIONS[mode]
                      \/ mode' \in WebOverrides /\ bypassed'
    OBVIOUS
  <2>t. ASSUME NEW to, transition(to) PROVE mode' \in MODE_TRANSITIONS[mode]
    BY <2>t DEF transition, Enter, modeVars
  <2>1. ASSUME NEW data \in Modes \cup {InvalidMode}, HandleModeCommand(data)
        PROVE  mode' \in MODE_TRANSITIONS[mode]
    BY <2>1, <2>t DEF HandleModeCommand, modeVars
  <2>2. ASSUME NEW m \in Modes, SetMode(m) PROVE mode' \in MODE_TRANSITIONS[mode]
    BY <2>2, <2>t DEF SetMode
  <2>3. ASSUME NEW p \in {"PIR", "BME280"}, HandleSensorEvent(p)
        PROVE  mode' \in MODE_TRANSITIONS[mode]
    BY <2>3, <2>t DEF HandleSensorEvent, modeVars
  <2>4. ASSUME NEW m \in WebOverrides, WebOverride(m)
        PROVE  mode' \in WebOverrides /\ bypassed'
    BY <2>4 DEF WebOverride, forceSet, Enter
  <2>5. CASE IdleTimeout
    BY <2>5, <2>t DEF IdleTimeout
  <2>6. ~Stop /\ ~Start /\ ~Tick
    BY DEF Stop, Start, Tick
  <2> QED BY <2>1, <2>2, <2>3, <2>4, <2>5, <2>6 DEF ModeNext, Input
<1>2. QED BY <1>1, PTL DEF ModeSpec, TableOrOverride

-----------------------------------------------------------------------------
\* The composition.


\* The inductive invariant.  ModeManager's own is part of it, because a step
\* is one of ModeManager's only for a mode and messages of the right type.
IInv ==
  /\ TypeOK
  /\ ModeIInv
  /\ SpaceFollowsMode

\* Sending a message keeps the type of a queue, and makes it longer.
LEMMA AppendTyped ==
  ASSUME NEW S, NEW queue \in Seq(S), NEW message \in S
  PROVE  Append(queue, message) \in Seq(S) /\ Len(Append(queue, message)) > Len(queue)
BY AppendProperties, LenProperties

\* So does taking the first one.
LEMMA HeadTyped ==
  ASSUME NEW S, NEW queue \in Seq(S), queue # <<>>
  PROVE  Head(queue) \in S /\ Tail(queue) \in Seq(S) /\ Len(Tail(queue)) < Len(queue)
BY HeadTailProperties, LenProperties, EmptySeq

\* Motion and the answers of the Brain ask for listen, which the table has for
\* every other mode.
LEMMA ListenReached ==
  ASSUME mode \in Modes, transition("listen")
  PROVE  mode' = "listen"
<1>1. mode # "listen" => "listen" \in MODE_TRANSITIONS[mode]
  BY DEF MODE_TRANSITIONS, Modes
<1>2. "listen" \notin MODE_TRANSITIONS["listen"]
  BY DEF MODE_TRANSITIONS
<1> QED
  BY <1>1, <1>2 DEF transition, Enter, modeVars

-----------------------------------------------------------------------------
\* Each action does to ModeManager what one of its own actions does, or nothing.

LEMMA StepOfModeManager ==
  ASSUME TypeOK, [Next]_vars
  PROVE  [ModeNext]_modeVars
<1> USE DEF ModeNext, Input
<1>m. "listen" \in Modes /\ "active" \in Modes /\ "sleep" \in Modes
  BY DEF Modes
<1>1. ASSUME NEW m \in Messages, Publish(m) PROVE [ModeNext]_modeVars
  BY <1>1 DEF Publish
<1>2. CASE ModeCommand
  <2>1. Head(commands) \in Modes \cup {InvalidMode}
    BY <1>2, HeadTyped DEF ModeCommand, TypeOK, Messages
  <2> QED BY <1>2, <2>1 DEF ModeCommand
<1>3. ASSUME NEW motion \in BOOLEAN, PirReport(motion) PROVE [ModeNext]_modeVars
  BY <1>3, <1>m DEF PirReport
<1>4. CASE AudioChunk \/ VoiceStart \/ VoiceEnd \/ HandleNotification
  BY <1>4 DEF AudioChunk, VoiceStart, VoiceEnd, HandleNotification
<1>5. ASSUME NEW m \in WebOverrides, WebPost(m) PROVE [ModeNext]_modeVars
  BY <1>5 DEF WebPost
<1>6. CASE SetModeCall
  <2>1. Head(calls) \in Modes
    BY <1>6, <1>m, HeadTyped DEF SetModeCall, TypeOK
  <2> QED BY <1>6, <2>1 DEF SetModeCall
<1>7. ASSUME NEW b \in Behaviors, SwitchModeCall(b) PROVE [ModeNext]_modeVars
  BY <1>7 DEF SwitchModeCall
<1>8. CASE IdleSleepTick
  BY <1>8, <1>m DEF IdleSleepTick
<1>9. CASE IdleTimer \/ TimePasses \/ StopCore \/ StartCore
  BY <1>9 DEF IdleTimer, TimePasses, StopCore, StartCore
<1>10. CASE UNCHANGED vars
  BY <1>10 DEF vars
<1> QED
  BY <1>1, <1>2, <1>3, <1>4, <1>5, <1>6, <1>7, <1>8, <1>9, <1>10 DEF Next, Outside

-----------------------------------------------------------------------------
\* The parts of the invariant beside ModeManager's: what waits in the queues and
\* timers, and the default space.
Waiting ==
  /\ commands \in Seq(Messages)
  /\ toBrain \in Seq(Notifications)
  /\ calls \in Seq({"listen", "active"})
  /\ sleepTimer \in 0..SleepEvery
  /\ isAccumulating \in BOOLEAN

Space ==
  /\ behavior \in Modes \cup Behaviors \cup {DefaultBehavior}
  /\ switched \in BOOLEAN
  /\ SpaceFollowsMode

LEMMA InvParts == IInv <=> ModeIInv /\ Waiting /\ Space /\ cause \in Causes
BY DEF IInv, TypeOK, Waiting, Space, ModeIInv

\* The listener of modeChange keeps the space in step with the mode.
LEMMA ListenerFollows ==
  ASSUME NEW announced \in BOOLEAN, Space, ModeChanged(announced), mode' \in Modes
  PROVE  Space'
<1>1. CASE mode' # mode \/ announced
  <2>1. behavior' = mode' /\ switched' = FALSE
    BY <1>1 DEF ModeChanged
  <2> QED BY <2>1 DEF Space, SpaceFollowsMode
<1>2. CASE mode' = mode /\ ~announced
  <2>1. behavior' = behavior /\ (switched' <=> switched) /\ switched' \in BOOLEAN
    BY <1>2 DEF ModeChanged
  <2> QED BY <1>2, <2>1 DEF Space, SpaceFollowsMode
<1> QED
  BY <1>1, <1>2

\* What does not touch the mode or the space keeps them in step.
LEMMA SpaceKept ==
  ASSUME Space, UNCHANGED <<mode, behavior, switched>>
  PROVE  Space'
BY DEF Space, SpaceFollowsMode

LEMMA InitInv == Init => IInv
<1> SUFFICES ASSUME Init PROVE IInv
  OBVIOUS
<1>1. ModeIInv /\ switched = TRUE /\ cause = "start" /\ behavior = DefaultBehavior
  BY ModeInitInv DEF Init
<1>2. Waiting
  <2>1. <<>> \in Seq(Messages) /\ <<>> \in Seq(Notifications) /\ <<>> \in Seq({"listen", "active"})
    OBVIOUS
  <2>2. SleepEvery \in 0..SleepEvery
    BY CoreAssumption
  <2> QED BY <2>1, <2>2 DEF Init, Waiting
<1>3. Space
  BY <1>1 DEF Space, SpaceFollowsMode
<1> QED
  BY <1>1, <1>2, <1>3, InvParts DEF Causes

\* One step per action: the queues and timers it disturbs, then the space.
LEMMA WaitingKept ==
  ASSUME IInv, [Next]_vars
  PROVE  Waiting' /\ cause' \in Causes
<1>t. Waiting /\ cause \in Causes
  BY InvParts
<1> USE DEF Waiting, Causes, Notifications, brainVars
<1>e. <<>> \in Seq(Messages) /\ <<>> \in Seq(Notifications) /\ <<>> \in Seq({"listen", "active"})
  OBVIOUS
<1>1. ASSUME NEW m \in Messages, Publish(m) PROVE Waiting' /\ cause' \in Causes
  <2>1. commands' \in Seq(Messages)
    BY <1>1, <1>t, AppendTyped DEF Publish
  <2> QED BY <1>1, <1>t, <2>1 DEF Publish
<1>2. CASE ModeCommand
  <2>1. commands' \in Seq(Messages)
    BY <1>2, <1>t, HeadTyped DEF ModeCommand
  <2> QED BY <1>2, <1>t, <2>1 DEF ModeCommand
<1>3. ASSUME NEW motion \in BOOLEAN, PirReport(motion) PROVE Waiting' /\ cause' \in Causes
  <2>1. toBrain' \in Seq(Notifications)
    BY <1>3, <1>t, AppendTyped DEF PirReport
  <2> QED BY <1>3, <1>t, <2>1 DEF PirReport
<1>4. CASE AudioChunk
  BY <1>4, <1>t DEF AudioChunk
<1>5. CASE VoiceStart \/ VoiceEnd
  <2>1. toBrain' \in Seq(Notifications)
    BY <1>5, <1>t, AppendTyped DEF VoiceStart, VoiceEnd
  <2> QED BY <1>5, <1>t, <2>1 DEF VoiceStart, VoiceEnd
<1>6. ASSUME NEW m \in WebOverrides, WebPost(m) PROVE Waiting' /\ cause' \in Causes
  <2>1. commands' \in Seq(Messages)
    BY <1>6, <1>t, AppendTyped, IdleAssumption DEF WebPost, Messages
  <2> QED BY <1>6, <1>t, <2>1 DEF WebPost
<1>7. CASE StopCore
  BY <1>7, <1>t, <1>e DEF StopCore
<1>8. CASE HandleNotification
  <2>1. toBrain' \in Seq(Notifications)
    BY <1>8, <1>t, HeadTyped DEF HandleNotification
  <2>2. calls' \in Seq({"listen", "active"})
    BY <1>8, <1>t, AppendTyped DEF HandleNotification, Asked
  <2> QED BY <1>8, <1>t, <2>1, <2>2 DEF HandleNotification
<1>9. CASE SetModeCall
  <2>1. calls' \in Seq({"listen", "active"})
    BY <1>9, <1>t, HeadTyped DEF SetModeCall
  <2> QED BY <1>9, <1>t, <2>1 DEF SetModeCall
<1>10. ASSUME NEW b \in Behaviors, SwitchModeCall(b) PROVE Waiting' /\ cause' \in Causes
  BY <1>10, <1>t DEF SwitchModeCall
<1>11. CASE IdleSleepTick
  BY <1>11, <1>t, CoreAssumption DEF IdleSleepTick
<1>12. CASE IdleTimer
  BY <1>12, <1>t DEF IdleTimer
<1>13. CASE TimePasses
  <2>1. sleepTimer' \in 0..SleepEvery
    BY <1>13, <1>t, CoreAssumption DEF TimePasses
  <2> QED BY <1>13, <1>t, <2>1 DEF TimePasses
<1>14. CASE StartCore
  BY <1>14, <1>t, CoreAssumption DEF StartCore
<1>15. CASE UNCHANGED vars
  BY <1>15, <1>t DEF vars
<1> QED
  BY <1>1, <1>2, <1>3, <1>4, <1>5, <1>6, <1>7, <1>8, <1>9, <1>10, <1>11, <1>12,
     <1>13, <1>14, <1>15
  DEF Next, Outside

LEMMA SpaceStays ==
  ASSUME IInv, [Next]_vars, mode' \in Modes
  PROVE  Space'
<1>t. Space
  BY InvParts
<1>1. ASSUME ModeChanged(TRUE) \/ ModeChanged(FALSE) PROVE Space'
  BY <1>1, <1>t, ListenerFollows
<1>2. CASE \/ ModeCommand \/ SetModeCall \/ IdleSleepTick \/ IdleTimer
           \/ \E motion \in BOOLEAN : PirReport(motion)
           \/ \E m \in WebOverrides : WebPost(m)
  BY <1>1, <1>2
  DEF ModeCommand, SetModeCall, IdleSleepTick, IdleTimer, PirReport, WebPost
<1>3. CASE \/ AudioChunk \/ VoiceStart \/ VoiceEnd \/ HandleNotification
           \/ StopCore \/ TimePasses
           \/ \E m \in Messages : Publish(m)
           \/ UNCHANGED vars
  <2>1. UNCHANGED <<mode, behavior, switched>>
    BY <1>3
    DEF AudioChunk, VoiceStart, VoiceEnd, HandleNotification, StopCore, Stop,
        TimePasses, Tick, Publish, vars, modeVars
  <2> QED BY <1>t, <2>1, SpaceKept
<1>4. CASE StartCore \/ \E b \in Behaviors : SwitchModeCall(b)
  <2>1. switched' = TRUE /\ behavior' \in Behaviors \cup {DefaultBehavior}
    BY <1>4 DEF StartCore, SwitchModeCall
  <2> QED BY <2>1 DEF Space, SpaceFollowsMode
<1> QED
  BY <1>2, <1>3, <1>4 DEF Next, Outside

LEMMA StepKeepsInv == IInv /\ [Next]_vars => IInv'
<1> SUFFICES ASSUME IInv, [Next]_vars PROVE IInv'
  OBVIOUS
<1>1. ModeIInv'
  BY StepOfModeManager, ModeStepKeepsInv DEF IInv
<1>2. mode' \in Modes
  BY <1>1 DEF ModeIInv, ModeTypeOK
<1>3. Waiting' /\ cause' \in Causes /\ Space'
  BY <1>2, WaitingKept, SpaceStays
<1> QED
  BY <1>1, <1>3 DEF IInv, TypeOK, Waiting, Space, ModeIInv

\* The inductive invariant holds in every behaviour.
THEOREM CoreInvariant == Spec => []IInv
<1>1. QED BY InitInv, StepKeepsInv, PTL DEF Spec

\* The queues, the timers and the behavior of the space always have their types.
THEOREM CoreTypeCorrect == Spec => []TypeOK
<1>1. IInv => TypeOK BY DEF IInv
<1>2. QED BY <1>1, CoreInvariant, PTL

\* Whichever of the five parties changed the mode, the default space follows it
\* unless the Brain chose a behavior since.
THEOREM SpaceFollows == Spec => []SpaceFollowsMode
<1>1. IInv => SpaceFollowsMode BY DEF IInv
<1>2. QED BY <1>1, CoreInvariant, PTL

\* The composition implements the mode state machine: nothing that core.ts
\* wires to it changes the mode other than by a step of it.
THEOREM CoreImplementsModeManager == Spec => ModeSpec
<1>1. Init => ModeInit
  BY DEF Init
<1>2. IInv /\ [Next]_vars => [ModeNext]_modeVars
  BY StepOfModeManager DEF IInv
<1>3. QED BY <1>1, <1>2, CoreInvariant, PTL DEF Spec, ModeSpec

\* So the deadline of the idle timer is right in the composition too, where
\* the builtin skills and the Brain set modes at times of their own.
THEOREM CoreIdleDeadline == Spec => []IdleDeadline
<1>1. QED BY CoreImplementsModeManager, IdleDeadlineHolds, PTL

\* A motion report that reaches Core leaves it in listen, from every mode.
THEOREM MotionAlwaysListens == Spec => MotionListens
<1>1. IInv /\ [Next]_vars =>
        [(cause' = "pir" /\ Len(toBrain') > Len(toBrain)) => mode' = "listen"]_vars
  <2> SUFFICES ASSUME IInv, Next, cause' = "pir", Len(toBrain') > Len(toBrain)
               PROVE  mode' = "listen"
    OBVIOUS
  <2>1. PICK motion \in BOOLEAN : PirReport(motion)
    BY DEF Next, Outside, Publish, ModeCommand, AudioChunk, VoiceStart, VoiceEnd,
       WebPost, StopCore, HandleNotification, SetModeCall, SwitchModeCall, IdleSleepTick,
       IdleTimer, TimePasses, StartCore
  <2>2. Len(toBrain) \in Nat
    BY LenProperties DEF IInv, TypeOK
  <2>3. motion
    BY <2>1, <2>2 DEF PirReport
  <2> QED
    BY <2>1, <2>3, ListenReached DEF PirReport, SetMode, IInv, TypeOK, ModeTypeOK
<1>2. QED BY <1>1, CoreInvariant, PTL DEF Spec, MotionListens
=============================================================================
