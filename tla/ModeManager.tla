---------------------------- MODULE ModeManager ----------------------------
(***************************************************************************)
(* The mode state machine of the harness (harness/src/engine/              *)
(* ModeManager.ts): the mode of the node base, the idle timer that demotes *)
(* a mode nobody uses, and what the manager tells the node over MQTT: the  *)
(* subsystem commands of xentient/control/{audio,sensors,camera,pir} and   *)
(* the status of xentient/status/mode.                                     *)
(*                                                                         *)
(* A handler runs to completion on the Node.js event loop, so each is one  *)
(* action.  Time is counted in units (the configurations use one minute);  *)
(* a timer that is due fires before the next unit passes.                  *)
(***************************************************************************)
EXTENDS Integers

CONSTANTS
  ListenIdle,     \* IDLE_TIMEOUTS.listen, in units of time
  ActiveIdle,     \* IDLE_TIMEOUTS.active
  WebOverrides,   \* the modes the dashboard may force (POST /api/mode)
  MaxAge          \* the history variable age is not counted beyond this

Modes == {"sleep", "listen", "active", "record"}

ASSUME IdleAssumption ==
  /\ ListenIdle \in Nat \ {0}
  /\ ActiveIdle \in Nat \ {0}
  /\ WebOverrides \subseteq Modes
  /\ MaxAge \in Nat
  /\ ListenIdle <= MaxAge /\ ActiveIdle <= MaxAge

VARIABLES
  running,    \* the Core process is up
  mode,       \* ModeManager.current
  idleTimer,  \* units left on the armed idle timer, NoTimer if none is armed
  hw,         \* the mode the subsystems were last configured for
  status,     \* the mode last published on xentient/status/mode
  bypassed,   \* history: a forced set or a restart since the last transition
  age         \* history: units since the mode was last set, up to MaxAge

modeVars == <<running, mode, idleTimer, hw, status, bypassed, age>>

NoTimer == -1
Unset == "unset"
InvalidMode == "invalid"

MODE_TRANSITIONS ==
  [sleep  |-> {"listen"},
   listen |-> {"active", "sleep", "record"},
   active |-> {"listen", "sleep", "record"},
   record |-> {"listen", "sleep"}]

IDLE_TIMEOUTS ==
  [sleep |-> NoTimer, listen |-> ListenIdle, active |-> ActiveIdle, record |-> NoTimer]

ModeInit ==
  /\ running = TRUE
  /\ mode = "sleep"
  /\ idleTimer = NoTimer
  /\ hw = Unset
  /\ status = Unset
  /\ bypassed = TRUE
  /\ age = 0

-----------------------------------------------------------------------------
\* The synchronous methods, as the effect they have on the manager.

\* Mutant: the idle timer is not armed again.
MutantEnter(to) ==
  /\ mode' = to
  /\ status' = to
  /\ age' = 0
  /\ UNCHANGED idleTimer

\* publishModeStatus, publishDisplayUpdate, resetIdleTimer for the mode `to'.
\* The display shows LCD_FACES[to], so it always agrees with the status.
Enter(to) ==
  /\ mode' = to
  /\ status' = to
  /\ idleTimer' = IDLE_TIMEOUTS[to]
  /\ age' = 0

\* Mutant: the hardware is configured before `current' is assigned.
MutantTransitionHw(to) ==
  IF to \in MODE_TRANSITIONS[mode]
  THEN /\ Enter(to)
       /\ hw' = mode
       /\ bypassed' = FALSE
       /\ UNCHANGED running
  ELSE UNCHANGED modeVars

\* Mutant: the table is not consulted.
MutantTransitionAny(to) ==
  /\ Enter(to)
  /\ hw' = to
  /\ bypassed' = FALSE
  /\ UNCHANGED running

transition(to) ==
  IF to \in MODE_TRANSITIONS[mode]
  THEN /\ Enter(to)
       /\ hw' = to                    \* reconfigureHardware
       /\ bypassed' = FALSE
       /\ UNCHANGED running
  ELSE UNCHANGED modeVars

forceSet(m) ==
  /\ Enter(m)
  /\ bypassed' = TRUE
  /\ UNCHANGED <<running, hw>>

-----------------------------------------------------------------------------
\* mode_set on xentient/control/mode; validateMessage throws on a bad payload.
HandleModeCommand(data) ==
  /\ running
  /\ IF data = InvalidMode THEN UNCHANGED modeVars ELSE transition(data)

\* The MCP tool xentient_set_mode, and the set_mode action of a CoreSkill.
SetMode(m) ==
  /\ running
  /\ transition(m)

\* A PIR report wakes a sleeping node; the motion flag is not looked at.
HandleSensorEvent(peripheral) ==
  /\ running
  /\ IF peripheral = "PIR" /\ mode = "sleep"
     THEN transition("listen")
     ELSE UNCHANGED modeVars

\* POST /api/mode.  It also publishes a mode_set: see CoreSystem.
WebOverride(m) ==
  /\ running
  /\ m \in WebOverrides
  /\ forceSet(m)

\* The callback armed by resetIdleTimer: the target depends on the mode at the
\* time it runs.  A rejected transition leaves no timer running.
\* Mutant: every timeout leads to listen.
MutantIdleTarget == "listen"

IdleTarget == IF mode = "active" THEN "listen" ELSE "sleep"

IdleTimeout ==
  /\ running
  /\ idleTimer = 0
  /\ IF IdleTarget \in MODE_TRANSITIONS[mode]
     THEN transition(IdleTarget)
     ELSE idleTimer' = NoTimer
          /\ UNCHANGED <<running, mode, hw, status, bypassed, age>>

\* SIGINT/SIGTERM (clearIdleTimer, then exit) or a crash.
Stop ==
  /\ running
  /\ running' = FALSE
  /\ idleTimer' = NoTimer
  /\ UNCHANGED <<mode, hw, status, bypassed, age>>

\* A new process starts in sleep and publishes nothing: the node keeps what
\* it was last told.
Start ==
  /\ ~running
  /\ running' = TRUE
  /\ mode' = "sleep"
  /\ bypassed' = TRUE
  /\ age' = 0
  /\ UNCHANGED <<idleTimer, hw, status>>

\* One unit of time passes.
Tick ==
  /\ idleTimer # 0
  /\ idleTimer' = IF idleTimer = NoTimer THEN NoTimer ELSE idleTimer - 1
  /\ age' = IF age < MaxAge THEN age + 1 ELSE age
  /\ UNCHANGED <<running, mode, hw, status, bypassed>>

\* What comes from outside the manager.
Input ==
  \/ \E data \in Modes \cup {InvalidMode} : HandleModeCommand(data)
  \/ \E m \in Modes : SetMode(m)
  \/ \E p \in {"PIR", "BME280"} : HandleSensorEvent(p)
  \/ \E m \in WebOverrides : WebOverride(m)
  \/ Stop

ModeNext == Input \/ Start \/ IdleTimeout \/ Tick

ModeSpec == ModeInit /\ [][ModeNext]_modeVars

-----------------------------------------------------------------------------
\* Type invariant: the mode is one of the four, the timer counts down from the
\* longest timeout, and the node was told a mode or nothing yet.
ModeTypeOK ==
  /\ running \in BOOLEAN
  /\ mode \in Modes
  /\ idleTimer \in Nat \cup {NoTimer}
  /\ hw \in Modes \cup {Unset}
  /\ status \in Modes \cup {Unset}
  /\ bypassed \in BOOLEAN
  /\ age \in 0..MaxAge

\* Exactly the modes with a timeout have a running idle timer, and its deadline
\* counts from the moment that mode was set: no path into a mode (a command, a
\* tool, the dashboard, the timer itself) leaves an old timer behind or forgets
\* to arm one, which resetIdleTimer has to get right for all of them.
IdleDeadline ==
  running => IF IDLE_TIMEOUTS[mode] = NoTimer
             THEN idleTimer = NoTimer
             ELSE idleTimer >= 0 /\ idleTimer + age = IDLE_TIMEOUTS[mode]

\* Unless the dashboard forced the mode or Core restarted since, the subsystems
\* were configured for the mode Core is in and the node was told that mode:
\* reconfigureHardware and publishModeStatus run on every transition.
HardwareFollowsMode == bypassed \/ (hw = mode /\ status = mode)

\* When the idle timer fires it always demotes the node, to listen from active
\* and to sleep from listen: its transition is never one that the table
\* rejects, which would leave the node in that mode for good.
IdleTimeoutDemotes ==
  [][IdleTimeout => \/ mode = "active" /\ mode' = "listen"
                    \/ mode = "listen" /\ mode' = "sleep"]_modeVars

\* A running Core changes mode along MODE_TRANSITIONS unless the dashboard
\* overrides it (WebOverride), whoever asks: MQTT, MCP, PIR or the timer.
TableOrOverride ==
  [][(running /\ running' /\ mode' # mode) =>
        \/ mode' \in MODE_TRANSITIONS[mode]
        \/ mode' \in WebOverrides /\ bypassed']_modeVars
=============================================================================
