# Xentient in TLA+

A verification project for Xentient: a node base (ESP32 firmware) with a
microphone, a camera, a PIR and a display, a Core process that owns the node's
mode and the reactive skills, and a Brain process that listens, thinks and
speaks through Core's MCP server. The specifications are translated from the
sources under `harness/src` and `firmware`; TLC checks them on small instances
and TLAPS proves the safety properties for every value of their constants.

    tlc -workers 2 -config CoreSystem.cfg MCCoreSystem.tla
    tlapm CoreSystemProofs.tla

## The system

| Part | State | Operations | Talks to |
|---|---|---|---|
| Node base, `firmware/src/main.cpp` | VAD state, pending end of utterance, links | one `loop()`: PIR, audio, VAD start and end, camera relay, telemetry | Core by WebSocket (PCM, camera frames) and MQTT (triggers, sensors) |
| Camera sketch, `firmware/validation/val_cam_uart_fwd.cpp` | frame id | capture, chunk, send | node base by UART |
| Camera relay, `firmware/src/cam_relay.cpp` | partial frame, its id, place and age | take a chunk, drop a partial frame, forward a whole one | AudioServer |
| MQTT client of the node, `firmware/src/mqtt_client.cpp` | retry count and time | reconnect with backoff, publish | broker |
| `comms/AudioServer.ts` | the active connection | accept, refuse, route frames, send audio | node, core.ts, CameraServer |
| `comms/CameraServer.ts` | clients, last frame, idle timer | take a frame, serve clients | AudioServer, dashboard |
| `comms/MqttClient.ts` | connection | publish, dispatch by topic | broker, everything in Core |
| `comms/ControlServer.ts` | SSE clients | dashboard requests, events | ModeManager, MqttClient, the test pages |
| `engine/ModeManager.ts` | mode, idle timer | transition, forced set, idle timeout | node by MQTT, listeners of `modeChange` |
| `engine/SkillExecutor.ts` | skills, their timers, pending conflicts | register, update, disable, remove, fire, resolve | ModeManager, MQTT, Brain |
| `engine/SpaceManager.ts`, `SkillLog.ts` | spaces, executors, log | route operations, switch mode | SkillExecutor, MCP |
| `core.ts`, `mcp/*` | audio accumulator, sensor cache | wiring, notifications, tools | all of the above |
| `brain-basic.ts`, `brain-basic/Pipeline.ts`, `providers/*` | running turns | answer notifications: transcribe, complete, speak, set the mode | Core by MCP, cloud services |
| `supervisedMain` in `brain-basic.ts`, `main` in `core.ts` | restart count, the child process | start, connect, list the tools, try again | each other, broker, ports |
| `engine/ArtifactWriter.ts`, `sim/brain.ts` | session files | write, sync, report | file system, MQTT |

What is hard about it: Core and Brain each run one thread, so a handler is
atomic, but everything between them is a message. Five parties change the mode
(MQTT commands, MCP tools, PIR reports, the dashboard, timers) and three more
listen to it. Audio and the triggers that delimit it travel on two links with no
order between them. Connections fail in two events, and a dead one may not be
noticed. Timers keep references to objects the tools have replaced. Frame ids
wrap and start over, chunks are lost, and only time separates two captures.
Files become durable in three calls with a crash between any two of them, and
processes outlive the ones that look after them.
`PROJECT.json` lists these hazards at their lines with the properties that
cover them.

## Modules

| Module | Models | Refines or uses |
|---|---|---|
| `ModeManager` | the mode state machine and its timer | |
| `VoicePath` | an utterance from VAD to the Brain | |
| `AudioServer` | the node's WebSocket endpoint | |
| `SkillExecutor` | the skill engine of one space | |
| `FrameDelivery` | what the camera's way promises (abstract) | |
| `CamRelay` | chunks, reassembly, forwarding | refines `FrameDelivery` |
| `CoreSystem` | everything that changes the mode, together | extends `ModeManager` |
| `CameraServer` | the camera stream for dashboards | |
| `BrainTurns` | the turns of the basic Brain, from utterance to speech | |
| `SessionReports` | what a subscriber hears of sessions (abstract) | |
| `Sessions` | the simulated Brain and the artifacts it stores | refines `SessionReports` |
| `Supervisor` | Core and Brain processes, the broker, the ports | |
| `Dashboard` | the mode on its way from ModeManager to the test pages | extends `Supervisor` |
| `Spaces` | several spaces, their executors, the skill log | |
| `CoreSystemProofs` | theorems about `ModeManager` and `CoreSystem` | |
| `VoicePathProofs` | theorems about `VoicePath` and `AudioServer` | |
| `CameraProofs` | theorems about `CamRelay` and `CameraServer` | |
| `SkillExecutorProofs`, `SpacesProofs`, `BrainTurnsProofs`, `SessionsProofs`, `DashboardProofs` | theorems about the module of that name | |

The `MC*` modules only give constants their values. Definitions called
`Mutant...` are plausible faults of the code; each property of a passing run is
known to fail when its definition is replaced by that mutant.

### ModeManager

`mode` is `current`, `idleTimer` the units left on the armed `setTimeout`, `hw`
and `status` what the node was last told on `xentient/control/*` and
`xentient/status/mode`. `transition` and `forceSet` are operators used by the
actions that call them: `HandleModeCommand`, `SetMode`, `HandleSensorEvent`,
`WebOverride`, `IdleTimeout`. `Stop` and `Start` are the end of the process and
a new one. `age` and `bypassed` are history: the time since the mode was set,
and whether a forced set or a restart happened since the last transition.

* `IdleDeadline`: exactly the timed modes have a running timer, and its deadline
  counts from the moment the mode was set.
* `HardwareFollowsMode`: node and Core agree unless the mode was forced or Core
  restarted.
* `IdleTimeoutDemotes`, `TableOrOverride`: what a step may do to the mode.

These are checked within the composition (`core_system`), whose steps are its
steps. That a node left alone falls asleep is a property of the composition too,
as the builtin skills have a part in it.

Two disagreements with `docs/SPACES.md` can be read off the definitions: `forceSet`
leaves `hw` alone, so a forced mode is one the hardware is not configured for, and
`IdleTarget` leads from active to listen and not to sleep. A restarted Core assumes
sleep and tells the node nothing, so that it and the hardware disagree as well.
`HardwareFollowsMode` exempts both until the next transition (`bypassed`), which sets
everything right; `docs/SPACES.md:58` has modes "correspond to hardware power and
processing states" throughout. `resetIdleTimer`, which
its comment (`ModeManager.ts:119`) wants called on audio and VAD events, is called
by nobody: speaking does not keep the node in listen, so it is no action here.

### VoicePath

The node's `loop()` is two actions, with and without a chunk from the
microphone. Chunks are numbers in the order they are spoken. Either link may
break at any time and lose a suffix of what is in flight (MQTT is used with QoS
0), the node may reset, and the mode may change at any time. `AudioChunk` and
`TriggerPipeline` are Core's two listeners; `Flush` is the notification and the
reset of the accumulator which both contain.

* `AccumulatorConsistent`: the flag and the buffer agree, the buffer is within
  its cap. `AudioInOrder`, `VoiceEndFresh`: no chunk reaches the Brain twice, late
  or out of order, whoever cuts the utterance.
* `StartGetsEnd`: an announced utterance gets its end, however often MQTT drops.

`Stage` shows a disagreement with `mcp/events.ts`: the node's start trigger has no
stage, Core waits for the stage "start", and so the node causes no `voice_start` and
the skills take its start for an end. `TriggerPipeline` has no guard on the mode,
so audio heard before the node was put to sleep can be flushed in sleep;
`docs/SPACES.md:128` says that Core "drops audio in SLEEP". `VoiceEndFresh` permits it:
it says that a `voice_end` has nothing an earlier one had, not how old its audio is.

### AudioServer

A socket is free, open, closing, failed (its `error` was emitted, its `close` is to
come) or rejected. Closing is ws's CLOSING: the end of the connection is known to the
library and `close` not emitted yet, so `activeConnection` names a socket that is not
open, for which `sendAudio` tests `readyState`. `nodeSock` is the connection the node
itself uses. It may give it up, and the end of it is on its way; or it may vanish
(`NodeLost(TRUE)`), and nothing tells the server: the connection is in `silent` until
something ends it, and `SendAudio` takes it out, as TCP gives up what it cannot deliver.

* `ActiveNotEnded`: the active connection is one whose end no handler was told of, so
  that a connection that is gone keeps nobody out. `SingleNodeUntilError`: as long as
  none failed it is the only accepted one.
* `ReconnectsUnlessSilent`: a node without a connection gets an accepted one in the
  end, unless the server holds one of its earlier ones that was left without a word.

What it excepts is a hazard the code has. Neither side sends pings or sets a heartbeat,
though `firmware/include/ws_audio.h:7` says that the node's loop handles keep-alive:
the server holds the dead connection, and the guard of `AudioServer.ts:32` refuses the
node, until Core sends audio or for good.

`audio_server_second` shows the late `close` of a failed connection clearing a
newer one, after which a second node is let in. `Route` lets a frame without a
prefix pass as audio, the legacy format the comment in the code speaks of.

### SkillExecutor

Skill objects are explicit, because `registerSkill` keeps two, a copy in the map
and the original under the timer, and every later surprise comes from that. An
object nothing refers to any more is free again (`Heap`). What a skill does is
left out. Cooldowns are two flags that time clears; conditions on sensors and
counters are free choices. An event wakes the skills that wait for it (`EventOf`,
`Waiting`). `intervalHandles` and `cronHandles` are one: an id has one trigger, and the
two differ in when they tick. `registered`, `orphaned` and `overlapped` are history: ids
whose timer may hold another object than the map, ids registered again over a timer
that runs, and conflicts that were not alone in their group.

* `TypeOK`, a theorem: what map, timers and conflicts refer to is there, and nothing
  else.
* `HandleStopsTimer`, `ScheduleFollowsMap`, on timers: which run, whom a handle stops
  and whose object a timer holds.
* `FiresWhatIsEnabled`: a skill that fires is in the map and enabled there, whatever
  woke it.
* `LoneConflictAnswerable`: a conflict that is alone in its group can be
  answered as long as it runs. `RivalsOfOneEvent`: its rivals are different skills that
  one event, or one tick, woke.

Each exempts what the code gets wrong, and these things can be read off the
definitions. A skill that was registered and not updated asks an object no tool
changes: `skill_disabled` shows one firing after it is disabled, against what the test
of `disableSkill` says. An id registered twice has a timer without a handle, which
goes on after `removeSkill` and after `stop()`. The timeout of a conflict fires the
first of those it captured, whatever was disabled or removed since. Of two
conflicts of a group the answer to one deletes the entry, and the other can
only time out. And the map keeps the `modeFilter` of a skill ("Only activate in this
behavioral mode", `mcp/server.ts:119`) that no guard looks at, which is why
`Candidates` has none.

### CamRelay and FrameDelivery

Time is explicit, because ids repeat. A chunk carries as its data the capture it
was cut from and its place, so that a mixed frame can be told. Sync bytes, header
and CRC-8 are reduced to a chunk arriving as sent or not at all, which leaves out
collisions of the CRC. The timeout is looked at once per pass of the loop, which
comes round within `LoopTime`.

The camera and the node base both reset; a camera that does starts its ids over
after a boot that takes `BootTime`.

* `FramesWhole`: the pieces of a forwarded frame are in place and none is missing,
  whatever was lost or reset, and until the camera resets they are of one capture.
* `RelayImplementsDelivery`: each capture is delivered at most once and in order,
  and whole until the camera resets. `RelayTypeOK` has the bound of the buffer.

After a camera reset a frame may be mixed: the id starts over, and the rest of one
capture completes the beginning of another, in the right length; `docs/CONTRACTS.md:167`
calls the id "unique per captured frame". A chunk of another
frame is ignored (`Belongs`); `docs/CONTRACTS.md` says that it discards the
partial one.

### CoreSystem

Extends `ModeManager` with what acts on it in `core.ts`: the builtin skills
`_pir-wake` and `_idle-sleep`, the listener that writes the mode over the
behavior of the default space, the broker (commands take time, and a dashboard
override comes back as one), and the basic Brain, whose notifications and calls
take time. `voice_start`, on which the Brain sets active, is sent for the stage "start"
(`VoiceStart`), which another client can publish and the node base does not. The listeners of one message run in one step, in the order they are
registered. `cause` records what asked for a mode in a step.

* `SpaceFollowsMode`: the default space has the mode as its behavior unless the
  Brain chose another since. `MotionListens`: motion leaves the node in listen.
* `SettlesAsleep`: once nothing comes from outside, the composition ends in
  sleep for good.

Motion and `_idle-sleep` also end a recording (`PirReport`, `IdleSleepTick`), which
`docs/SPACES.md` reserves for a command. The same two skills end active before its
timeout, and a call of the Brain that comes late wakes a sleeping node, until the
timers put it to sleep again.

### CameraServer

A socket is free, open, closing (its `close` is to come) or rejected. `got` is the
frame each connection was sent last, `idleTimer` the units left on the timer that
every frame restarts. `since`, the time since the last frame, is history.

* `DashboardsCurrent`: whoever is connected has the latest frame, early or late.
* `OnlineIffRecent`, `OfflineInTheEnd`: online means a recent frame.
* `TurnedAwayOnlyIfFull`: no connection that is gone keeps its place.

### BrainTurns

A turn is a record of the two coroutines of an utterance, the producer of audio
(`synthesizeStreaming`, reading the LLM through `interceptTokens`) and its consumer
(`processUtterance`), with the `Readable` between them. `calls` is the pipe to Core,
shared by all turns, `played` what Core passed on to AudioServer. Tokens are their
numbers, and the text and audio made of them the same numbers. Whether a token
ends a sentence, what `transcribe` returns and what fails are free choices. The
stream hands over all it holds at once, as a byte stream does.

* `SpokenInOrder`: what is spoken is a beginning of the answer, without a gap or a
  repetition, even if a service, a call or Core fails on the way.
* `CompleteMeansSpoken`: a turn is complete only when all of it was handed over.
* `EveryTurnEnds`: the failure of one coroutine ends the other.

The audio of a turn is in order, but two turns that overlap are spoken in turns,
as nothing keeps the second from playing while the first does. And listen is
asked for when the turn starts; the comment in `brain-basic.ts` says after it.

### Sessions and SessionReports

The simulated Brain, `sim/brain.ts`, and the `ArtifactWriter` it stores sessions
with. A session is a coroutine nobody waits for: four states at intervals, then
file by file three calls with a callback each, then the report. `stage`, `at` and
`call` are where it is; `content` is what the disk has of each file, durable once
`fsync` has returned. `FileFails` is the failure of any of the calls, `ProcessCrash`
keeps what the kernel has, `PowerFailure` only what was synced. `outbox` is what the
client has for the broker; messages have QoS 0 and a break loses a beginning of
them. `heard` and `end` are a subscriber.

* `CompleteMeansStored`: `tasks/TRACK-B-CORE-HW.md`, C2, asks to await the fsync
  of every file before publishing; whoever hears of a complete session finds all
  its files after any crash.
* `DescriptorsClosed`: no path of the nested callbacks leaves a file open.
* `SessionsImplementReports`: sessions that overlap are each heard of in order, end
  once, and complete only when they are stored.
* `SessionReported`: a session comes to an end that is published, unless a file,
  the link or the process fails.

What the definitions show besides: a failed write publishes neither a complete nor
an error (`Ends(s, "abandoned")`); a `session_error` does not say of which session
it is; and `STATE_CADENCE` is waited for state by state, so that idle comes 5000 ms
after the trigger. `content` says how safe a file is, not how much of it there is:
nobody looks at `bytesWritten` (`ArtifactWriter.ts:92`), so a write that stores a part
only goes on to fsync and to a session that is reported complete, and
`CompleteMeansStored` is about what was written, not about what should have been.
Assumed: the fsync of a file makes its entry in the directory durable too. `FileFails`
is one action for the three nested paths of the code, which differ in who closes the
file; a `closeSync` that throws on them is the end of the process (`ProcessCrash`). The
echo of mode commands is not modelled.

### Supervisor and Dashboard

`Supervisor` has the processes. `brain` is where `supervisedMain` and `main` are,
`core` the state of each Core process, `own` the one that was started last. An
error of the broker's connection or of a port has no listener and ends Core
(`CoreDies`). A Core that answers MCP may not have its ports yet (`Serve`), and a
`main` that fails for want of a key leaves its Core behind, which holds them.

`Dashboard` extends it with the way of the mode from `ModeManager` over MQTT with
QoS 1 back into Core, and over server-sent events to the pages. `outgoing` is the
store of the MQTT client: what is not acknowledged is sent again after a reconnect,
before Core has subscribed again. `owner` and `sseClients` are the server's side of
the streams, `stream` and `shown` that of the pages. `Do` ends the messages and
streams of a Core that stops serving with it.

Only Core subscribes to `xentient/status/mode`. The simulators publish on it too
(`sim/node-base.ts:60-66`, `sim/brain.ts:197-204`), an echo of the mode they are told
to be in, which Core takes for its own and shows (`Echo`). A session ends with the
broker, and the status is not retained, so what Core is not subscribed for is gone.

* `BrokerCatchesUp`: the last status of Core that the broker has had (`latest`), or is
  still to get, is the mode, whatever was sent twice. `PagesCurrent`: a page ends with
  the mode, unless it missed a status in one of the ways named in `missed`, or a
  simulator's echo was the last it was sent (`echoed`).
* `StreamsAreClients`: the late close of one stream does not cut off the next.
* `StartsUp`: a Brain that is trying, with keys, a broker and attempts left, gets a
  Core that serves, if no earlier one is in its way.

The comments at `brain-basic.ts:131` and `:143` say that Core is restarted when it
dies. `main` returns as soon as its handlers are in place, and the loop with it
(`MainReturns`): a Core that dies later stays dead until somebody starts the Brain.

### Spaces

`spaces`, `executors` and `log` are the fields of `SpaceManager` and `SkillLog`,
`executor` the objects, of which only what outlives its space is kept: `stop()` ends
the timers of skills and leaves those of conflicts (`Stopped`). `AddSpace` over a
space replaces its executor; it takes a space in any `activeMode` and passes that on to
nobody, so that the executor is in another mode until the next switch (`ModeOf`), though
`SpaceManager.ts:68` logs it as the mode of the executor. `Targets` is the routing of tools and events to one
space or to all there are at the moment.

* `SpacesRun`: the two maps agree, exactly the executors in the map run, each in
  the mode of its own space, and what can be answered has a timeout.
* `LogIsRecent`: the ring has the last firings of all spaces, in order.
* `StoppedOnlyFinishes`: a stopped executor is reached by nothing but its own
  timeouts, and those do fire skills of a space that is gone.
  `.planning/phases/07-skill-engine-hardening/07-05-PLAN.md:60` has `stop()` clear all
  timers; the property bounds what it leaves, and does not rule it out.

The answer to a conflict carries its group and no space; `SpaceManager.ts:148`
says a conflict group is unique, and two spaces with the same skills have the
same groups: one answer settles both (`ResolveConflict`). A skill registered for
`*` is not in a space added later. `xentient_register_skill` answers "registered"
for a space that does not exist, where `Targets` is empty.

## Runs

| Run | Instance | Shows |
|---|---|---|
| `core_system` | half-minute units, 1 message on each way, fairness | ModeManager and the composition, safety and settling, with crashes |
| `voice_path` | cap 2, 5 chunks, fairness | accumulator, order of audio, every start gets its end |
| `audio_server` | 3 sockets, fairness | safety, and reconnection unless a loss is silent |
| `audio_server_second` | 3 sockets | two open connections (violation) |
| `skills` | 1 builtin, 4 skills in one group, 2 events, 5 objects, 2 timeouts | timers, the tools that change them, what fires, conflicts |
| `skill_disabled` | 1 builtin, 2 skills, 5 objects | a disabled skill fires (violation) |
| `cam_relay` | 4 ids, 3 chunks, buffer of 2, 1 camera reset, 10 units of time | whole frames, refinement |
| `camera_server` | 3 dashboards, 2 places, 2 frames, timeout of 2, fairness | clients, freshness, online state |
| `brain_turns` | 2 turns of 2 tokens, fairness | what is spoken, every turn ends |
| `sessions` | 2 sessions of 2 files, one of the fixtures fails, fairness | durability, descriptors, refinement, every session ends |
| `dashboard` | 2 Cores, 1 page with 2 streams, 2 modes, 2 restarts, fairness | what subscribers and pages show, starting up |
| `spaces` | 2 spaces, 2 skills, 3 executors, 2 conflicts, log of 2, 3 firings | maps, log, stopped executors |

Bounds. ModeManager has none but the count of `age`, which stops at the longest
timeout, here 2 and 3 units. In VoicePath two buffered chunks are enough for the cap to cut an
utterance in the middle and again, and five spoken ones for two utterances, the
second overtaking the rest of the first. Three sockets are the failed, the newer
and the refused one. Two timeouts are what it takes to replace an entry; five
objects are one more than two skills need for a copy and an original each. Of the four
skills of the Brain two wait for one event, one for another and one for the sensors, so
that those who are no rivals are in one group with those who are. One of them has a
cooldown and none an escalation, whose flag no property looks at. In
CamRelay four ids wrap within the ten units, in which up to six frames are taken;
the real ratio of id space to timeout is far larger, and `CamAssumption` states
what is needed of it. In CoreSystem the three ways (commands, notifications,
calls) hold one message each, so that three late messages of different age meet;
two on each way give the same verdicts, in minutes instead of seconds, and the
safety properties are proved for every bound. In
CameraServer two frames tell a fresh one from a stale one, and a third dashboard
is the one that is turned away. In BrainTurns two tokens are two sentences, one
and a rest, or one that is cut by a failure, and two turns overlap in every way.

In Sessions two sessions overlap and one starts after a crash, and two files are
enough for one to be durable and the other not. In Dashboard one Core can be in
the way of the next, and a page's next stream opens before the end of the last is
noticed. In Spaces three executors are those of both spaces and one that is
stopped; three firings are one more than the log holds.

Deadlock is checked except for the skill engine, which `Stop` ends, and for Spaces,
which the bound on firings ends.

Symmetry: objects of SkillExecutor, executors of Spaces and sockets of the
violation, which no property distinguishes and no liveness property is checked
with.

## Fairness

Weak fairness of handlers with a message to handle is Node's event loop, of timer
callbacks its timer queue, of `Tick` the clock. `Start` is fair because the Brain
starts Core as its child and whoever runs the Brain starts it again; TimePasses
is strongly fair in CoreSystem because the clock goes on between any two
messages. In VoicePath the node's loop and its reconnecting are fair, the loop
strongly because it meets MQTT up between two drops; the WebSocket and speaking
are not. In AudioServer the firmware reconnects (`setReconnectInterval`), a socket that ws
knows the end of, or has refused, gets its `close` (ws's close timer ends one that
hangs), and so does one whose end the node sent. A connection left without a word need
never end, as nothing keeps it alive or notices that it is not. In
CameraServer only time and the timer are fair. In BrainTurns the services answer
or fail, which the code leaves to their client libraries, and both event loops
run. In
Sessions timers fire, the calls of the file system return and the client
connects and sends; nobody need start the simulator again. In Dashboard only the
processes of Supervisor are fair: they run, calls are answered and errors
emitted, and nobody need start the Brain or the broker or end a stray Core.
Nothing else is fair: no party outside need act.

## Proofs

Every safety property of the passing runs, state or action, is a theorem, and so are
the type invariants, of which the runs check one. No theorem assumes
anything but the named assumptions on constants, which say what the code makes them.

`CoreSystemProofs` begins with ModeManager: `ModeTypeOK`, `IdleDeadline`,
`HardwareFollowsMode`, `IdleTimeoutDemotes` and `TableOrOverride` from `IdleAssumption`
(timeouts are positive and within `MaxAge`). `IdleDeadline` is not inductive alone:
that a stopped Core has no timer, and that a timed mode's timer and age add up, are
the strengthening; the two action properties follow from it, since a timer that
fires in active or listen meets a table entry for its target. Then every step of
CoreSystem is a step of ModeManager or leaves it alone, given that the modes waiting
in the queues are modes. With ModeManager's own invariant this gives `TypeOK`,
`SpaceFollowsMode` and `MotionListens`, for every bound on the queues, and that the
composition implements ModeManager's specification (`CoreImplementsModeManager`), so
that what is proved there, `IdleDeadline` for one, holds of the composition.

`VoicePathProofs` proves `TypeOK`, `AccumulatorConsistent`, `AudioInOrder` and
`VoiceEndFresh` for every cap and number of chunks. The inductive invariant is the
conjunction of the first three: the order of what is in flight is what makes an
append to the buffer keep its order, and the flag tells that a flush has a last chunk
to remember. That a `voice_end` is fresh follows (`NotificationStep`): the buffer, and
the chunk that makes it overflow, are later than what was flushed. For AudioServer it
proves `ServerTypeOK`, `ActiveNotEnded` and `SingleNodeUntilError` for any set of
sockets. Only together are they inductive: that the active connection is an accepted
one makes a refusal right, and the error history is tied to the sockets in state
failed.

`CameraProofs` proves of CamRelay `RelayTypeOK`, `FramesWhole` and the refinement of
`FrameDelivery` (`RelayDelivers`), for ids of any width, frames and buffers of any
size and any timeout, from `CamAssumption`: the captures of one round of ids take
longer than a partial frame may wait. `RelayIInv` is needed because an id says
nothing by itself. What is on the wire is in the order it was sent (`OnWire`); a
partial frame has its first pieces in place (`Partial`), and the wire has only what
comes after its last piece (`Passed`) and after the frame forwarded last (`Later`);
until a reset of the camera, each capture after the one of a chunk or of a partial
frame has taken a period (`Spacing`). A chunk that has the id of the partial frame is
thus of the same capture, or `FrameIds` captures later (`IdsRepeat`), and then the loop
would have dropped the partial frame already (`Prompt`). `Later` is also what the
refinement needs: forwarding delivers a capture later than the last one, and no other
step delivers.

Of CameraServer it proves `TypeOK` with the cap on the clients, `DashboardsCurrent`,
`OnlineIffRecent` and `TurnedAwayOnlyIfFull`. What is added to them is that only taken connections are in the
set, so that a name that comes back is not there twice, that a stopped Core holds no
frame and no timer, and, as the set of names may be infinite, that finitely many are
taken at a time, and in the set.

`SkillExecutorProofs` proves `TypeOK` and the properties of `skills` for any skills, triggers,
groups and priorities and any number of objects and timeouts. The lemmas on the heap
show that an object is in use exactly as long as map, timers or conflicts refer to it,
through every copy. The invariant adds how map, handles and timers go together. The map
has a skill under its own id (`MapOwn`); a timer of a skill that was not registered over
it is the one its handle stops (`OneTimer`), without which a handle that is overwritten
would leave a builtin's timer nobody can stop; the handles are those of the skills that
are in the map and on a schedule (`HandlesScheduled`), and hold the object of the map
unless `registerSkill` made two (`HandlesMap`). Conflicts of one group at a time are in
`overlapped` (`OverlapKnown`), without which a conflict that ends would take with it the
entry of another. `FiresWhatIsEnabled` follows, case by case of what wakes a skill: a
candidate of an event or a tick is the object of the map (`CandidateIsMapped`), and a
timer's is, by `OneTimer` and `HandlesMap`. For `RivalsOfOneEvent`, conflicts are raised
between candidates of one trigger (`ConflictIsOldOrWoken`), which are objects of the map
and so of different skills, and no step makes an object in use the object of another
skill (`SkillStays`).

`SessionsProofs` proves for any number of sessions and files that what is reported
complete is stored (`CompleteIsStored`), that nothing but a session that writes has a
file open (`NothingLeftOpen`), and that `Sessions` implements `SessionReports`
(`Implementation`). The invariant says where each session is: one that has not begun
has no files (`Untouched`); one that writes has the files before its place durable and
none after it (`FilesInTurn`); the messages of a session are in the outbox in the order
of its states, later than what was heard and not beyond what was said (`InOrder`); and
one that claims to be complete, in the outbox or at the subscriber, has all files
durable (`ClaimedIsSafe`). A power failure takes only what is volatile, so that the
last two outlive it. For the refinement, `Deliver` is a step of the subscriber by
`InOrder` and `ClaimedIsSafe`, and any other step adds at most one session to those
stored. For the descriptors it is added that a session writes only while the process
is up.

`SpacesProofs` proves the three properties of `Spaces` for any finite set of
executors and any capacity of the log. `SpacesRun` is inductive with the types, by
one lemma: a step that changes neither map nor whose an executor is keeps it
(`KeptStep`), which leaves the steps that do. That a space has an executor of its
own (`OneSpaceEach`) follows from the field `space`. For the log, the suffix that
`LogAppend` keeps has the numbers of the last firings again (`AppendRecent`), for any
order in which the executors of an event fire. `StoppedOnlyFinishes` follows, as
tools and events go to mapped executors only, and what runs is what is mapped.

`BrainTurnsProofs` proves `TypeOK`, `SpokenInOrder` and `CompleteMeansSpoken` for any
turns and any limit on an answer. The invariant follows the answer from the LLM to
AudioServer: what is played, what is in the pipe, what is in the stream and what is
in synthesis, or else in the buffer, are consecutive tokens up to the last that was
heard (`Line`). A turn has at most one call in the pipe (`Queued`), and its consumer
waits for that call (`Sound`), so that no audio overtakes other audio. A stream that
was destroyed promises nothing of the rest, but what is played and in the pipe stays
a beginning of the answer. Which states of the two coroutines and of the stream go
together (`Shape`) shows that a complete turn has nothing left anywhere.

`DashboardProofs` proves `TypeOK`, `StreamsAreClients`, `BrokerCatchesUp` and
`PagesCurrent` for any pages, streams, modes, Cores and restarts and any number of
messages on their way. The types need that `main` is only tried while attempts are
left. The last two properties compare the ends of three queues with the mode; the
invariant says it by position. The last status not acknowledged is the mode, whether
the broker has it or not (`LastIsMode`), so that sending all of them again ends where
it did; if the broker has them all, it has passed the mode on (`TakenIsMode`); what
comes back to Core ends with what was passed on last (`LoopIsLast`), and a page that
misses nothing shows it (`ShownIsLast`), unless a simulator came in between. That a connection subscribes once
(`SubscribesOnce`) is what makes `Statuses`, which leaves out one subscription, leave
out all (`StatusesProperties`).

Only model-checked: liveness (`SettlesAsleep`, `StartGetsEnd`, `ReconnectsUnlessSilent`,
`OfflineInTheEnd`, `EveryTurnEnds`, `SessionReported`, `StartsUp`), which rests on
fairness and so on ENABLED, and the two properties of the code that TLC refutes.

## Not modelled

The wire formats and the receiver automaton of the UART; the MCP SDK, the mqtt
and ws libraries and the cloud services, beyond what they do to the modelled
state (of the MCP SDK the code uses `McpServer.notification`, for which `core.ts` has
to silence the type checker, and `Client.on`, as if they delivered notifications, and
so they do here); drivers, web pages, 3D models and sketches. Further:

* The monolithic harness (`index.ts`, `engine/Pipeline.ts`): its pipeline never
  starts listening.
* The requests of ControlServer and the tools of the MCP server that read a value
  or publish one message; `updateSkill` by way of SpaceManager; the queries of the
  log, of which `limit` 0 returns every entry, as `slice(-0)` does.
* `contextBuilders.ts`: pure functions on which nothing of the state depends.
* `DeepgramProvider.transcribeStream`, which parks on a promise that only the next
  transcript or the close resolves: the basic Brain transcribes whole utterances.
* The retries of `firmware/src/mqtt_client.cpp`. The modules have the link go down
  and come back at any time, which includes what they make of it.

Security is not considered.

## Plan

1. Proofs: what the abstract specifications promise, as theorems about them
   (`FrameDelivery`, `SessionReports`), so that it follows for what implements them.
2. The composition of `Spaces` with `CoreSystem`, and an executor of `Spaces` as an
   abstraction of `SkillExecutor`.
3. `CamUart`: the receiver automaton on a small alphabet, refining CamRelay's
   lossy link.
4. `MqttReconnect`: the node's backoff by `millis()`, which wraps.
