----------------------------- MODULE Dashboard -----------------------------
(***************************************************************************)
(* How the test pages come to show the mode (harness/src/comms/            *)
(* ControlServer.ts and MqttClient.ts).  ModeManager publishes the mode    *)
(* with QoS 1; Core subscribes to what it publishes, and passes it on to   *)
(* the pages over server-sent events.  A page asks for nothing: it shows   *)
(* the last mode it was sent, and its EventSource connects again when the  *)
(* stream breaks.                                                          *)
(*                                                                         *)
(* The MQTT library keeps a message until it is acknowledged and sends it  *)
(* again after a reconnect, before `connect' is emitted and so before Core *)
(* has subscribed again: a status may pass the broker twice, and Core not  *)
(* hear of it at all.  Only Core subscribes to the status; the simulators  *)
(* (sim/node-base.ts, sim/brain.ts) publish it too, as an echo of the mode *)
(* they are told to be in.                                                 *)
(* Supervisor has how Core, the Brain and the broker come and go; the Core *)
(* here is the one that serves.                                            *)
(***************************************************************************)
EXTENDS Supervisor, Sequences, SequencesExt

CONSTANTS
  Pages,        \* test pages
  Conns,        \* bound: streams at a time, on the side of the server
  Modes,        \* the modes, with
  Asleep,       \*   the one Core starts in and a page shows when it is loaded
  MaxMessages   \* bound: statuses on their way when a further one is published

Subscribe == "subscribe"

ASSUME DashboardAssumption ==
  /\ Asleep \in Modes /\ Subscribe \notin Modes
  /\ None \notin Conns \cup Pages
  /\ MaxMessages \in Nat

VARIABLES
  mode,         \* ModeManager.current
  announced,    \* history: this Core has published a mode
  link,         \* MqttClient is connected
  subscribed,   \* the broker has Core's subscription
  outgoing,     \* what is sent or to be sent, and not acknowledged
  processed,    \* how much of it the broker has had on this connection
  loop,         \* statuses on their way back to Core
  latest,       \* history: the last status of Core that the broker has had
  echoed,       \* history: a simulator's status reached Core's subscription since
  owner,        \* the page at the other end of each stream
  sseClients,
  stream,       \* the stream each page listens to
  shown,        \* the mode each page shows
  missed        \* history: pages that miss the mode Core published last

mqttVars == <<link, subscribed, outgoing, processed, loop, latest, echoed>>
pageVars == <<owner, sseClients, stream, shown>>
vars == <<supervisorVars, mode, announced, mqttVars, pageVars, missed>>

Init ==
  /\ SupervisorInit
  /\ mode = Asleep /\ announced = FALSE
  /\ link = FALSE /\ subscribed = FALSE
  /\ outgoing = <<>> /\ processed = 0 /\ loop = <<>>
  /\ latest = Asleep /\ echoed = FALSE
  /\ owner = [c \in Conns |-> None] /\ sseClients = {}
  /\ stream = [p \in Pages |-> None]
  /\ shown = [p \in Pages |-> Asleep]
  /\ missed = Pages

Serves == Serving # {}

-----------------------------------------------------------------------------
\* MQTT.

\* The statuses among some messages: MqttClient subscribes once in a connection.
Statuses(messages) == RemoveFirst(messages, Subscribe)

\* Mutant: the mode is published before it is set.
MutantAnnounce(m) ==
  /\ Serves /\ Len(outgoing) + Len(loop) < MaxMessages
  /\ mode' = m
  /\ announced' = TRUE
  /\ outgoing' = Append(outgoing, mode)
  /\ UNCHANGED <<supervisorVars, link, subscribed, processed, loop, latest, echoed, pageVars, missed>>

\* Whoever sets it (POST /api/mode, a tool, a timer), the mode is published.
Announce(m) ==
  /\ Serves /\ Len(outgoing) + Len(loop) < MaxMessages
  /\ mode' = m
  /\ announced' = TRUE
  /\ outgoing' = Append(outgoing, m)
  /\ UNCHANGED <<supervisorVars, link, subscribed, processed, loop, latest, echoed, pageVars, missed>>

\* The library connects: it sends again what was not acknowledged, then emits
\* `connect', upon which MqttClient subscribes.
Connect ==
  /\ Serves /\ broker /\ ~link
  /\ link' = TRUE
  /\ outgoing' = Append(outgoing, Subscribe)
  /\ processed' = 0
  /\ UNCHANGED <<supervisorVars, mode, announced, subscribed, loop, latest, echoed, pageVars, missed>>

\* The broker takes the next message, for those that are subscribed.
BrokerTakes ==
  /\ link /\ processed < Len(outgoing)
  /\ processed' = processed + 1
  /\ LET m == outgoing[processed + 1]
     IN  \/ /\ m = Subscribe
            /\ subscribed' = TRUE
            /\ UNCHANGED <<loop, latest, echoed, missed>>
         \/ /\ m # Subscribe /\ subscribed
            /\ loop' = Append(loop, m)
            /\ latest' = m /\ echoed' = FALSE
            /\ UNCHANGED <<subscribed, missed>>
         \/ /\ m # Subscribe /\ ~subscribed
            /\ missed' = Pages
            /\ latest' = m /\ echoed' = FALSE
            /\ UNCHANGED <<subscribed, loop>>
  /\ UNCHANGED <<supervisorVars, mode, announced, link, outgoing, pageVars>>

\* A simulator that is told of a mode publishes a status of its own (one, as a
\* bound, between two of Core's).
Echo(m) ==
  /\ subscribed /\ ~echoed /\ Len(outgoing) + Len(loop) < MaxMessages
  /\ loop' = Append(loop, m)
  /\ echoed' = TRUE
  /\ UNCHANGED <<supervisorVars, mode, announced, link, subscribed, outgoing, processed,
                 latest, pageVars, missed>>

\* Core has the acknowledgement of the first.
Acknowledge ==
  /\ link /\ processed > 0
  /\ outgoing' = Tail(outgoing)
  /\ processed' = processed - 1
  /\ UNCHANGED <<supervisorVars, mode, announced, link, subscribed, loop, latest, echoed, pageVars, missed>>

\* Mutant: QoS 0, what was sent is not kept.
MutantUnacknowledged == IF link THEN <<>> ELSE outgoing

\* Published with QoS 1: the mqtt library keeps what is not acknowledged.
Unacknowledged == outgoing

\* The broker ends, and with it the session.  What it still had for Core is
\* lost; if it is back for the first attempt of the library, Core lives on.
LoseBroker ==
  /\ BrokerStops
  /\ link' = FALSE /\ subscribed' = FALSE /\ processed' = 0
  /\ outgoing' = Statuses(Unacknowledged)
  /\ missed' = IF loop = <<>> THEN missed ELSE Pages
  /\ loop' = <<>>
  /\ UNCHANGED <<mode, announced, latest, echoed, pageVars>>

-----------------------------------------------------------------------------
\* Server-sent events.

\* broadcastSSE.  Writing to a stream that is broken does nothing.
Broadcast(m) ==
  LET reached == {p \in Pages : stream[p] \in sseClients}
  IN  /\ shown' = [p \in Pages |-> IF p \in reached THEN m ELSE shown[p]]
      /\ missed' = Pages \ reached

\* mqtt.on("modeStatus")
ModeStatus ==
  /\ loop # <<>>
  /\ loop' = Tail(loop)
  /\ Broadcast(Head(loop))
  /\ UNCHANGED <<supervisorVars, mode, announced, link, subscribed, outgoing, processed,
                 latest, echoed, owner, sseClients, stream>>

\* GET /api/events
OpenEvents(p, c) ==
  /\ Serves /\ stream[p] = None /\ owner[c] = None
  /\ owner' = [owner EXCEPT ![c] = p]
  /\ sseClients' = sseClients \cup {c}
  /\ stream' = [stream EXCEPT ![p] = c]
  /\ UNCHANGED <<supervisorVars, mode, announced, mqttVars, shown, missed>>

\* A stream breaks; the server hears of it later.
StreamBreaks(p) ==
  /\ stream[p] # None
  /\ stream' = [stream EXCEPT ![p] = None]
  /\ UNCHANGED <<supervisorVars, mode, announced, mqttVars, owner, sseClients, shown, missed>>

\* Mutant: all the streams of the page are dropped.
MutantRequestClosed(c) ==
  /\ owner[c] # None /\ stream[owner[c]] # c
  /\ owner' = [owner EXCEPT ![c] = None]
  /\ sseClients' = {d \in sseClients : owner[d] # owner[c]}
  /\ UNCHANGED <<supervisorVars, mode, announced, mqttVars, stream, shown, missed>>

\* req.on("close")
RequestClosed(c) ==
  /\ owner[c] # None /\ stream[owner[c]] # c
  /\ owner' = [owner EXCEPT ![c] = None]
  /\ sseClients' = sseClients \ {c}
  /\ UNCHANGED <<supervisorVars, mode, announced, mqttVars, stream, shown, missed>>

\* The page is loaded again.
Reload(p) ==
  /\ stream' = [stream EXCEPT ![p] = None]
  /\ shown' = [shown EXCEPT ![p] = Asleep]
  /\ missed' = missed \cup {p}
  /\ UNCHANGED <<supervisorVars, mode, announced, mqttVars, owner, sseClients>>

-----------------------------------------------------------------------------
\* Core and the Brain.

\* A Core that does not serve yet or any more has none of this.
CoreUnchanged == UNCHANGED <<mode, announced, mqttVars, pageVars, missed>>

\* The serving Core ends, with its streams, its memory and its messages.
Ended ==
  /\ mode' = Asleep /\ announced' = FALSE
  /\ link' = FALSE /\ subscribed' = FALSE
  /\ outgoing' = <<>> /\ processed' = 0 /\ loop' = <<>>
  /\ owner' = [c \in Conns |-> None] /\ sseClients' = {}
  /\ stream' = [p \in Pages |-> None]
  /\ missed' = Pages
  /\ echoed' = FALSE
  /\ UNCHANGED <<latest, shown>>

\* What happens to the processes is what Supervisor says; a new Core takes the
\* place of the old one with nothing of it.
Do(A) == A /\ IF Serves /\ Serving' = {} THEN Ended ELSE CoreUnchanged

Process ==
  \/ \E c \in Cores : \/ Do(Answer(c)) \/ Do(Serve(c)) \/ Do(CoreDies(c))
                      \/ Do(StrayDies(c)) \/ Do(Spawn(c))
  \/ Do(Connected) \/ Do(MainReturns) \/ Do(MainFails) \/ Do(BackoffOver) \/ Do(BrainEnds)
  \/ Do(OperatorStops) \/ Do(OperatorStarts) \/ Do(BrokerStarts)

Next ==
  \/ Process
  \/ \E m \in Modes : Announce(m) \/ Echo(m)
  \/ Connect \/ BrokerTakes \/ Acknowledge \/ LoseBroker \/ ModeStatus
  \/ \E p \in Pages, c \in Conns : OpenEvents(p, c)
  \/ \E p \in Pages : StreamBreaks(p) \/ Reload(p)
  \/ \E c \in Conns : RequestClosed(c)

Spec == Init /\ [][Next]_vars

\* The processes run, calls are answered, errors emitted.  Nobody has to start
\* the Brain or the broker, or to end a stray Core.
Fairness ==
  /\ \A c \in Cores : /\ WF_vars(Do(Answer(c))) /\ WF_vars(Do(Serve(c)))
                      /\ WF_vars(Do(CoreDies(c)))
  /\ WF_vars(\E c \in Cores : Do(Spawn(c)))
  /\ WF_vars(Do(Connected)) /\ WF_vars(Do(MainReturns)) /\ WF_vars(Do(MainFails))
  /\ WF_vars(Do(BackoffOver))

FairSpec == Spec /\ Fairness

-----------------------------------------------------------------------------
\* Type invariant.
TypeOK ==
  /\ SupervisorTypeOK
  /\ mode \in Modes /\ announced \in BOOLEAN
  /\ link \in BOOLEAN /\ subscribed \in BOOLEAN
  /\ outgoing \in Seq(Modes \cup {Subscribe}) /\ processed \in 0..Len(outgoing)
  /\ loop \in Seq(Modes) /\ latest \in Modes /\ echoed \in BOOLEAN
  /\ owner \in [Conns -> Pages \cup {None}] /\ sseClients \subseteq Conns
  /\ stream \in [Pages -> Conns \cup {None}]
  /\ shown \in [Pages -> Modes] /\ missed \subseteq Pages

\* The statuses the broker has not taken yet.
ToTake == Statuses(SubSeq(outgoing, processed + 1, Len(outgoing)))

\* A page that has not missed the last status shows the mode as soon as the
\* statuses on their way to it have come: none is lost, doubled or overtaken
\* between ModeManager, the broker, Core and the streams, and a page misses one
\* only while it has no stream, or when the broker has it while Core is not
\* subscribed or ends before Core has it back.  A status of a simulator
\* (sim/node-base.ts:60-66, sim/brain.ts:197-204) is shown like Core's own, until
\* Core publishes again.
PagesCurrent ==
  \A p \in Pages :
    Serves /\ announced /\ p \notin missed /\ (echoed => ToTake # <<>>)
      => Last(<<shown[p]>> \o loop \o ToTake) = mode

\* What the broker has had last of Core's statuses, or is still to be given, is
\* the mode Core is in, however often the connection is lost: what is sent twice
\* is sent in order, and no status is given up before it is acknowledged.
BrokerCatchesUp ==
  Serves /\ announced => Last(<<latest>> \o ToTake) = mode

\* A page that listens is a client of the server, and a client is a stream
\* whose end the server has not heard of: the late end of one stream does not
\* cut off the next one of the same page.
StreamsAreClients ==
  /\ \A p \in Pages : stream[p] # None => stream[p] \in sseClients /\ owner[stream[p]] = p
  /\ sseClients = {c \in Conns : owner[c] # None}
=============================================================================
