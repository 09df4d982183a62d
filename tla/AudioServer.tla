---------------------------- MODULE AudioServer ----------------------------
(***************************************************************************)
(* The WebSocket endpoint of Core for the node base (harness/src/comms/    *)
(* AudioServer.ts): one accepted connection at a time, binary frames       *)
(* routed by their prefix byte, and TTS audio sent back.                   *)
(*                                                                         *)
(* A socket object of the ws library leaves readyState OPEN when the end   *)
(* of its peer, or an error, is known, and emits `close' only afterwards;  *)
(* a failed one emits `error' in between.  The node (firmware/src/         *)
(* ws_audio.cpp) opens a new socket whenever it has none.  It may vanish   *)
(* without a word: no side sends pings, so that the server learns of it    *)
(* only if TCP has something to deliver.                                   *)
(***************************************************************************)
EXTENDS Naturals, FiniteSets

CONSTANTS
  Sockets,  \* identities of connections; a closed one may come back as new
  None

ASSUME SocketAssumption == None \notin Sockets

VARIABLES
  sock,       \* what the server knows of each connection
  active,     \* AudioServer.activeConnection
  nodeSock,   \* the connection the node is using
  silent,     \* the connections the node left without a word to the server
  emitted,    \* the event emitted for the last frame: who sent it and what it was
  sentTo,     \* where the last sendAudio went
  errorSeen   \* history: some accepted connection ended with `error'

serverVars == <<sock, active, nodeSock, silent, emitted, sentTo, errorSeen>>

\* "free" never connected or gone, "open" accepted, "closing" accepted with its
\* end known to ws and nothing emitted yet, "failed" accepted with an `error'
\* emitted and its `close' to come, "rejected" turned away (1008).
SocketStates == {"free", "open", "closing", "failed", "rejected"}

\* The accepted connections whose handlers have not been told of an end.
Accepted == {s \in Sockets : sock[s] \in {"open", "closing"}}

\* The frames that handleBinary distinguishes: by prefix byte, and a camera
\* frame by whether its length, its claimed size and its JPEG marker are good.
Frames == {"camera", "badCamera", "audio", "unprefixed", "empty"}

ServerInit ==
  /\ sock = [s \in Sockets |-> "free"]
  /\ active = None
  /\ nodeSock = None
  /\ silent = {}
  /\ emitted = [from |-> None, event |-> "none"]
  /\ sentTo = None
  /\ errorSeen = FALSE

-----------------------------------------------------------------------------
\* Mutant: the guard is the socket's state, not whether one is active.
MutantConnection(s) ==
  /\ nodeSock = None
  /\ sock[s] = "free"
  /\ nodeSock' = s
  /\ sock' = [sock EXCEPT ![s] = "open"]
  /\ active' = s
  /\ UNCHANGED <<silent, emitted, sentTo, errorSeen>>

\* wss.on("connection"): the node connects.  A second connection is closed
\* with 1008 and gets no handlers.
Connection(s) ==
  /\ nodeSock = None
  /\ sock[s] = "free"
  /\ nodeSock' = s
  /\ IF active # None
     THEN sock' = [sock EXCEPT ![s] = "rejected"] /\ UNCHANGED active
     ELSE sock' = [sock EXCEPT ![s] = "open"] /\ active' = s
  /\ UNCHANGED <<silent, emitted, sentTo, errorSeen>>

\* Whatever ends a connection, the node learns of it if it still uses it.
NodeForgets(s) == nodeSock' = IF nodeSock = s THEN None ELSE nodeSock

\* Mutant: a closed connection stays the active one.
MutantClose(s) ==
  /\ sock[s] # "free"
  /\ sock' = [sock EXCEPT ![s] = "free"]
  /\ NodeForgets(s)
  /\ silent' = silent \ {s}
  /\ UNCHANGED <<active, emitted, sentTo, errorSeen>>

\* ws.on("close"): activeConnection is cleared whichever connection closed,
\* unless it was a rejected one, which has no handler.
Close(s) ==
  /\ sock[s] # "free"
  /\ sock' = [sock EXCEPT ![s] = "free"]
  /\ active' = IF sock[s] = "rejected" THEN active ELSE None
  /\ NodeForgets(s)
  /\ silent' = silent \ {s}
  /\ UNCHANGED <<emitted, sentTo, errorSeen>>

\* ws has the close frame, the end or the failure of the stream: readyState is
\* CLOSING and activeConnection still names the socket until `close' comes.
Closing(s) ==
  /\ sock[s] = "open"
  /\ sock' = [sock EXCEPT ![s] = "closing"]
  /\ NodeForgets(s)
  /\ silent' = silent \ {s}
  /\ UNCHANGED <<active, emitted, sentTo, errorSeen>>

\* ws.on("error"): activeConnection is cleared, `close' follows.
Error(s) ==
  /\ s \in Accepted
  /\ sock' = [sock EXCEPT ![s] = "failed"]
  /\ active' = None
  /\ errorSeen' = TRUE
  /\ NodeForgets(s)
  /\ silent' = silent \ {s}
  /\ UNCHANGED <<emitted, sentTo>>

\* The node gives up its connection, and the end of it is on its way; or it
\* resets or drops off the network, and nothing tells the server.
NodeLost(quietly) ==
  /\ nodeSock # None
  /\ nodeSock' = None
  /\ silent' = IF quietly THEN silent \cup {nodeSock} ELSE silent
  /\ UNCHANGED <<sock, active, emitted, sentTo, errorSeen>>

-----------------------------------------------------------------------------
\* The event handleBinary emits for a frame; an unprefixed one passes as PCM.
Route(frame) ==
  CASE frame = "camera"                   -> "cameraFrame"
    [] frame \in {"audio", "unprefixed"}  -> "audioChunk"
    [] frame \in {"badCamera", "empty"}   -> "none"

\* ws.on("message"): frames already received are still emitted while closing.
Message(s, frame) ==
  /\ s \in Accepted
  /\ emitted' = [from |-> s, event |-> Route(frame)]
  /\ UNCHANGED <<sock, active, nodeSock, silent, sentTo, errorSeen>>

\* sendAudio: to the active connection if its readyState is OPEN, else to
\* nobody.  What TCP cannot deliver it gives up in the end, so that the server
\* will learn of a silent connection it sent to.
SendAudio ==
  /\ sentTo' = IF active # None /\ sock[active] = "open" THEN active ELSE None
  /\ silent' = silent \ {sentTo'}
  /\ UNCHANGED <<sock, active, nodeSock, emitted, errorSeen>>

ServerNext ==
  \/ \E s \in Sockets : Connection(s) \/ Closing(s) \/ Close(s) \/ Error(s)
  \/ \E s \in Sockets, frame \in Frames : Message(s, frame)
  \/ \E quietly \in BOOLEAN : NodeLost(quietly)
  \/ SendAudio

ServerSpec == ServerInit /\ [][ServerNext]_serverVars

\* The firmware reconnects (setReconnectInterval); ws emits the `close' of a
\* connection that is no longer open (its close timer ends one that hangs), and
\* of one whose end the node sent.  Nothing ends a silent one.
ServerFairness ==
  /\ WF_serverVars(\E s \in Sockets : Connection(s))
  /\ \A s \in Sockets : WF_serverVars(s # nodeSock /\ s \notin silent /\ Close(s))
  /\ \A s \in Sockets : WF_serverVars(sock[s] # "open" /\ Close(s))

ServerFairSpec == ServerSpec /\ ServerFairness

-----------------------------------------------------------------------------
\* Type invariant.
ServerTypeOK ==
  /\ sock \in [Sockets -> SocketStates]
  /\ active \in Sockets \cup {None}
  /\ nodeSock \in Sockets \cup {None}
  /\ silent \subseteq Sockets
  /\ emitted \in [from : Sockets \cup {None}, event : {"none", "cameraFrame", "audioChunk"}]
  /\ sentTo \in Sockets \cup {None}
  /\ errorSeen \in BOOLEAN

\* Whatever sequence of errors, closes and reconnections happened, the active
\* connection is one whose end no handler has been told of: `active' outlives
\* readyState OPEN (hence the test in sendAudio), but not the `close' event, so
\* that a connection that is gone does not keep the node out.
ActiveNotEnded == active # None => active \in Accepted

\* As long as no connection ended with `error', the accepted connection, if
\* there is one, is the active one: the node is heard and can be spoken to.
SingleNodeUntilError == ~errorSeen => Accepted = {active} \ {None}

\* The node uses a connection the server accepted.
Connected == nodeSock # None /\ sock[nodeSock] = "open"

\* A node without a connection gets an accepted one in the end, through
\* rejections and the late ends of the connections it left, unless the server
\* takes for its node a connection the node left without a word.
ReconnectsUnlessSilent == (nodeSock = None) ~> (Connected \/ active \in silent)

\* AudioServer.ts:31, "Reject second connection while one is already active":
\* no two connections are served.  The close event of a connection that failed
\* clears a newer activeConnection, and a third one is accepted.
AtMostOneOpen == Cardinality(Accepted) <= 1
=============================================================================
