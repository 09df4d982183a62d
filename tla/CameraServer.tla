---------------------------- MODULE CameraServer ----------------------------
(***************************************************************************)
(* The camera stream for dashboards (harness/src/comms/CameraServer.ts):   *)
(* every frame that AudioServer takes from the node goes to all connected  *)
(* dashboards, a late one starts with the latest frame, and the camera is  *)
(* offline when no frame has come for idleTimeoutMs.                       *)
(*                                                                         *)
(* A socket of the ws library that is going down is no longer open before  *)
(* its `close' is emitted, and may emit `error' in between.                *)
(***************************************************************************)
EXTENDS Naturals, FiniteSets

CONSTANTS
  Sockets,                \* connections of dashboards; a gone one may come back
  MAX_DASHBOARD_CLIENTS,
  Frames,                 \* camera frames
  IdleTimeout,            \* idleTimeoutMs, in units of time
  None                    \* no frame

ASSUME CameraAssumption ==
  /\ MAX_DASHBOARD_CLIENTS \in Nat \ {0}
  /\ IdleTimeout \in Nat \ {0}
  /\ None \notin Frames

VARIABLES
  running,    \* whether Core's process is there
  sock,       \* what becomes of each connection
  clients,    \* CameraServer.clients
  got,        \* the frame last sent to each connection
  latest,     \* latestJpeg and latestFrameId
  online,
  idleTimer,  \* units of time until the idle timer fires, or Off
  since       \* history: units since the last frame, up to IdleTimeout

vars == <<running, sock, clients, got, latest, online, idleTimer, since>>

Off == IdleTimeout + 1

\* "open" accepted, "closing" accepted and going down, "rejected" turned away
\* with 1008: it has no handlers.
SocketStates == {"free", "open", "closing", "rejected"}

Init ==
  /\ running = TRUE
  /\ sock = [c \in Sockets |-> "free"]
  /\ clients = {}
  /\ got = [c \in Sockets |-> None]
  /\ latest = None
  /\ online = FALSE
  /\ idleTimer = Off
  /\ since = IdleTimeout

-----------------------------------------------------------------------------
\* Mutant: a late dashboard is blank until the next frame.
MutantAdmit(c) ==
  /\ sock' = [sock EXCEPT ![c] = "open"]
  /\ clients' = clients \cup {c}
  /\ got' = [got EXCEPT ![c] = None]

\* The connection is taken and gets the latest frame, if there is one.
Admit(c) ==
  /\ sock' = [sock EXCEPT ![c] = "open"]
  /\ clients' = clients \cup {c}
  /\ got' = [got EXCEPT ![c] = latest]

Full == Cardinality(clients) >= MAX_DASHBOARD_CLIENTS

\* wss.on("connection")
Connection(c) ==
  /\ running
  /\ sock[c] = "free"
  /\ \/ /\ Full
        /\ sock' = [sock EXCEPT ![c] = "rejected"]
        /\ UNCHANGED <<clients, got>>
     \/ ~Full /\ Admit(c)
  /\ UNCHANGED <<running, latest, online, idleTimer, since>>

\* The dashboard closes its end, or goes away: `close' is to come.
GoesDown(c) ==
  /\ sock[c] = "open"
  /\ sock' = [sock EXCEPT ![c] = "closing"]
  /\ UNCHANGED <<running, clients, got, latest, online, idleTimer, since>>

\* ws.on("error"): the socket is going down, `close' follows.
Error(c) ==
  /\ sock[c] = "open"
  /\ sock' = [sock EXCEPT ![c] = "closing"]
  /\ clients' = clients \ {c}
  /\ UNCHANGED <<running, got, latest, online, idleTimer, since>>

\* Mutant: without the handler, only an error gives the place back.
MutantClose(c) ==
  /\ sock[c] \in {"closing", "rejected"}
  /\ sock' = [sock EXCEPT ![c] = "free"]
  /\ UNCHANGED <<running, clients, got, latest, online, idleTimer, since>>

\* ws.on("close"), which a rejected connection does not have.
Close(c) ==
  /\ sock[c] \in {"closing", "rejected"}
  /\ sock' = [sock EXCEPT ![c] = "free"]
  /\ clients' = IF sock[c] = "rejected" THEN clients ELSE clients \ {c}
  /\ UNCHANGED <<running, got, latest, online, idleTimer, since>>

-----------------------------------------------------------------------------
\* Mutant: the timer is only set by the frame that brings the camera online.
MutantResetIdleTimer == idleTimer' = IF online THEN idleTimer ELSE IdleTimeout

\* resetIdleTimer: the old timer is cleared.
resetIdleTimer == idleTimer' = IdleTimeout

\* handleFrame: every open client of the set gets the frame.
HandleFrame(frame) ==
  /\ running
  /\ latest' = frame
  /\ online' = TRUE
  /\ resetIdleTimer
  /\ got' = [c \in Sockets |-> IF c \in clients /\ sock[c] = "open" THEN frame ELSE got[c]]
  /\ since' = 0
  /\ UNCHANGED <<running, sock, clients>>

\* Mutant: only the timer is cleared, the camera stays online.
MutantIdle ==
  /\ idleTimer = 0
  /\ idleTimer' = Off
  /\ UNCHANGED <<running, sock, clients, got, latest, online, since>>

\* The callback of the idle timer.  The latest frame is kept.
Idle ==
  /\ idleTimer = 0
  /\ idleTimer' = Off
  /\ online' = FALSE
  /\ UNCHANGED <<running, sock, clients, got, latest, since>>

\* A unit of time passes, when the timer is not due.
Tick ==
  /\ idleTimer # 0
  /\ idleTimer' = IF idleTimer = Off THEN Off ELSE idleTimer - 1
  /\ since' = IF since < IdleTimeout THEN since + 1 ELSE since
  /\ UNCHANGED <<running, sock, clients, got, latest, online>>

-----------------------------------------------------------------------------
\* close, in the shutdown of Core: the process ends right after it, and the
\* sockets with it.
Shutdown ==
  /\ running
  /\ running' = FALSE
  /\ idleTimer' = Off
  /\ latest' = None
  /\ online' = FALSE
  /\ clients' = {}
  /\ sock' = [c \in Sockets |-> "free"]
  /\ UNCHANGED <<got, since>>

\* Core is started again.
Start ==
  /\ ~running
  /\ running' = TRUE
  /\ UNCHANGED <<sock, clients, got, latest, online, idleTimer, since>>

Next ==
  \/ \E c \in Sockets : Connection(c) \/ GoesDown(c) \/ Error(c) \/ Close(c)
  \/ \E frame \in Frames : HandleFrame(frame)
  \/ Idle \/ Tick \/ Shutdown \/ Start

Spec == Init /\ [][Next]_vars

\* Time goes on and timers fire.
Fairness == WF_vars(Tick) /\ WF_vars(Idle)

FairSpec == Spec /\ Fairness

-----------------------------------------------------------------------------
\* Type invariant, with the capacity of the set of clients.
TypeOK ==
  /\ running \in BOOLEAN
  /\ sock \in [Sockets -> SocketStates]
  /\ clients \subseteq Sockets
  /\ Cardinality(clients) <= MAX_DASHBOARD_CLIENTS
  /\ got \in [Sockets -> Frames \cup {None}]
  /\ latest \in Frames \cup {None}
  /\ online \in BOOLEAN
  /\ idleTimer \in 0..Off
  /\ since \in 0..IdleTimeout

\* Every dashboard that is connected has been sent the latest frame, whether it
\* came before the frame, after it, or in place of one that was turned away.
DashboardsCurrent ==
  \A c \in Sockets : sock[c] = "open" => c \in clients /\ got[c] = latest

\* The camera is online as long as its last frame is not IdleTimeout old: the
\* one pending timer is that of the last frame, through every reset of it.
OnlineIffRecent ==
  /\ online => idleTimer # Off /\ idleTimer + since = IdleTimeout
  /\ ~online => idleTimer = Off /\ (latest # None => since = IdleTimeout)

\* A dashboard is turned away only if all places are taken by connections that
\* are there or going down: none that is gone keeps its place.
TurnedAwayOnlyIfFull ==
  [][\A c \in Sockets : (sock[c] # "rejected" /\ sock'[c] = "rejected") =>
       Cardinality({d \in Sockets : sock[d] \in {"open", "closing"}})
         >= MAX_DASHBOARD_CLIENTS]_vars

\* When the node stops sending frames, the camera is reported offline.
OfflineInTheEnd ==
  <>[][~\E frame \in Frames : HandleFrame(frame)]_vars => <>[]~online
=============================================================================
