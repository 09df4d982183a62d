----------------------------- MODULE Supervisor -----------------------------
(***************************************************************************)
(* How Core comes to run and stops (harness/src/brain-basic.ts, core.ts,   *)
(* comms/MqttClient.ts).  The basic Brain starts Core as a child and talks *)
(* to it over its pipes; supervisedMain tries again while that fails, but  *)
(* main returns as soon as the handlers are in place, and then nobody      *)
(* looks after Core any more.                                              *)
(*                                                                         *)
(* MqttClient emits the errors of its connection again and nothing listens *)
(* for them, nor for the errors of a port that is taken: both end the      *)
(* process.  A main that fails for another reason leaves the Core it has   *)
(* started running.                                                        *)
(***************************************************************************)
EXTENDS Integers

CONSTANTS
  MaxRestarts,   \* MAX_RESTARTS
  Cores,         \* bound: Core processes at a time
  None

ASSUME SupervisorAssumption == MaxRestarts \in Nat \ {0} /\ None \notin Cores

VARIABLES
  broker,         \* the MQTT broker is up
  keys,           \* the Brain's providers can be created
  brain,          \* where the Brain is
  restartCount,
  core,           \* the state of each Core process
  own             \* the Core main started last and is or was connected to

supervisorVars == <<broker, keys, brain, restartCount, core, own>>

BrainStates == {"starting", "connecting", "listing", "ready", "waiting", "gone", "stopped"}

\* answering: the MCP server is connected, the ports are not all bound yet.
CoreStates == {"none", "starting", "answering", "serving"}

SupervisorInit ==
  /\ broker = TRUE /\ keys \in BOOLEAN
  /\ brain = "starting" /\ restartCount = 0
  /\ core = [c \in Cores |-> "none"]
  /\ own = None

-----------------------------------------------------------------------------
\* Core.

Alive == {c \in Cores : core[c] # "none"}
Serving == {c \in Cores : core[c] = "serving"}

\* startMcpServer
Answer(c) ==
  /\ core[c] = "starting"
  /\ core' = [core EXCEPT ![c] = "answering"]
  /\ UNCHANGED <<broker, keys, brain, restartCount, own>>

\* Core has its three ports.
Serve(c) ==
  /\ core[c] = "answering" /\ Serving = {}
  /\ core' = [core EXCEPT ![c] = "serving"]
  /\ UNCHANGED <<broker, keys, brain, restartCount, own>>

\* An error nobody listens for: of the connection to a broker that is down, or
\* of a port that another Core has.
CoreDies(c) ==
  /\ c \in Alive
  /\ ~broker \/ (c \notin Serving /\ Serving # {})
  /\ core' = [core EXCEPT ![c] = "none"]
  /\ UNCHANGED <<broker, keys, brain, restartCount, own>>

\* A Core without a Brain writes to a closed pipe, or is found and killed.
StrayDies(c) ==
  /\ c \in Alive /\ c # own
  /\ core' = [core EXCEPT ![c] = "none"]
  /\ UNCHANGED <<broker, keys, brain, restartCount, own>>

-----------------------------------------------------------------------------
\* The Brain.

OwnIsAlive == own \in Alive
OwnAnswers == OwnIsAlive /\ core[own] # "starting"

\* main: the transport spawns Core.
Spawn(c) ==
  /\ brain = "starting"
  /\ c \notin Alive
  /\ core' = [core EXCEPT ![c] = "starting"]
  /\ own' = c
  /\ brain' = "connecting"
  /\ UNCHANGED <<broker, keys, restartCount>>

\* client.connect has its answer.
Connected ==
  /\ brain = "connecting" /\ OwnAnswers
  /\ brain' = "listing"
  /\ UNCHANGED <<broker, keys, restartCount, core, own>>

\* client.listTools has its answer, the providers are created and the handlers
\* set: main returns, and the loop of supervisedMain ends.
MainReturns ==
  /\ brain = "listing" /\ OwnAnswers /\ keys
  /\ brain' = "ready"
  /\ UNCHANGED <<broker, keys, restartCount, core, own>>

\* main throws: a call failed because Core is gone, or a provider has no key.
MainFails ==
  /\ \/ brain \in {"connecting", "listing"} /\ ~OwnIsAlive
     \/ brain = "listing" /\ OwnAnswers /\ ~keys
  /\ restartCount' = restartCount + 1
  /\ brain' = "waiting"
  /\ own' = None
  /\ UNCHANGED <<broker, keys, core>>

\* Mutant: the loop is left after a failure.
MutantBackoffOver ==
  /\ brain = "waiting"
  /\ brain' = "gone"
  /\ UNCHANGED <<broker, keys, restartCount, core, own>>

\* The backoff is over: another attempt, or exit(1).
BackoffOver ==
  /\ brain = "waiting"
  /\ brain' = IF restartCount < MaxRestarts THEN "starting" ELSE "gone"
  /\ UNCHANGED <<broker, keys, restartCount, core, own>>

\* Nothing is left for the Brain to wait for.
BrainEnds ==
  /\ brain = "ready" /\ ~OwnIsAlive
  /\ brain' = "gone" /\ own' = None
  /\ UNCHANGED <<broker, keys, restartCount, core>>

-----------------------------------------------------------------------------
\* The operator and the broker.

\* SIGINT, to the Brain and the Cores it started.
OperatorStops ==
  /\ brain \notin {"gone", "stopped"}
  /\ brain' = "stopped" /\ own' = None
  /\ core' = [c \in Cores |-> "none"]
  /\ UNCHANGED <<broker, keys, restartCount>>

\* The Brain is started, in an environment with or without the keys.
OperatorStarts ==
  /\ brain \in {"gone", "stopped"}
  /\ brain' = "starting" /\ restartCount' = 0
  /\ keys' \in BOOLEAN
  /\ UNCHANGED <<broker, core, own>>

BrokerStops ==
  /\ broker
  /\ broker' = FALSE
  /\ UNCHANGED <<keys, brain, restartCount, core, own>>

BrokerStarts ==
  /\ ~broker
  /\ broker' = TRUE
  /\ UNCHANGED <<keys, brain, restartCount, core, own>>

-----------------------------------------------------------------------------
\* Type invariant.
SupervisorTypeOK ==
  /\ broker \in BOOLEAN /\ keys \in BOOLEAN
  /\ brain \in BrainStates
  /\ restartCount \in 0..MaxRestarts
  /\ core \in [Cores -> CoreStates]
  /\ own \in Cores \cup {None}

\* A Brain that is trying, with its keys, a broker and attempts left, ends up
\* with a Core that serves, unless one of these changes in between or a Core
\* of an earlier attempt is in the way: what supervisedMain is there for, and
\* all that it does.  Once main has returned, a Core that dies stays dead.
Favourable == broker /\ keys /\ Alive \subseteq {own}

StartsUp ==
  (/\ brain \in {"starting", "waiting"}
   /\ restartCount < MaxRestarts
   /\ Favourable)
    ~> \/ brain = "ready" /\ OwnIsAlive /\ own \in Serving
       \/ brain = "stopped" \/ ~Favourable
=============================================================================
