------------------------------ MODULE Sessions ------------------------------
(***************************************************************************)
(* The simulated Brain (harness/sim/brain.ts) and the ArtifactWriter it    *)
(* stores sessions with (harness/src/engine/ArtifactWriter.ts).  Every     *)
(* trigger and every motion report starts a session beside those that run: *)
(* four pipeline states at intervals, then the artifacts, file by file,    *)
(* then the report that the session is complete, or that it failed.        *)
(*                                                                         *)
(* What happens between two awaits of a session is one step.  A file is    *)
(* written by three calls, each with its own callback: write, fsync,       *)
(* close.  The process may crash between them, the power may fail, and the *)
(* link to the broker loses what it carries when it breaks: all messages   *)
(* are QoS 0.                                                              *)
(***************************************************************************)
EXTENDS Integers, Sequences

CONSTANTS
  MaxSessions,   \* bound: sessions
  Fixtures,      \* the fixtures pickFixture chooses from
  Failing,       \* those with an `error'
  Files,         \* the files of a session: 4, or 5 with a camera snapshot
  MaxWaiting     \* bound: messages waiting when a further one is published

ASSUME SessionsAssumption ==
  /\ MaxSessions \in Nat /\ Files \in Nat \ {0} /\ MaxWaiting \in Nat
  /\ Failing \subseteq Fixtures

Sessions == 1..MaxSessions

\* STATE_CADENCE: listening, thinking, speaking, idle.
LastState == 4

VARIABLES
  up,            \* the process runs
  online,        \* its link to the broker is up
  started,       \* sessions there have been
  stage,         \* what becomes of each
  fails,         \* whether its fixture has an error
  at,            \* the states it has published, or the file it writes
  call,          \* the call on that file whose callback is to come
  content,       \* the files on the disk
  descriptors,   \* the sessions that hold a file open
  outbox,        \* messages the client has for the broker
  heard, end     \* the last state and the end that a subscriber has heard of

process == <<up, online, started>>
running == <<stage, fails, at, call, descriptors>>
vars == <<process, running, content, outbox, heard, end>>

Stages == {"none", "emitting", "writing", "complete", "error", "abandoned", "lost"}

\* Durable is what fsync has returned for; the rest may not survive a power
\* failure.
Contents == {"absent", "volatile", "durable"}

Calls == {"write", "fsync", "close"}

\* The place in simulateSession is kept while the session runs.
Position == 0..(LastState + Files)

Message == [session : Sessions, kind : {"state"}, state : 1..LastState]
             \cup [session : Sessions, kind : {"complete", "error"}, state : {LastState}]

Init ==
  /\ up = TRUE /\ online = FALSE /\ started = 0
  /\ stage = [s \in Sessions |-> "none"]
  /\ fails = [s \in Sessions |-> FALSE]
  /\ at = [s \in Sessions |-> 0]
  /\ call = [s \in Sessions |-> "write"]
  /\ descriptors = {}
  /\ content = [s \in Sessions |-> [f \in 1..Files |-> "absent"]]
  /\ outbox = <<>>
  /\ heard = [s \in Sessions |-> 0]
  /\ end = [s \in Sessions |-> "none"]

-----------------------------------------------------------------------------
\* Sessions.

Room == Len(outbox) <= MaxWaiting

Running(s) == up /\ stage[s] \in {"emitting", "writing"}

\* A trigger_pipeline or a motion report arrives: pickFixture, by name or in
\* turn, and a session nobody waits for.
Trigger(fixture) ==
  /\ up /\ online /\ started < MaxSessions
  /\ started' = started + 1
  /\ stage' = [stage EXCEPT ![started'] = "emitting"]
  /\ fails' = [fails EXCEPT ![started'] = fixture \in Failing]
  /\ UNCHANGED <<up, online, at, call, descriptors, content, outbox, heard, end>>

\* A session is over, and its place in the program with it.
Ends(s, how) ==
  /\ stage' = [stage EXCEPT ![s] = how]
  /\ at' = [at EXCEPT ![s] = 0]
  /\ call' = [call EXCEPT ![s] = "write"]
  /\ descriptors' = descriptors \ {s}

\* openSync of a file, which may throw: nothing is open then, and the session
\* ends with a line in the log.
OpenFile(s, f) ==
  \/ /\ stage' = [stage EXCEPT ![s] = "writing"]
     /\ at' = [at EXCEPT ![s] = f]
     /\ call' = [call EXCEPT ![s] = "write"]
     /\ content' = [content EXCEPT ![s][f] = "volatile"]
     /\ descriptors' = descriptors \cup {s}
  \/ Ends(s, "abandoned") /\ UNCHANGED content

State(s, n) == [session |-> s, kind |-> "state", state |-> n]
Report(s, kind) == [session |-> s, kind |-> kind, state |-> LastState]

\* The timer of a state fires, but not of the last one.
EmitState(s) ==
  /\ Running(s) /\ Room
  /\ stage[s] = "emitting" /\ at[s] < LastState - 1
  /\ at' = [at EXCEPT ![s] = @ + 1]
  /\ outbox' = Append(outbox, State(s, at'[s]))
  /\ UNCHANGED <<process, stage, fails, call, descriptors, content, heard, end>>

\* Mutant: the session goes on after its session_error.
MutantEmitIdle(s) ==
  /\ Running(s) /\ Room
  /\ stage[s] = "emitting" /\ at[s] = LastState - 1
  /\ outbox' = IF fails[s] THEN outbox \o <<State(s, LastState), Report(s, "error")>>
                           ELSE Append(outbox, State(s, LastState))
  /\ OpenFile(s, 1)
  /\ UNCHANGED <<process, fails, heard, end>>

\* The timer of the last state: in the same turn the session fails as its
\* fixture says, or makes its directory and opens the first file.
EmitIdle(s) ==
  /\ Running(s) /\ Room
  /\ stage[s] = "emitting" /\ at[s] = LastState - 1
  /\ IF fails[s]
     THEN /\ outbox' = outbox \o <<State(s, LastState), Report(s, "error")>>
          /\ Ends(s, "error")
          /\ UNCHANGED content
     ELSE /\ outbox' = Append(outbox, State(s, LastState))
          /\ OpenFile(s, 1)
  /\ UNCHANGED <<process, fails, heard, end>>

-----------------------------------------------------------------------------
\* writeAndSync.

\* A callback for the session's file is called, without an error.
Called(s, c) == Running(s) /\ stage[s] = "writing" /\ call[s] = c

\* Mutant: the file is closed without fsync.
MutantWritten(s) ==
  /\ Called(s, "write")
  /\ call' = [call EXCEPT ![s] = "close"]
  /\ UNCHANGED <<process, stage, fails, at, descriptors, content, outbox, heard, end>>

\* fs.write may write less than it was given, as on a disk that fills up: the
\* callback does not take the number of bytes, and goes on as if all was written.
\* content says how safe what was written is, not how much of it that is.
Written(s) ==
  /\ Called(s, "write")
  /\ call' = [call EXCEPT ![s] = "fsync"]
  /\ UNCHANGED <<process, stage, fails, at, descriptors, content, outbox, heard, end>>

Synced(s) ==
  /\ Called(s, "fsync")
  /\ content' = [content EXCEPT ![s][at[s]] = "durable"]
  /\ call' = [call EXCEPT ![s] = "close"]
  /\ UNCHANGED <<process, stage, fails, at, descriptors, outbox, heard, end>>

\* The file is closed, and the promise resolved: the next one is opened, or the
\* session reported complete.
Closed(s) ==
  /\ Called(s, "close") /\ Room
  /\ IF at[s] = Files
     THEN /\ Ends(s, "complete")
          /\ outbox' = Append(outbox, Report(s, "complete"))
          /\ UNCHANGED content
     ELSE OpenFile(s, at[s] + 1) /\ UNCHANGED outbox
  /\ UNCHANGED <<process, fails, heard, end>>

\* Mutant: a failed call rejects without a close.
MutantFileFails(s) ==
  /\ Running(s) /\ stage[s] = "writing"
  /\ stage' = [stage EXCEPT ![s] = "abandoned"]
  /\ UNCHANGED <<process, fails, at, call, descriptors, content, outbox, heard, end>>

\* Mutant: the promise of a failed call is never settled.
MutantUnsettled(s) ==
  /\ Running(s) /\ stage[s] = "writing" /\ s \in descriptors
  /\ descriptors' = descriptors \ {s}
  /\ call' = [call EXCEPT ![s] = "none"]
  /\ UNCHANGED <<process, stage, fails, at, content, outbox, heard, end>>

\* A call fails.  The file is closed, the promise rejected and the error
\* logged: neither a complete nor an error is published.
FileFails(s) ==
  /\ Running(s) /\ stage[s] = "writing"
  /\ Ends(s, "abandoned")
  /\ UNCHANGED <<process, fails, content, outbox, heard, end>>

-----------------------------------------------------------------------------
\* The link and the process.

\* A message reaches the broker, and the subscribers.  A session_error does not
\* say of which session it is; the model does, to follow it.
Deliver ==
  /\ up /\ online /\ outbox # <<>>
  /\ LET message == Head(outbox)
     IN  IF message.kind = "state"
         THEN heard' = [heard EXCEPT ![message.session] = message.state] /\ UNCHANGED end
         ELSE end' = [end EXCEPT ![message.session] = message.kind] /\ UNCHANGED heard
  /\ outbox' = Tail(outbox)
  /\ UNCHANGED <<process, running, content>>

\* client.on("connect")
Connect ==
  /\ up /\ ~online
  /\ online' = TRUE
  /\ UNCHANGED <<up, started, running, content, outbox, heard, end>>

\* The connection breaks, with what was sent and not received.
Disconnect ==
  /\ online
  /\ online' = FALSE
  /\ \E lost \in 0..Len(outbox) : outbox' = SubSeq(outbox, lost + 1, Len(outbox))
  /\ UNCHANGED <<up, started, running, content, heard, end>>

\* The process ends, and its sessions with it.
Crash ==
  /\ up
  /\ up' = FALSE /\ online' = FALSE
  /\ outbox' = <<>>
  /\ stage' = [s \in Sessions |-> IF Running(s) THEN "lost" ELSE stage[s]]
  /\ at' = [s \in Sessions |-> 0]
  /\ call' = [s \in Sessions |-> "write"]
  /\ descriptors' = {}
  /\ UNCHANGED <<started, fails, heard, end>>

\* What it had handed to the kernel is written.
ProcessCrash == Crash /\ UNCHANGED content

\* Of what was not synced, some is gone or in part.
PowerFailure ==
  /\ Crash
  /\ \E gone \in SUBSET {p \in Sessions \X (1..Files) : content[p[1]][p[2]] = "volatile"} :
       content' = [s \in Sessions |-> [f \in 1..Files |->
                     IF <<s, f>> \in gone THEN "absent" ELSE content[s][f]]]

\* The simulator is started again.
Restart ==
  /\ ~up
  /\ up' = TRUE
  /\ UNCHANGED <<online, started, running, content, outbox, heard, end>>

Next ==
  \/ \E fixture \in Fixtures : Trigger(fixture)
  \/ \E s \in Sessions : \/ EmitState(s) \/ EmitIdle(s)
                         \/ Written(s) \/ Synced(s) \/ Closed(s) \/ FileFails(s)
  \/ Deliver \/ Connect \/ Disconnect
  \/ ProcessCrash \/ PowerFailure \/ Restart

Spec == Init /\ [][Next]_vars

\* Timers fire, the calls of the file system return, the client connects again
\* and sends what it has.  Nobody has to start the simulator again.
Fairness ==
  /\ \A s \in Sessions : /\ WF_vars(EmitState(s) \/ EmitIdle(s))
                         /\ WF_vars(Written(s) \/ Synced(s) \/ Closed(s) \/ FileFails(s))
  /\ WF_vars(Deliver) /\ WF_vars(Connect)

FairSpec == Spec /\ Fairness

-----------------------------------------------------------------------------
\* Type invariant.
TypeOK ==
  /\ up \in BOOLEAN /\ online \in BOOLEAN
  /\ started \in 0..MaxSessions
  /\ stage \in [Sessions -> Stages]
  /\ fails \in [Sessions -> BOOLEAN]
  /\ at \in [Sessions -> Position]
  /\ call \in [Sessions -> Calls]
  /\ content \in [Sessions -> [1..Files -> Contents]]
  /\ descriptors \subseteq Sessions
  /\ outbox \in Seq(Message)
  /\ heard \in [Sessions -> 0..LastState]
  /\ end \in [Sessions -> {"none", "complete", "error"}]

\* tasks/TRACK-B-CORE-HW.md, C2: whoever hears that a session is complete finds
\* all its files as they were written, and finds them after any crash or power
\* failure: no file is reported before its own fsync has returned.
Stored == {s \in Sessions : \A f \in 1..Files : content[s][f] = "durable"}

CompleteMeansStored == \A s \in Sessions : end[s] = "complete" => s \in Stored

\* A file that could not be written leaves nothing open: the descriptors in use
\* are those of the sessions that write, however the others ended.
DescriptorsClosed == descriptors = {s \in Sessions : Running(s) /\ stage[s] = "writing"}

\* Sessions that overlap are heard of in order, each ends once, and with its
\* artifacts: what a subscriber sees is what SessionReports promises it.
Reports == INSTANCE SessionReports WITH stored <- Stored

SessionsImplementReports == Reports!Spec

\* A session that has begun is reported in the end, unless one of its files
\* fails or the process or the link breaks in between.
SessionReported ==
  \A s \in Sessions :
    Running(s) ~> \/ end[s] # "none"
                  \/ stage[s] = "abandoned"
                  \/ ~up \/ ~online
=============================================================================
