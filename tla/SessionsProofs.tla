--------------------------- MODULE SessionsProofs ---------------------------
(***************************************************************************)
(* Proofs about the sessions of the simulated Brain, for any number of     *)
(* sessions and of files: whoever hears that a session is complete finds   *)
(* it stored for good, and what a subscriber hears is what SessionReports  *)
(* promises, whatever fails.                                               *)
(***************************************************************************)
EXTENDS Sessions, SequenceTheorems, TLAPS

\* The inductive invariant adds to the types where in its life a session is:
\* one that has not been triggered is untouched, ...
Untouched == \A s \in Sessions : s > started => stage[s] = "none"

\* ... the files before the one it writes are durable and those after it are
\* not, ...
InTurn(s) ==
  /\ stage[s] \in {"none", "emitting"} => \A f \in 1..Files : content[s][f] # "durable"
  /\ stage[s] = "writing" =>
       /\ at[s] \in 1..Files
       /\ \A f \in 1..Files : /\ f < at[s] => content[s][f] = "durable"
                              /\ f > at[s] => content[s][f] # "durable"
                              /\ f = at[s] => (content[s][f] = "durable" <=> call[s] = "close")

FilesInTurn == \A s \in Sessions : InTurn(s)

\* ... what it has said is ahead of what is on its way to the subscribers, and
\* that of what they have been told, each later than the one before, ...
Rank(message) == IF message.kind = "state" THEN message.state ELSE LastState + 1

Said == [s \in Sessions |-> IF stage[s] = "none" THEN 0
                            ELSE IF stage[s] = "emitting" THEN at[s]
                            ELSE IF stage[s] = "writing" THEN LastState
                            ELSE LastState + 1]

Told == [s \in Sessions |-> IF end[s] = "none" THEN heard[s] ELSE LastState + 1]

InOrder(told, queue, said) ==
  /\ \A s \in Sessions : told[s] <= said[s]
  /\ \A i \in 1..Len(queue) : /\ told[queue[i].session] < Rank(queue[i])
                              /\ Rank(queue[i]) <= said[queue[i].session]
  /\ \A i, j \in 1..Len(queue) :
       i < j /\ queue[i].session = queue[j].session => Rank(queue[i]) < Rank(queue[j])

\* ... and it is stored when it is said to be complete.
Claims(queue, s) ==
  \E i \in 1..Len(queue) : queue[i].session = s /\ queue[i].kind = "complete"

Safe(s) == stage[s] = "complete" /\ s \in Stored

ClaimedIsSafe == \A s \in Sessions : end[s] = "complete" \/ Claims(outbox, s) => Safe(s)

IInv ==
  /\ TypeOK /\ Untouched /\ FilesInTurn
  /\ InOrder(Told, outbox, Said) /\ ClaimedIsSafe

-----------------------------------------------------------------------------
\* Messages and queues of them.

LEMMA Ranks ==
  ASSUME NEW m \in Message
  PROVE  /\ m.session \in Sessions
         /\ Rank(m) \in 1..(LastState + 1)
         /\ m.kind = "state" => m.state \in 1..LastState /\ Rank(m) = m.state
         /\ m.kind # "state" => Rank(m) = LastState + 1 /\ m.kind \in {"complete", "error"}
BY DEF Message, Rank, LastState

LEMMA StateMessage ==
  ASSUME NEW s \in Sessions, NEW n \in 1..LastState
  PROVE  /\ State(s, n) \in Message
         /\ State(s, n).session = s /\ State(s, n).kind = "state"
         /\ Rank(State(s, n)) = n
BY DEF State, Message, Rank

LEMMA ReportMessage ==
  ASSUME NEW s \in Sessions, NEW kind \in {"complete", "error"}
  PROVE  /\ Report(s, kind) \in Message
         /\ Report(s, kind).session = s /\ Report(s, kind).kind = kind
         /\ Rank(Report(s, kind)) = LastState + 1
BY DEF Report, Message, Rank, LastState

LEMMA AppendTwo ==
  ASSUME NEW S, NEW q \in Seq(S), NEW a \in S, NEW b \in S
  PROVE  q \o <<a, b>> = Append(Append(q, a), b)
OBVIOUS

LEMMA AppendElements ==
  ASSUME NEW S, NEW q \in Seq(S), NEW m \in S
  PROVE  /\ Append(q, m) \in Seq(S)
         /\ Len(Append(q, m)) = Len(q) + 1
         /\ \A i \in 1..Len(q) : Append(q, m)[i] = q[i] /\ q[i] \in S
         /\ Append(q, m)[Len(q) + 1] = m
         /\ Len(q) \in Nat
BY AppendProperties, ElementOfSeq

\* A message that is later than all its session has said.
LEMMA AppendInOrder ==
  ASSUME NEW q \in Seq(Message), NEW m \in Message,
         NEW told \in [Sessions -> Int], NEW said \in [Sessions -> Int],
         NEW later \in [Sessions -> Int],
         InOrder(told, q, said),
         \A s \in Sessions : said[s] <= later[s],
         said[m.session] < Rank(m), Rank(m) <= later[m.session]
  PROVE  InOrder(told, Append(q, m), later)
<1> DEFINE r == Append(q, m)
<1>1. /\ Len(r) = Len(q) + 1 /\ Len(q) \in Nat
      /\ r[Len(q) + 1] = m
      /\ \A i \in 1..Len(q) : r[i] = q[i] /\ q[i] \in Message
  BY AppendElements
<1>2. \A i \in 1..Len(r) : i \in 1..Len(q) \/ i = Len(q) + 1
  BY <1>1
<1>3. m.session \in Sessions /\ Rank(m) \in Int
  BY Ranks
<1>4. \A i \in 1..Len(q) : q[i].session \in Sessions /\ Rank(q[i]) \in Int
  BY <1>1, Ranks
<1> HIDE DEF r
<1>5. \A s \in Sessions : told[s] <= later[s]
  BY DEF InOrder
<1>6. ASSUME NEW i \in 1..Len(r)
      PROVE  told[r[i].session] < Rank(r[i]) /\ Rank(r[i]) <= later[r[i].session]
  <2>1. CASE i \in 1..Len(q)
    BY <2>1, <1>1, <1>4 DEF InOrder
  <2>2. CASE i = Len(q) + 1
    BY <2>2, <1>1, <1>3 DEF InOrder
  <2> QED BY <2>1, <2>2, <1>2
<1>7. ASSUME NEW i \in 1..Len(r), NEW j \in 1..Len(r), i < j, r[i].session = r[j].session
      PROVE  Rank(r[i]) < Rank(r[j])
  <2>1. i \in 1..Len(q)
    BY <1>1, <1>7
  <2>2. CASE j \in 1..Len(q)
    BY <2>1, <2>2, <1>1, <1>7 DEF InOrder
  <2>3. CASE j = Len(q) + 1
    BY <2>1, <2>3, <1>1, <1>3, <1>4, <1>7 DEF InOrder
  <2> QED BY <2>2, <2>3, <1>2
<1> QED BY <1>5, <1>6, <1>7 DEF InOrder, r

LEMMA AppendClaims ==
  ASSUME NEW q \in Seq(Message), NEW m \in Message, NEW s, Claims(Append(q, m), s)
  PROVE  Claims(q, s) \/ (m.session = s /\ m.kind = "complete")
<1>1. /\ Len(Append(q, m)) = Len(q) + 1 /\ Len(q) \in Nat
      /\ Append(q, m)[Len(q) + 1] = m
      /\ \A i \in 1..Len(q) : Append(q, m)[i] = q[i]
  BY AppendElements
<1>2. PICK i \in 1..Len(Append(q, m)) :
        Append(q, m)[i].session = s /\ Append(q, m)[i].kind = "complete"
  BY DEF Claims
<1>3. CASE i \in 1..Len(q)
  BY <1>1, <1>2, <1>3 DEF Claims
<1>4. CASE i = Len(q) + 1
  BY <1>1, <1>2, <1>4
<1> QED BY <1>1, <1>3, <1>4

\* What is left of a queue when some of it is gone.
LEMMA Rest ==
  ASSUME NEW q \in Seq(Message), NEW n \in 0..Len(q)
  PROVE  /\ SubSeq(q, n + 1, Len(q)) \in Seq(Message)
         /\ Len(SubSeq(q, n + 1, Len(q))) = Len(q) - n
         /\ \A i \in 1..(Len(q) - n) :
              i + n \in 1..Len(q) /\ SubSeq(q, n + 1, Len(q))[i] = q[i + n]
<1>1. Len(q) \in Nat /\ \A i \in 1..Len(q) : q[i] \in Message
  BY LenProperties, ElementOfSeq
<1>2. \A i \in (n + 1)..Len(q) : q[i] \in Message
  BY <1>1
<1> QED BY <1>1, <1>2, SubSeqProperties

LEMMA RestInOrder ==
  ASSUME NEW q \in Seq(Message), NEW n \in 0..Len(q), NEW told, NEW said,
         InOrder(told, q, said)
  PROVE  /\ InOrder(told, SubSeq(q, n + 1, Len(q)), said)
         /\ \A s : Claims(SubSeq(q, n + 1, Len(q)), s) => Claims(q, s)
<1> DEFINE r == SubSeq(q, n + 1, Len(q))
<1>1. Len(q) \in Nat
  BY LenProperties
<1>2. Len(r) = Len(q) - n
      /\ \A i \in 1..(Len(q) - n) : i + n \in 1..Len(q) /\ r[i] = q[i + n]
  BY Rest
<1> HIDE DEF r
<1>3. \A i, j \in 1..Len(r) : i < j => i + n < j + n
  BY <1>1, <1>2
<1>4. InOrder(told, r, said)
  BY <1>2, <1>3 DEF InOrder
<1>5. \A s : Claims(r, s) => Claims(q, s)
  BY <1>2 DEF Claims
<1> QED BY <1>4, <1>5 DEF r

\* The first message is heard.
LEMMA HeardInOrder ==
  ASSUME NEW q \in Seq(Message), q # <<>>,
         NEW told \in [Sessions -> Int], NEW said \in [Sessions -> Int],
         InOrder(told, q, said),
         NEW now \in [Sessions -> Int],
         now[Head(q).session] = Rank(Head(q)),
         \A s \in Sessions \ {Head(q).session} : now[s] = told[s]
  PROVE  /\ Tail(q) \in Seq(Message)
         /\ InOrder(now, Tail(q), said)
         /\ \A s : Claims(Tail(q), s) => Claims(q, s)
<1>1. Len(q) \in Nat /\ Len(q) >= 1 /\ Head(q) = q[1] /\ q[1] \in Message
  BY LenProperties, EmptySeq, ElementOfSeq
<1>2. /\ Tail(q) \in Seq(Message) /\ Len(Tail(q)) = Len(q) - 1
      /\ \A i \in 1..Len(Tail(q)) : Tail(q)[i] = q[i + 1]
  BY HeadTailProperties
<1>3. \A i \in 1..Len(Tail(q)) : i + 1 \in 1..Len(q) /\ 1 < i + 1 /\ q[i + 1] \in Message
  BY <1>1, <1>2, ElementOfSeq
<1>4. \A i \in 1..Len(q) : q[i].session \in Sessions /\ Rank(q[i]) \in Int
  BY ElementOfSeq, Ranks
<1>5. ASSUME NEW s \in Sessions PROVE now[s] <= said[s]
  <2>1. CASE s = Head(q).session
    BY <2>1, <1>1 DEF InOrder
  <2>2. CASE s # Head(q).session
    BY <2>2 DEF InOrder
  <2> QED BY <2>1, <2>2
<1>6. ASSUME NEW i \in 1..Len(Tail(q))
      PROVE  /\ now[Tail(q)[i].session] < Rank(Tail(q)[i])
             /\ Rank(Tail(q)[i]) <= said[Tail(q)[i].session]
  <2>1. Rank(q[i + 1]) <= said[q[i + 1].session] /\ told[q[i + 1].session] < Rank(q[i + 1])
    BY <1>3 DEF InOrder
  <2>2. CASE q[i + 1].session = q[1].session
    <3>1. Rank(q[1]) < Rank(q[i + 1])
      BY <2>2, <1>1, <1>3 DEF InOrder
    <3> QED BY <3>1, <2>1, <2>2, <1>1, <1>2
  <2>3. CASE q[i + 1].session # q[1].session
    BY <2>1, <2>3, <1>1, <1>2, <1>3, <1>4
  <2> QED BY <2>2, <2>3
<1>7. ASSUME NEW i \in 1..Len(Tail(q)), NEW j \in 1..Len(Tail(q)),
             i < j, Tail(q)[i].session = Tail(q)[j].session
      PROVE  Rank(Tail(q)[i]) < Rank(Tail(q)[j])
  <2>1. i + 1 < j + 1 /\ i + 1 \in 1..Len(q) /\ j + 1 \in 1..Len(q)
    BY <1>3, <1>7
  <2> QED BY <2>1, <1>2, <1>7 DEF InOrder
<1>8. ASSUME NEW s, Claims(Tail(q), s) PROVE Claims(q, s)
  BY <1>2, <1>3, <1>8 DEF Claims
<1> QED BY <1>2, <1>5, <1>6, <1>7, <1>8 DEF InOrder

-----------------------------------------------------------------------------
\* Type correctness, action by action.

LEMMA EndsType ==
  ASSUME TypeOK, NEW s \in Sessions, NEW how \in Stages, Ends(s, how)
  PROVE  /\ stage' \in [Sessions -> Stages] /\ at' \in [Sessions -> Position]
         /\ call' \in [Sessions -> Calls] /\ descriptors' \subseteq Sessions
<1>1. 0 \in Position /\ "write" \in Calls
  BY SessionsAssumption DEF Position, Calls, LastState
<1> QED BY <1>1 DEF Ends, TypeOK

LEMMA OpenFileType ==
  ASSUME TypeOK, NEW s \in Sessions, NEW f \in 1..Files, OpenFile(s, f)
  PROVE  /\ stage' \in [Sessions -> Stages] /\ at' \in [Sessions -> Position]
         /\ call' \in [Sessions -> Calls] /\ descriptors' \subseteq Sessions
         /\ content' \in [Sessions -> [1..Files -> Contents]]
<1>1. f \in Position /\ "write" \in Calls /\ "volatile" \in Contents
      /\ "writing" \in Stages /\ "abandoned" \in Stages
  BY SessionsAssumption DEF Position, Calls, Contents, Stages, LastState
<1>2. CASE Ends(s, "abandoned") /\ UNCHANGED content
  BY <1>1, <1>2, EndsType DEF TypeOK
<1>3. CASE /\ stage' = [stage EXCEPT ![s] = "writing"]
           /\ at' = [at EXCEPT ![s] = f]
           /\ call' = [call EXCEPT ![s] = "write"]
           /\ content' = [content EXCEPT ![s][f] = "volatile"]
           /\ descriptors' = descriptors \cup {s}
  BY <1>1, <1>3 DEF TypeOK
<1> QED BY <1>2, <1>3 DEF OpenFile

LEMMA OneMessage ==
  ASSUME NEW q \in Seq(Message), NEW m \in Message
  PROVE  Append(q, m) \in Seq(Message)
BY AppendElements

LEMMA TwoMessages ==
  ASSUME NEW q \in Seq(Message), NEW a \in Message, NEW b \in Message
  PROVE  q \o <<a, b>> \in Seq(Message)
BY AppendTwo, OneMessage

LEMMA TypeTrigger ==
  ASSUME TypeOK, NEW fixture \in Fixtures, Trigger(fixture)
  PROVE  TypeOK'
<1>1. started' \in Sessions /\ started' \in 0..MaxSessions
  BY SessionsAssumption DEF Trigger, TypeOK, Sessions
<1>2. stage' \in [Sessions -> Stages]
  BY <1>1 DEF Trigger, TypeOK, Stages
<1>3. fails' \in [Sessions -> BOOLEAN]
  BY <1>1 DEF Trigger, TypeOK
<1> QED BY <1>1, <1>2, <1>3 DEF Trigger, TypeOK

LEMMA TypeEmitState ==
  ASSUME TypeOK, NEW s \in Sessions, EmitState(s)
  PROVE  TypeOK'
<1>1. at[s] + 1 \in 1..LastState /\ at[s] + 1 \in Position /\ at'[s] = at[s] + 1
  BY SessionsAssumption DEF EmitState, TypeOK, Position, LastState
<1>2. at' \in [Sessions -> Position]
  BY <1>1 DEF EmitState, TypeOK
<1>3. outbox' \in Seq(Message)
  BY <1>1, StateMessage, OneMessage DEF EmitState, TypeOK
<1> QED BY <1>2, <1>3 DEF EmitState, TypeOK, process

LEMMA TypeEmitIdle ==
  ASSUME TypeOK, NEW s \in Sessions, EmitIdle(s)
  PROVE  TypeOK'
<1>1. State(s, LastState) \in Message /\ Report(s, "error") \in Message
  BY StateMessage, ReportMessage DEF LastState
<1>2. outbox' \in Seq(Message)
  <2>1. outbox \in Seq(Message)
    BY DEF TypeOK
  <2>2. \/ outbox' = outbox \o <<State(s, LastState), Report(s, "error")>>
        \/ outbox' = Append(outbox, State(s, LastState))
    BY DEF EmitIdle
  <2> QED BY <1>1, <2>1, <2>2, OneMessage, TwoMessages
<1>3. 1 \in 1..Files /\ "error" \in Stages
  BY SessionsAssumption DEF Stages
<1>4. /\ stage' \in [Sessions -> Stages] /\ at' \in [Sessions -> Position]
      /\ call' \in [Sessions -> Calls] /\ descriptors' \subseteq Sessions
      /\ content' \in [Sessions -> [1..Files -> Contents]]
  <2>1. CASE fails[s]
    BY <2>1, <1>3, EndsType DEF EmitIdle, TypeOK
  <2>2. CASE ~fails[s]
    BY <2>2, <1>3, OpenFileType DEF EmitIdle
  <2> QED BY <2>1, <2>2
<1> QED BY <1>2, <1>4 DEF EmitIdle, TypeOK, process

LEMMA TypeFile ==
  ASSUME TypeOK, NEW s \in Sessions, Written(s) \/ Synced(s) \/ FileFails(s)
  PROVE  TypeOK'
<1>1. "fsync" \in Calls /\ "close" \in Calls /\ "durable" \in Contents /\ "abandoned" \in Stages
  BY DEF Calls, Contents, Stages
<1>2. CASE Written(s)
  BY <1>1, <1>2 DEF Written, TypeOK, process
<1>3. CASE Synced(s)
  BY <1>1, <1>3 DEF Synced, TypeOK, process
<1>4. CASE FileFails(s)
  BY <1>1, <1>4, EndsType DEF FileFails, TypeOK, process
<1> QED BY <1>2, <1>3, <1>4

LEMMA TypeClosed ==
  ASSUME TypeOK, NEW s \in Sessions, Closed(s), at[s] \in 1..Files
  PROVE  TypeOK'
<1>1. CASE at[s] = Files
  <2>1. Report(s, "complete") \in Message /\ "complete" \in Stages
    BY ReportMessage DEF Stages
  <2>2. outbox' \in Seq(Message)
    BY <1>1, <2>1, OneMessage DEF Closed, TypeOK
  <2>3. /\ stage' \in [Sessions -> Stages] /\ at' \in [Sessions -> Position]
        /\ call' \in [Sessions -> Calls] /\ descriptors' \subseteq Sessions
    BY <1>1, <2>1, EndsType DEF Closed
  <2> QED BY <1>1, <2>2, <2>3 DEF Closed, TypeOK, process
<1>2. CASE at[s] # Files
  <2>1. at[s] + 1 \in 1..Files
    BY <1>2, SessionsAssumption
  <2> QED BY <1>2, <2>1, OpenFileType DEF Closed, TypeOK, process
<1> QED BY <1>1, <1>2

LEMMA TypeDeliver ==
  ASSUME TypeOK, Deliver
  PROVE  TypeOK'
<1>1. Head(outbox) \in Message /\ Tail(outbox) \in Seq(Message)
  BY HeadTailProperties DEF Deliver, TypeOK
<1>2. heard' \in [Sessions -> 0..LastState]
  BY <1>1, Ranks DEF Deliver, TypeOK, LastState
<1>3. end' \in [Sessions -> {"none", "complete", "error"}]
  BY <1>1, Ranks DEF Deliver, TypeOK
<1> QED BY <1>1, <1>2, <1>3 DEF Deliver, TypeOK, process, running

LEMMA TypeDisconnect ==
  ASSUME TypeOK, Disconnect
  PROVE  TypeOK'
<1>1. outbox' \in Seq(Message)
  BY Rest DEF Disconnect, TypeOK
<1> QED BY <1>1 DEF Disconnect, TypeOK, running

LEMMA TypeCrash ==
  ASSUME TypeOK, ProcessCrash \/ PowerFailure
  PROVE  TypeOK'
<1>1. Crash
  BY DEF ProcessCrash, PowerFailure
<1>2. "lost" \in Stages /\ 0 \in Position /\ "write" \in Calls /\ "absent" \in Contents
  BY SessionsAssumption DEF Stages, Position, Calls, Contents, LastState
<1>3. content' \in [Sessions -> [1..Files -> Contents]]
  <2>1. CASE ProcessCrash
    BY <2>1 DEF ProcessCrash, TypeOK
  <2>2. CASE PowerFailure
    <3>1. PICK gone : content' = [s \in Sessions |-> [f \in 1..Files |->
                                    IF <<s, f>> \in gone THEN "absent" ELSE content[s][f]]]
      BY <2>2 DEF PowerFailure
    <3>2. \A s \in Sessions, f \in 1..Files : content[s][f] \in Contents
      <4>1. content \in [Sessions -> [1..Files -> Contents]]
        BY DEF TypeOK
      <4> QED BY ONLY <4>1
    <3> QED BY ONLY <1>2, <3>1, <3>2
  <2> QED BY <2>1, <2>2
<1>4. outbox' \in Seq(Message)
  BY <1>1, EmptySeq DEF Crash
<1>5. stage' \in [Sessions -> Stages]
  BY <1>1, <1>2 DEF Crash, TypeOK
<1>6. at' \in [Sessions -> Position] /\ call' \in [Sessions -> Calls] /\ descriptors' \subseteq Sessions
  BY <1>1, <1>2 DEF Crash
<1>7. UNCHANGED <<started, fails, heard, end>> /\ up' = FALSE /\ online' = FALSE
  BY <1>1 DEF Crash
<1> QED BY <1>3, <1>4, <1>5, <1>6, <1>7 DEF TypeOK

-----------------------------------------------------------------------------
\* Sessions and files in turn.

\* A step of one session.
OnlyOf(s) ==
  /\ started' = started
  /\ \A t \in Sessions \ {s} : /\ stage'[t] = stage[t] /\ at'[t] = at[t]
                               /\ call'[t] = call[t] /\ content'[t] = content[t]

LEMMA StepOfOne ==
  ASSUME TypeOK, Untouched, FilesInTurn, NEW s \in Sessions, stage[s] # "none",
         OnlyOf(s), InTurn(s)'
  PROVE  Untouched' /\ FilesInTurn'
<1>1. ASSUME NEW t \in Sessions, t > started'
      PROVE  stage'[t] = "none"
  BY <1>1 DEF OnlyOf, Untouched
<1>2. ASSUME NEW t \in Sessions, t # s
      PROVE  InTurn(t)'
  BY <1>2 DEF OnlyOf, FilesInTurn, InTurn
<1>3. Untouched'
  BY <1>1 DEF Untouched
<1>4. FilesInTurn'
  BY <1>2 DEF FilesInTurn
<1> QED BY <1>3, <1>4

LEMMA EndsInTurn ==
  ASSUME TypeOK, NEW s \in Sessions,
         NEW how \in {"complete", "error", "abandoned"}, Ends(s, how),
         UNCHANGED <<started, content>>
  PROVE  OnlyOf(s) /\ InTurn(s)' /\ stage'[s] = how
BY DEF Ends, OnlyOf, InTurn, TypeOK

LEMMA OpenFileInTurn ==
  ASSUME TypeOK, NEW s \in Sessions, NEW f \in 1..Files, OpenFile(s, f),
         UNCHANGED started,
         \A g \in 1..Files : /\ g < f => content[s][g] = "durable"
                             /\ g >= f => content[s][g] # "durable"
  PROVE  OnlyOf(s) /\ InTurn(s)' /\ stage'[s] \in {"writing", "abandoned"}
<1>1. CASE Ends(s, "abandoned") /\ UNCHANGED content
  BY <1>1, EndsInTurn
<1>2. CASE /\ stage' = [stage EXCEPT ![s] = "writing"]
           /\ at' = [at EXCEPT ![s] = f]
           /\ call' = [call EXCEPT ![s] = "write"]
           /\ content' = [content EXCEPT ![s][f] = "volatile"]
  <2>1. OnlyOf(s)
    BY <1>2 DEF OnlyOf, TypeOK
  <2>2. stage'[s] = "writing" /\ at'[s] = f /\ call'[s] = "write"
    BY <1>2 DEF TypeOK
  <2>3. \A g \in 1..Files : content'[s][g] = IF g = f THEN "volatile" ELSE content[s][g]
    BY <1>2 DEF TypeOK
  <2>4. InTurn(s)'
    BY <2>2, <2>3 DEF InTurn
  <2> QED BY <2>1, <2>2, <2>4
<1> QED BY <1>1, <1>2 DEF OpenFile

\* The steps of a session that runs.
SessionStep(s) ==
  \/ EmitState(s) \/ EmitIdle(s)
  \/ Written(s) \/ Synced(s) \/ Closed(s) \/ FileFails(s)

\* A session goes on from emitting to writing and ends.
LEMMA SessionStepInTurn ==
  ASSUME TypeOK, Untouched, FilesInTurn, NEW s \in Sessions, SessionStep(s)
  PROVE  /\ stage[s] \in {"emitting", "writing"}
         /\ OnlyOf(s) /\ InTurn(s)'
<1>1. InTurn(s)
  BY DEF FilesInTurn
<1>2. stage[s] \in {"emitting", "writing"}
  BY DEF SessionStep, EmitState, EmitIdle, Written, Synced, Closed, FileFails, Called, Running
<1>3. CASE EmitState(s)
  BY <1>1, <1>3 DEF EmitState, OnlyOf, InTurn, TypeOK, process
<1>4. CASE EmitIdle(s)
  <2>1. UNCHANGED started /\ stage[s] = "emitting"
    BY <1>4 DEF EmitIdle, process
  <2>2. CASE fails[s]
    BY <1>4, <2>1, <2>2, EndsInTurn DEF EmitIdle
  <2>3. CASE ~fails[s]
    <3>1. 1 \in 1..Files /\ \A g \in 1..Files : ~(g < 1)
      BY SessionsAssumption
    <3>2. \A g \in 1..Files : content[s][g] # "durable"
      BY <1>1, <2>1 DEF InTurn
    <3>3. OpenFile(s, 1)
      BY <1>4, <2>3 DEF EmitIdle
    <3> QED BY <2>1, <3>1, <3>2, <3>3, OpenFileInTurn
  <2> QED BY <1>2, <2>2, <2>3
<1>5. CASE Written(s)
  BY <1>1, <1>5 DEF Written, Called, OnlyOf, InTurn, TypeOK, process
<1>6. CASE Synced(s)
  <2>1. OnlyOf(s) /\ stage'[s] = "writing" /\ at'[s] = at[s] /\ call'[s] = "close"
    BY <1>6 DEF Synced, Called, OnlyOf, TypeOK, process
  <2>2. at[s] \in 1..Files
    BY <1>1, <1>6 DEF Synced, Called, InTurn
  <2>3. \A f \in 1..Files : content'[s][f] = IF f = at[s] THEN "durable" ELSE content[s][f]
    BY <1>6, <2>2 DEF Synced, TypeOK
  <2>4. InTurn(s)'
    BY <1>1, <1>6, <2>1, <2>2, <2>3 DEF Synced, Called, InTurn
  <2> QED BY <1>2, <2>1, <2>4
<1>7. CASE Closed(s)
  <2>1. UNCHANGED started /\ stage[s] = "writing" /\ call[s] = "close" /\ at[s] \in 1..Files
    BY <1>1, <1>7 DEF Closed, Called, InTurn, process
  <2>2. CASE at[s] = Files
    BY <1>2, <1>7, <2>1, <2>2, EndsInTurn DEF Closed
  <2>3. CASE at[s] # Files
    <3>1. at[s] + 1 \in 1..Files
      BY <2>1, <2>3, SessionsAssumption
    <3>2. \A g \in 1..Files : /\ g < at[s] + 1 => content[s][g] = "durable"
                              /\ g >= at[s] + 1 => content[s][g] # "durable"
      BY <1>1, <2>1, SessionsAssumption DEF InTurn
    <3>3. OpenFile(s, at[s] + 1)
      BY <1>7, <2>3 DEF Closed
    <3> QED BY <1>2, <2>1, <3>1, <3>2, <3>3, OpenFileInTurn
  <2> QED BY <2>2, <2>3
<1>8. CASE FileFails(s)
  BY <1>2, <1>8, EndsInTurn DEF FileFails, process
<1> QED BY <1>2, <1>3, <1>4, <1>5, <1>6, <1>7, <1>8 DEF SessionStep

LEMMA TriggerInTurn ==
  ASSUME TypeOK, Untouched, FilesInTurn, NEW fixture \in Fixtures, Trigger(fixture)
  PROVE  /\ Untouched' /\ FilesInTurn'
         /\ started' \in Sessions /\ stage[started'] = "none"
<1>1. started' = started + 1 /\ started' \in Sessions /\ started' > started
  BY SessionsAssumption DEF Trigger, TypeOK, Sessions
<1>2. stage[started'] = "none"
  BY <1>1 DEF Untouched
<1>3. stage' = [stage EXCEPT ![started'] = "emitting"] /\ UNCHANGED <<at, call, content>>
  BY DEF Trigger
<1>4. \A t \in Sessions : t > started' => t > started /\ t # started'
  BY <1>1 DEF Sessions, TypeOK
<1>5. Untouched'
  BY <1>1, <1>3, <1>4 DEF Untouched, TypeOK
<1>6. ASSUME NEW t \in Sessions PROVE InTurn(t)'
  BY <1>2, <1>3 DEF FilesInTurn, InTurn, TypeOK
<1> QED BY <1>1, <1>2, <1>5, <1>6 DEF FilesInTurn

LEMMA CrashInTurn ==
  ASSUME TypeOK, Untouched, FilesInTurn, ProcessCrash \/ PowerFailure
  PROVE  /\ Untouched' /\ FilesInTurn'
         /\ \A s \in Sessions, f \in 1..Files :
              content'[s][f] = "durable" <=> content[s][f] = "durable"
<1>1. Crash
  BY DEF ProcessCrash, PowerFailure
<1>2. UNCHANGED started
      /\ stage' = [s \in Sessions |-> IF Running(s) THEN "lost" ELSE stage[s]] /\ up
  BY <1>1 DEF Crash
<1>3. \A s \in Sessions, f \in 1..Files :
        content'[s][f] = "durable" <=> content[s][f] = "durable"
  <2>1. CASE ProcessCrash
    BY <2>1 DEF ProcessCrash
  <2>2. CASE PowerFailure
    <3>1. PICK gone \in SUBSET {p \in Sessions \X (1..Files) : content[p[1]][p[2]] = "volatile"} :
            content' = [s \in Sessions |-> [f \in 1..Files |->
                          IF <<s, f>> \in gone THEN "absent" ELSE content[s][f]]]
      BY <2>2 DEF PowerFailure
    <3>2. \A s \in Sessions, f \in 1..Files : <<s, f>> \in gone => content[s][f] = "volatile"
      OBVIOUS
    <3> QED BY <3>1, <3>2
  <2> QED BY <2>1, <2>2
<1>4. Untouched'
  BY <1>2 DEF Untouched, Running
<1>5. ASSUME NEW s \in Sessions PROVE InTurn(s)'
  <2>1. stage'[s] \in {"none", "emitting", "writing"} => stage'[s] = "none" /\ stage[s] = "none"
    BY <1>2 DEF Running
  <2> QED BY <2>1, <1>3 DEF FilesInTurn, InTurn
<1> QED BY <1>3, <1>4, <1>5 DEF FilesInTurn

-----------------------------------------------------------------------------
\* What is stored stays stored.

LEMMA SessionStepStored ==
  ASSUME TypeOK, Untouched, FilesInTurn, NEW s \in Sessions, SessionStep(s)
  PROVE  /\ s \in Stored => s \in Stored'
         /\ \A t \in Sessions \ {s} : t \in Stored' <=> t \in Stored
<1>1. stage[s] \in {"emitting", "writing"} /\ OnlyOf(s) /\ InTurn(s)
  BY SessionStepInTurn DEF FilesInTurn
<1>2. \A t \in Sessions \ {s} : t \in Stored' <=> t \in Stored
  BY <1>1 DEF OnlyOf, Stored
<1>3. ASSUME s \in Stored PROVE s \in Stored'
  <2>1. \A f \in 1..Files : content[s][f] = "durable"
    BY <1>3 DEF Stored
  <2>2. 1 \in 1..Files /\ Files \in 1..Files
    BY SessionsAssumption
  <2>3. stage[s] = "writing" /\ at[s] = Files
    BY <1>1, <2>1, <2>2 DEF InTurn
  <2>4. UNCHANGED content \/ Synced(s)
    BY <2>3 DEF SessionStep, EmitState, EmitIdle, Written, Closed, FileFails
  <2>5. \A f \in 1..Files : content'[s][f] = "durable"
    <3>1. CASE UNCHANGED content
      BY <2>1, <3>1
    <3>2. CASE Synced(s)
      <4>1. content' = [content EXCEPT ![s] = [@ EXCEPT ![Files] = "durable"]]
        BY <2>3, <3>2 DEF Synced
      <4>2. content'[s] = [content[s] EXCEPT ![Files] = "durable"]
            /\ content[s] \in [1..Files -> Contents]
        BY <4>1 DEF TypeOK
      <4> QED BY <2>1, <4>2
    <3> QED BY <2>4, <3>1, <3>2
  <2> QED BY <2>5 DEF Stored
<1> QED BY <1>2, <1>3

\* At most one more session is stored by a step.
LEMMA StoredStep ==
  ASSUME TypeOK, Untouched, FilesInTurn, [Next]_vars
  PROVE  Stored' = Stored \/ \E s \in Sessions : Stored' = Stored \cup {s}
<1>1. CASE UNCHANGED content
  BY <1>1 DEF Stored
<1>2. CASE \E s \in Sessions : SessionStep(s)
  <2>1. PICK s \in Sessions : SessionStep(s)
    BY <1>2
  <2>2. /\ s \in Stored => s \in Stored'
        /\ \A t \in Sessions \ {s} : t \in Stored' <=> t \in Stored
    BY <2>1, SessionStepStored
  <2>3. Stored \subseteq Sessions /\ Stored' \subseteq Sessions
    BY DEF Stored
  <2> QED BY <2>2, <2>3
<1>3. CASE ProcessCrash \/ PowerFailure
  <2>1. \A s \in Sessions, f \in 1..Files :
          content'[s][f] = "durable" <=> content[s][f] = "durable"
    BY <1>3, CrashInTurn
  <2> QED BY <2>1 DEF Stored
<1> QED BY <1>1, <1>2, <1>3
       DEF Next, SessionStep, Trigger, Deliver, Connect, Disconnect, Restart, running, vars

LEMMA SafeStep ==
  ASSUME TypeOK, Untouched, FilesInTurn, [Next]_vars, NEW t \in Sessions, Safe(t)
  PROVE  Safe(t)'
<1>1. t \in Stored'
  BY StoredStep DEF Safe
<1>2. stage'[t] = "complete"
  <2>1. CASE UNCHANGED stage
    BY <2>1 DEF Safe
  <2>2. CASE \E s \in Sessions : SessionStep(s)
    BY <2>2, SessionStepInTurn DEF Safe, OnlyOf
  <2>3. CASE \E fixture \in Fixtures : Trigger(fixture)
    BY <2>3, TriggerInTurn DEF Safe, Trigger, TypeOK
  <2>4. CASE ProcessCrash \/ PowerFailure
    BY <2>4 DEF ProcessCrash, PowerFailure, Crash, Running, Safe
  <2> QED BY <2>1, <2>2, <2>3, <2>4
         DEF Next, SessionStep, Deliver, Connect, Disconnect, Restart, running, vars
<1> QED BY <1>1, <1>2 DEF Safe

-----------------------------------------------------------------------------
\* What is said, on its way and told.

LEMMA SaidToldType ==
  ASSUME TypeOK, FilesInTurn
  PROVE  /\ Said \in [Sessions -> Int] /\ Told \in [Sessions -> Int]
<1>1. \A s \in Sessions : at[s] \in Int
  BY SessionsAssumption DEF TypeOK, Position, LastState
<1>2. \A s \in Sessions : heard[s] \in Int
  <2>1. heard \in [Sessions -> 0..LastState]
    BY DEF TypeOK
  <2> QED BY ONLY <2>1 DEF LastState
<1>3. LastState \in Int
  BY DEF LastState
<1>4. Said \in [Sessions -> Int]
  BY <1>1, <1>3 DEF Said
<1>5. Told \in [Sessions -> Int]
  BY <1>2, <1>3 DEF Told
<1> QED BY <1>4, <1>5

LEMMA SaidByOthers ==
  ASSUME NEW s \in Sessions, OnlyOf(s), NEW t \in Sessions \ {s}
  PROVE  Said'[t] = Said[t]
BY DEF OnlyOf, Said

\* Nothing is published.
LEMMA QuietInOrder ==
  ASSUME NEW told, NEW q, q \in Seq(Message),
         NEW said \in [Sessions -> Int], NEW later \in [Sessions -> Int],
         told \in [Sessions -> Int], InOrder(told, q, said),
         \A s \in Sessions : said[s] <= later[s]
  PROVE  InOrder(told, q, later)
<1>1. \A i \in 1..Len(q) : q[i].session \in Sessions /\ Rank(q[i]) \in Int
  BY ElementOfSeq, Ranks
<1> QED BY <1>1 DEF InOrder

LEMMA SaidToldTypes ==
  ASSUME IInv, TypeOK', FilesInTurn'
  PROVE  /\ Said \in [Sessions -> Int] /\ Told \in [Sessions -> Int]
         /\ Said' \in [Sessions -> Int] /\ Told' \in [Sessions -> Int]
<1>1. TypeOK /\ FilesInTurn => Said \in [Sessions -> Int] /\ Told \in [Sessions -> Int]
  BY SaidToldType
<1>2. (TypeOK /\ FilesInTurn => Said \in [Sessions -> Int] /\ Told \in [Sessions -> Int])'
  BY SaidToldType, PTL
<1> QED BY <1>1, <1>2 DEF IInv

LEMMA QuietStep ==
  ASSUME IInv, TypeOK', FilesInTurn', UNCHANGED <<outbox, heard, end>>,
         \A t \in Sessions : Said[t] <= Said'[t]
  PROVE  InOrder(Told, outbox, Said)'
<1>1. Told' = Told
  BY DEF Told
<1>2. InOrder(Told, outbox, Said) /\ outbox \in Seq(Message)
  BY DEF IInv, TypeOK
<1>3. InOrder(Told, outbox, Said')
  BY <1>2, SaidToldTypes, QuietInOrder
<1> QED BY <1>1, <1>3 DEF InOrder

\* One message is published by a session.
LEMMA PublishInOrder ==
  ASSUME IInv, TypeOK', FilesInTurn', NEW s \in Sessions, OnlyOf(s), NEW m \in Message,
         outbox' = Append(outbox, m), UNCHANGED <<heard, end>>,
         m.session = s, Said[s] < Rank(m), Rank(m) <= Said'[s]
  PROVE  InOrder(Told, outbox, Said)'
<1>1. Said \in [Sessions -> Int] /\ Told \in [Sessions -> Int] /\ Said' \in [Sessions -> Int]
  BY SaidToldTypes
<1>2. Rank(m) \in Int
  BY Ranks
<1>3. \A t \in Sessions : Said[t] <= Said'[t]
  <2>1. TAKE t \in Sessions
  <2>2. CASE t = s
    BY <1>1, <1>2, <2>2
  <2>3. CASE t # s
    <3>1. Said'[t] = Said[t]
      BY <2>3, SaidByOthers
    <3> QED BY <1>1, <3>1
  <2> QED BY <2>2, <2>3
<1>4. Told' = Told
  BY DEF Told
<1>5. outbox \in Seq(Message) /\ InOrder(Told, outbox, Said)
  BY DEF IInv, TypeOK
<1>6. InOrder(Told, Append(outbox, m), Said')
  BY <1>1, <1>3, <1>5, AppendInOrder
<1> QED BY <1>4, <1>6 DEF InOrder

LEMMA EmitStateInOrder ==
  ASSUME IInv, TypeOK', FilesInTurn', NEW s \in Sessions, OnlyOf(s), EmitState(s)
  PROVE  InOrder(Told, outbox, Said)'
<1>1. /\ stage[s] = "emitting" /\ stage'[s] = "emitting"
      /\ at[s] + 1 \in 1..LastState /\ at'[s] = at[s] + 1
  BY SessionsAssumption DEF EmitState, IInv, TypeOK, Position, LastState
<1>2. Said[s] = at[s] /\ Said'[s] = at[s] + 1
  BY <1>1 DEF Said
<1> DEFINE m == State(s, at[s] + 1)
<1>3. m \in Message /\ m.session = s /\ Rank(m) = at[s] + 1
  BY <1>1, StateMessage
<1>4. outbox' = Append(outbox, m) /\ UNCHANGED <<heard, end>>
  BY <1>1 DEF EmitState
<1> HIDE DEF m
<1>5. Said[s] < Rank(m) /\ Rank(m) <= Said'[s]
  <2>1. at[s] \in Int
    BY SessionsAssumption DEF IInv, TypeOK, Position, LastState
  <2> QED BY <2>1, <1>2, <1>3
<1> QED BY <1>3, <1>4, <1>5, PublishInOrder

LEMMA EmitIdleInOrder ==
  ASSUME IInv, TypeOK', FilesInTurn', NEW s \in Sessions, OnlyOf(s), EmitIdle(s)
  PROVE  InOrder(Told, outbox, Said)'
<1>1. stage[s] = "emitting" /\ Said[s] = LastState - 1 /\ UNCHANGED <<heard, end>>
  BY DEF EmitIdle, Said
<1> DEFINE m == State(s, LastState)
           e == Report(s, "error")
<1>2. m \in Message /\ m.session = s /\ Rank(m) = LastState
  BY StateMessage DEF LastState
<1>3. e \in Message /\ e.session = s /\ Rank(e) = LastState + 1
  BY ReportMessage
<1>4. CASE ~fails[s]
  <2>1. outbox' = Append(outbox, m)
    BY <1>4 DEF EmitIdle
  <2>2. OpenFile(s, 1) /\ 1 \in 1..Files
    BY <1>4, SessionsAssumption DEF EmitIdle
  <2>3. stage'[s] \in {"writing", "abandoned"}
    BY <2>2 DEF OpenFile, Ends, IInv, TypeOK
  <2>4. Said[s] < Rank(m) /\ Rank(m) <= Said'[s]
    BY <1>1, <1>2, <2>3 DEF Said, LastState
  <2> HIDE DEF m
  <2> QED BY <1>1, <1>2, <2>1, <2>4, PublishInOrder
<1>5. CASE fails[s]
  <2> DEFINE middle == [Said EXCEPT ![s] = LastState]
  <2>1. outbox \in Seq(Message) /\ InOrder(Told, outbox, Said)
    BY DEF IInv, TypeOK
  <2>2. outbox' = Append(Append(outbox, m), e)
    <3>1. outbox' = outbox \o <<m, e>>
      BY <1>5 DEF EmitIdle
    <3> HIDE DEF m, e
    <3> QED BY <3>1, <2>1, <1>2, <1>3, AppendTwo
  <2>3. stage'[s] = "error"
    BY <1>5 DEF EmitIdle, Ends, IInv, TypeOK
  <2>4. Said'[s] = LastState + 1
    BY <2>3 DEF Said
  <2>5. /\ Said \in [Sessions -> Int] /\ Told \in [Sessions -> Int]
        /\ Said' \in [Sessions -> Int]
    BY SaidToldTypes
  <2>6. /\ middle \in [Sessions -> Int] /\ middle[s] = LastState
        /\ \A t \in Sessions \ {s} : middle[t] = Said[t]
    BY <2>5 DEF LastState
  <2>7. \A t \in Sessions \ {s} : Said'[t] = Said[t]
    BY SaidByOthers
  <2>8. \A t \in Sessions : Said[t] <= middle[t]
    BY <1>1, <2>5, <2>6 DEF LastState
  <2>9. \A t \in Sessions : middle[t] <= Said'[t]
    BY <2>4, <2>5, <2>6, <2>7 DEF LastState
  <2> HIDE DEF middle, m, e
  <2>10. InOrder(Told, Append(outbox, m), middle)
    <3>1. Said[m.session] < Rank(m) /\ Rank(m) <= middle[m.session]
      BY <1>1, <1>2, <2>6 DEF LastState
    <3> QED BY <3>1, <1>2, <2>1, <2>5, <2>6, <2>8, AppendInOrder
  <2>11. InOrder(Told, Append(Append(outbox, m), e), Said')
    <3>1. middle[e.session] < Rank(e) /\ Rank(e) <= Said'[e.session]
      BY <1>3, <2>4, <2>6 DEF LastState
    <3>2. Append(outbox, m) \in Seq(Message)
      BY <1>2, <2>1, OneMessage
    <3> QED BY <3>1, <3>2, <1>3, <2>5, <2>6, <2>9, <2>10, AppendInOrder
  <2>12. Told' = Told
    BY <1>1 DEF Told
  <2> QED BY <2>2, <2>11, <2>12 DEF InOrder
<1> QED BY <1>4, <1>5

\* The steps of writeAndSync that publish nothing.
LEMMA QuietFileInOrder ==
  ASSUME IInv, TypeOK', FilesInTurn', NEW s \in Sessions, OnlyOf(s),
         stage[s] = "writing", stage'[s] \in {"writing", "abandoned"},
         UNCHANGED <<outbox, heard, end>>
  PROVE  InOrder(Told, outbox, Said)'
<1>1. Said[s] = LastState /\ Said'[s] \in {LastState, LastState + 1}
  BY DEF Said
<1>2. \A t \in Sessions \ {s} : Said'[t] = Said[t]
  BY SaidByOthers
<1>3. \A t \in Sessions : Said[t] <= Said'[t]
  BY <1>1, <1>2, SaidToldTypes DEF LastState
<1> QED BY <1>3, QuietStep

LEMMA ClosedInOrder ==
  ASSUME IInv, TypeOK', FilesInTurn', NEW s \in Sessions, OnlyOf(s), Closed(s)
  PROVE  InOrder(Told, outbox, Said)'
<1>1. stage[s] = "writing" /\ UNCHANGED <<heard, end>>
  BY DEF Closed, Called
<1>2. CASE at[s] = Files
  <2> DEFINE m == Report(s, "complete")
  <2>1. m \in Message /\ m.session = s /\ Rank(m) = LastState + 1
    BY ReportMessage
  <2>2. outbox' = Append(outbox, m)
    BY <1>2 DEF Closed
  <2>3. stage'[s] = "complete"
    BY <1>2 DEF Closed, Ends, IInv, TypeOK
  <2>4. Said[s] < Rank(m) /\ Rank(m) <= Said'[s]
    BY <1>1, <2>1, <2>3 DEF Said, LastState
  <2> HIDE DEF m
  <2> QED BY <1>1, <2>1, <2>2, <2>4, PublishInOrder
<1>3. CASE at[s] # Files
  <2>1. OpenFile(s, at[s] + 1) /\ UNCHANGED outbox
    BY <1>3 DEF Closed
  <2>2. stage'[s] \in {"writing", "abandoned"}
    BY <2>1 DEF OpenFile, Ends, IInv, TypeOK
  <2> QED BY <1>1, <2>1, <2>2, QuietFileInOrder
<1> QED BY <1>2, <1>3

LEMMA SessionStepInOrder ==
  ASSUME IInv, TypeOK', FilesInTurn', NEW s \in Sessions, OnlyOf(s), SessionStep(s)
  PROVE  InOrder(Told, outbox, Said)'
<1>1. CASE Written(s) \/ Synced(s)
  <2>1. stage[s] = "writing" /\ UNCHANGED <<stage, outbox, heard, end>>
    BY <1>1 DEF Written, Synced, Called
  <2> QED BY <2>1, QuietFileInOrder
<1>2. CASE FileFails(s)
  <2>1. stage[s] = "writing" /\ stage'[s] = "abandoned" /\ UNCHANGED <<outbox, heard, end>>
    BY <1>2 DEF FileFails, Ends, IInv, TypeOK
  <2> QED BY <2>1, QuietFileInOrder
<1> QED BY <1>1, <1>2, EmitStateInOrder, EmitIdleInOrder, ClosedInOrder DEF SessionStep

\* What the first message of a queue in order tells.
LEMMA FirstMessage ==
  ASSUME IInv, Deliver
  PROVE  /\ Head(outbox) \in Message
         /\ end[Head(outbox).session] = "none"
         /\ heard[Head(outbox).session] < Rank(Head(outbox))
         /\ Head(outbox).kind = "complete" => Claims(outbox, Head(outbox).session)
<1> DEFINE m == Head(outbox)
<1>1. outbox \in Seq(Message) /\ outbox # <<>>
  BY DEF IInv, TypeOK, Deliver
<1>2. m \in Message /\ 1 \in 1..Len(outbox) /\ m = outbox[1]
  BY <1>1, LenProperties, EmptySeq, ElementOfSeq
<1> HIDE DEF m
<1>3. Told[m.session] < Rank(m)
  BY <1>2 DEF IInv, InOrder
<1>4. m.session \in Sessions /\ Rank(m) \in 1..(LastState + 1)
  BY <1>2, Ranks
<1>5. end[m.session] = "none" /\ heard[m.session] < Rank(m)
  BY <1>3, <1>4 DEF Told, LastState
<1>6. m.kind = "complete" => Claims(outbox, m.session)
  BY <1>2 DEF Claims
<1> QED BY <1>2, <1>5, <1>6 DEF m

LEMMA DeliverInOrder ==
  ASSUME IInv, TypeOK', FilesInTurn', Deliver
  PROVE  /\ InOrder(Told, outbox, Said)'
         /\ \A t : Claims(outbox', t) => Claims(outbox, t)
<1> DEFINE m == Head(outbox)
<1>1. /\ m \in Message /\ end[m.session] = "none"
  BY FirstMessage
<1>2. /\ m.session \in Sessions
      /\ m.kind = "state" => Rank(m) = m.state
      /\ m.kind # "state" => Rank(m) = LastState + 1 /\ m.kind \in {"complete", "error"}
  BY <1>1, Ranks
<1>3. /\ outbox # <<>> /\ outbox' = Tail(outbox) /\ UNCHANGED <<stage, at>>
      /\ m.kind = "state" => heard' = [heard EXCEPT ![m.session] = m.state] /\ end' = end
      /\ m.kind # "state" => end' = [end EXCEPT ![m.session] = m.kind] /\ heard' = heard
  BY DEF Deliver, running
<1> HIDE DEF m
<1>4. heard \in [Sessions -> 0..LastState] /\ end \in [Sessions -> {"none", "complete", "error"}]
  BY DEF IInv, TypeOK
<1>5. Told'[m.session] = Rank(m)
  <2>1. CASE m.kind = "state"
    BY <2>1, <1>1, <1>2, <1>3, <1>4 DEF Told
  <2>2. CASE m.kind # "state"
    BY <2>2, <1>2, <1>3, <1>4 DEF Told
  <2> QED BY <2>1, <2>2
<1>6. \A t \in Sessions \ {m.session} : Told'[t] = Told[t]
  BY <1>3, <1>4 DEF Told
<1>7. outbox \in Seq(Message) /\ InOrder(Told, outbox, Said) /\ Said' = Said
  BY <1>3 DEF IInv, TypeOK, Said
<1>8. InOrder(Told', Tail(outbox), Said) /\ \A t : Claims(Tail(outbox), t) => Claims(outbox, t)
  BY <1>3, <1>5, <1>6, <1>7, SaidToldTypes, HeardInOrder DEF m
<1> QED BY <1>3, <1>7, <1>8 DEF InOrder

LEMMA DisconnectInOrder ==
  ASSUME IInv, Disconnect
  PROVE  /\ InOrder(Told, outbox, Said)'
         /\ \A t : Claims(outbox', t) => Claims(outbox, t)
<1>1. PICK lost \in 0..Len(outbox) : outbox' = SubSeq(outbox, lost + 1, Len(outbox))
  BY DEF Disconnect
<1>2. outbox \in Seq(Message) /\ InOrder(Told, outbox, Said)
  BY DEF IInv, TypeOK
<1>3. Told' = Told /\ Said' = Said
  BY DEF Disconnect, running, Told, Said
<1> QED BY <1>1, <1>2, <1>3, RestInOrder DEF InOrder

LEMMA CrashInOrder ==
  ASSUME IInv, TypeOK', FilesInTurn', ProcessCrash \/ PowerFailure
  PROVE  /\ InOrder(Told, outbox, Said)'
         /\ \A t : ~Claims(outbox', t)
<1>1. /\ outbox' = <<>> /\ UNCHANGED <<heard, end>> /\ up
      /\ stage' = [s \in Sessions |-> IF Running(s) THEN "lost" ELSE stage[s]]
  BY DEF ProcessCrash, PowerFailure, Crash
<1>2. Len(outbox') = 0
  BY <1>1
<1>3. ASSUME NEW s \in Sessions PROVE Told'[s] <= Said'[s]
  <2>1. Told'[s] = Told[s] /\ Told[s] <= Said[s]
    BY <1>1, <1>3 DEF Told, IInv, InOrder
  <2>2. Told[s] <= LastState + 1
    <3>1. heard[s] \in 0..LastState
      BY DEF IInv, TypeOK
    <3> QED BY <3>1 DEF Told, LastState
  <2>3. stage[s] \notin {"emitting", "writing"} => Said'[s] = Said[s]
    BY <1>1 DEF Said, Running
  <2>4. stage[s] \in {"emitting", "writing"} => Said'[s] = LastState + 1
    BY <1>1 DEF Said, Running
  <2> QED BY <2>1, <2>2, <2>3, <2>4
<1>4. InOrder(Told', outbox', Said')
  BY <1>2, <1>3 DEF InOrder
<1>5. \A t : ~Claims(outbox', t)
  BY <1>2 DEF Claims
<1> QED BY <1>4, <1>5 DEF InOrder

LEMMA TriggerInOrder ==
  ASSUME IInv, TypeOK', FilesInTurn', NEW fixture \in Fixtures, Trigger(fixture)
  PROVE  InOrder(Told, outbox, Said)'
<1>1. started' \in Sessions /\ stage[started'] = "none"
  BY TriggerInTurn DEF IInv
<1>2. stage' = [stage EXCEPT ![started'] = "emitting"] /\ UNCHANGED <<at, outbox, heard, end>>
  BY DEF Trigger
<1>3. Said[started'] = 0 /\ \A t \in Sessions \ {started'} : Said'[t] = Said[t]
  BY <1>1, <1>2 DEF Said, IInv, TypeOK
<1>4. Said'[started'] >= 0
  <2>1. at[started'] \in Int /\ at[started'] >= 0
    BY <1>1, SessionsAssumption DEF IInv, TypeOK, Position, LastState
  <2> QED BY <1>1, <1>2, <2>1 DEF Said, LastState
<1>5. \A t \in Sessions : Said[t] <= Said'[t]
  BY <1>3, <1>4, SaidToldTypes
<1> QED BY <1>2, <1>5, QuietStep

-----------------------------------------------------------------------------
\* The invariant.

LEMMA TypeStep ==
  ASSUME TypeOK, FilesInTurn, [Next]_vars
  PROVE  TypeOK'
<1>1. CASE \E fixture \in Fixtures : Trigger(fixture)
  BY <1>1, TypeTrigger
<1>2. ASSUME NEW s \in Sessions, SessionStep(s) PROVE TypeOK'
  <2>1. CASE Closed(s)
    <3>1. at[s] \in 1..Files
      BY <2>1 DEF Closed, Called, FilesInTurn, InTurn
    <3> QED BY <2>1, <3>1, TypeClosed
  <2> QED BY <1>2, <2>1, TypeEmitState, TypeEmitIdle, TypeFile DEF SessionStep
<1>3. CASE ProcessCrash \/ PowerFailure
  BY <1>3, TypeCrash
<1>4. CASE Connect \/ Restart
  BY <1>4 DEF Connect, Restart, TypeOK, running
<1>5. CASE UNCHANGED vars
  BY <1>5 DEF vars, process, running, TypeOK
<1> QED
  BY <1>1, <1>2, <1>3, <1>4, <1>5, TypeDeliver, TypeDisconnect DEF Next, SessionStep

LEMMA InTurnStep ==
  ASSUME TypeOK, Untouched, FilesInTurn, [Next]_vars
  PROVE  Untouched' /\ FilesInTurn'
<1>1. CASE \E s \in Sessions : SessionStep(s)
  <2>1. PICK s \in Sessions : SessionStep(s)
    BY <1>1
  <2>2. stage[s] # "none" /\ OnlyOf(s) /\ InTurn(s)'
    BY <2>1, SessionStepInTurn
  <2> QED BY <2>2, StepOfOne
<1>2. CASE UNCHANGED <<started, stage, at, call, content>>
  BY <1>2 DEF Untouched, FilesInTurn, InTurn
<1> QED
  BY <1>1, <1>2, TriggerInTurn, CrashInTurn
     DEF Next, SessionStep, Deliver, Connect, Disconnect, Restart, running, process, vars

LEMMA InOrderStep ==
  ASSUME IInv, TypeOK', FilesInTurn', [Next]_vars
  PROVE  InOrder(Told, outbox, Said)'
<1>1. CASE \E s \in Sessions : SessionStep(s)
  <2>1. PICK s \in Sessions : SessionStep(s)
    BY <1>1
  <2>2. OnlyOf(s)
    BY <2>1, SessionStepInTurn DEF IInv
  <2> QED BY <2>1, <2>2, SessionStepInOrder
<1>2. CASE UNCHANGED <<stage, at, outbox, heard, end>>
  BY <1>2 DEF IInv, InOrder, Told, Said
<1> QED
  BY <1>1, <1>2, TriggerInOrder, DeliverInOrder, DisconnectInOrder, CrashInOrder
     DEF Next, SessionStep, Connect, Restart, running, vars

\* Only the session that closes its last file claims to be complete.
LEMMA SessionStepClaims ==
  ASSUME IInv, NEW s \in Sessions, SessionStep(s), NEW t \in Sessions, Claims(outbox', t)
  PROVE  Claims(outbox, t) \/ (t = s /\ Closed(s) /\ at[s] = Files)
<1>1. outbox \in Seq(Message)
  BY DEF IInv, TypeOK
<1>2. CASE EmitState(s)
  <2>1. at[s] + 1 \in 1..LastState /\ at'[s] = at[s] + 1
    BY <1>2, SessionsAssumption DEF EmitState, IInv, TypeOK, Position, LastState
  <2>2. State(s, at[s] + 1) \in Message /\ State(s, at[s] + 1).kind = "state"
    BY <2>1, StateMessage
  <2>3. outbox' = Append(outbox, State(s, at[s] + 1))
    BY <1>2, <2>1 DEF EmitState
  <2> QED BY <1>1, <2>2, <2>3, AppendClaims
<1>3. CASE EmitIdle(s)
  <2> DEFINE m == State(s, LastState)
             e == Report(s, "error")
  <2>1. m \in Message /\ m.kind # "complete" /\ e \in Message /\ e.kind # "complete"
    BY StateMessage, ReportMessage DEF LastState
  <2>2. outbox' = outbox \o <<m, e>> \/ outbox' = Append(outbox, m)
    BY <1>3 DEF EmitIdle
  <2> HIDE DEF m, e
  <2>3. outbox' = Append(Append(outbox, m), e) \/ outbox' = Append(outbox, m)
    BY <1>1, <2>1, <2>2, AppendTwo
  <2>4. Append(outbox, m) \in Seq(Message)
    BY <1>1, <2>1, OneMessage
  <2>5. Claims(Append(outbox, m), t)
    <3>1. CASE outbox' = Append(outbox, m)
      BY <3>1
    <3>2. CASE outbox' = Append(Append(outbox, m), e)
      <4>1. Claims(Append(Append(outbox, m), e), t)
        BY <3>2
      <4> QED BY <4>1, <2>1, <2>4, AppendClaims
    <3> QED BY <2>3, <3>1, <3>2
  <2> QED BY <1>1, <2>1, <2>5, AppendClaims
<1>4. CASE Closed(s) /\ at[s] = Files
  <2>1. Report(s, "complete") \in Message /\ Report(s, "complete").session = s
    BY ReportMessage
  <2>2. outbox' = Append(outbox, Report(s, "complete"))
    BY <1>4 DEF Closed
  <2> QED BY <1>1, <1>4, <2>1, <2>2, AppendClaims
<1>5. CASE UNCHANGED outbox
  BY <1>5
<1> QED
  BY <1>2, <1>3, <1>4, <1>5 DEF SessionStep, Written, Synced, Closed, FileFails

LEMMA ClosedIsSafe ==
  ASSUME IInv, NEW s \in Sessions, Closed(s), at[s] = Files
  PROVE  Safe(s)'
<1>1. stage'[s] = "complete" /\ UNCHANGED content
  BY DEF Closed, Ends, IInv, TypeOK
<1>2. \A f \in 1..Files : content[s][f] = "durable"
  BY SessionsAssumption DEF Closed, Called, IInv, FilesInTurn, InTurn
<1> QED BY <1>1, <1>2 DEF Safe, Stored

LEMMA ClaimsStep ==
  ASSUME IInv, TypeOK', FilesInTurn', [Next]_vars
  PROVE  ClaimedIsSafe'
<1> SUFFICES ASSUME NEW t \in Sessions, end'[t] = "complete" \/ Claims(outbox', t)
             PROVE  Safe(t)'
  BY DEF ClaimedIsSafe
<1>1. ASSUME end[t] = "complete" \/ Claims(outbox, t) PROVE Safe(t)'
  BY <1>1, SafeStep DEF IInv, ClaimedIsSafe
<1>2. CASE \E s \in Sessions : SessionStep(s)
  <2>1. PICK s \in Sessions : SessionStep(s)
    BY <1>2
  <2>2. UNCHANGED end
    BY <2>1 DEF SessionStep, EmitState, EmitIdle, Written, Synced, Closed, FileFails
  <2> QED BY <1>1, <2>1, <2>2, SessionStepClaims, ClosedIsSafe
<1>3. CASE Deliver
  <2>1. Claims(outbox', t) => Claims(outbox, t)
    BY <1>3, DeliverInOrder
  <2>2. end'[t] = "complete" => end[t] = "complete" \/ Claims(outbox, t)
    BY <1>3, FirstMessage, Ranks DEF Deliver, IInv, TypeOK
  <2> QED BY <1>1, <2>1, <2>2
<1>4. CASE Disconnect
  <2>1. Claims(outbox', t) => Claims(outbox, t)
    BY <1>4, DisconnectInOrder
  <2> QED BY <1>1, <1>4, <2>1 DEF Disconnect
<1>5. CASE ProcessCrash \/ PowerFailure
  <2>1. UNCHANGED end
    BY <1>5 DEF ProcessCrash, PowerFailure, Crash
  <2> QED BY <1>1, <1>5, <2>1, CrashInOrder
<1>6. CASE UNCHANGED <<outbox, end>>
  BY <1>1, <1>6
<1> QED
  BY <1>2, <1>3, <1>4, <1>5, <1>6 DEF Next, SessionStep, Trigger, Connect, Restart, vars

LEMMA Initially == Init => IInv
<1> SUFFICES ASSUME Init PROVE IInv
  OBVIOUS
<1>1. TypeOK
  <2>1. <<>> \in Seq(Message)
    BY EmptySeq
  <2>2. 0 \in Position /\ "write" \in Calls /\ "none" \in Stages /\ "absent" \in Contents
    BY SessionsAssumption DEF Position, Calls, Stages, Contents, LastState
  <2>3. 0 \in 0..LastState /\ 0 \in 0..MaxSessions
    BY SessionsAssumption DEF LastState
  <2> QED BY <2>1, <2>2, <2>3 DEF Init, TypeOK
<1>2. Len(outbox) = 0
  BY DEF Init
<1>3. Untouched /\ FilesInTurn
  BY DEF Init, Untouched, FilesInTurn, InTurn
<1>4. InOrder(Told, outbox, Said)
  BY <1>2 DEF Init, InOrder, Told, Said
<1>5. ClaimedIsSafe
  BY <1>2 DEF Init, ClaimedIsSafe, Claims
<1> QED BY <1>1, <1>3, <1>4, <1>5 DEF IInv

LEMMA Inductive == IInv /\ [Next]_vars => IInv'
<1> SUFFICES ASSUME IInv, [Next]_vars PROVE IInv'
  OBVIOUS
<1>1. TypeOK'
  BY TypeStep DEF IInv
<1>2. Untouched' /\ FilesInTurn'
  BY InTurnStep DEF IInv
<1>3. InOrder(Told, outbox, Said)'
  BY <1>1, <1>2, InOrderStep
<1>4. ClaimedIsSafe'
  BY <1>1, <1>2, ClaimsStep
<1> QED BY <1>1, <1>2, <1>3, <1>4 DEF IInv

-----------------------------------------------------------------------------
\* Type correctness.
THEOREM SessionsTypeCorrect == Spec => []TypeOK
<1>1. IInv => TypeOK
  BY DEF IInv
<1> QED BY <1>1, Initially, Inductive, PTL DEF Spec

\* Whoever hears that a session is complete finds all its files, after any
\* crash or power failure.
THEOREM CompleteIsStored == Spec => []CompleteMeansStored
<1>1. IInv => CompleteMeansStored
  BY DEF IInv, ClaimedIsSafe, Safe, CompleteMeansStored
<1> QED BY <1>1, Initially, Inductive, PTL DEF Spec

\* What subscribers hear of the simulated Brain is what SessionReports promises
\* them: in order, one end for each session, and none complete that is not
\* stored.
THEOREM Implementation == Spec => SessionsImplementReports
<1>1. Init => Reports!Init
  <2> SUFFICES ASSUME Init PROVE Reports!Init
    OBVIOUS
  <2>1. Stored = {}
    <3>1. 1 \in 1..Files
      BY SessionsAssumption
    <3> QED BY <3>1 DEF Init, Stored
  <2> QED BY <2>1 DEF Init, Reports!Init
<1>2. IInv /\ [Next]_vars => [Reports!Next]_Reports!vars
  <2> SUFFICES ASSUME IInv, [Next]_vars PROVE [Reports!Next]_Reports!vars
    OBVIOUS
  <2>1. CASE Deliver
    <3> DEFINE m == Head(outbox)
    <3>1. /\ m \in Message /\ end[m.session] = "none" /\ heard[m.session] < Rank(m)
          /\ m.kind = "complete" => Claims(outbox, m.session)
      BY <2>1, FirstMessage
    <3>2. /\ m.session \in Sessions
          /\ m.kind = "state" => m.state \in 1..LastState /\ Rank(m) = m.state
          /\ m.kind # "state" => m.kind \in {"complete", "error"}
      BY <3>1, Ranks
    <3>3. /\ UNCHANGED content
          /\ m.kind = "state" => heard' = [heard EXCEPT ![m.session] = m.state] /\ end' = end
          /\ m.kind # "state" => end' = [end EXCEPT ![m.session] = m.kind] /\ heard' = heard
      BY <2>1 DEF Deliver, running
    <3> HIDE DEF m
    <3>4. Stored' = Stored
      BY <3>3 DEF Stored
    <3>5. CASE m.kind = "state"
      <4>1. heard[m.session] \in 0..LastState
        BY <3>2 DEF IInv, TypeOK
      <4>2. m.state \in (heard[m.session] + 1)..LastState
        BY <3>1, <3>2, <3>5, <4>1 DEF LastState
      <4>3. Reports!HearState(m.session)
        BY <3>1, <3>3, <3>4, <3>5, <4>2 DEF Reports!HearState
      <4> QED BY <3>2, <4>3 DEF Reports!Next
    <3>6. CASE m.kind = "error"
      <4>1. Reports!HearError(m.session)
        BY <3>1, <3>3, <3>4, <3>6 DEF Reports!HearError
      <4> QED BY <3>2, <4>1 DEF Reports!Next
    <3>7. CASE m.kind = "complete"
      <4>1. m.session \in Stored
        BY <3>1, <3>2, <3>7 DEF IInv, ClaimedIsSafe, Safe
      <4>2. Reports!HearComplete(m.session)
        BY <3>1, <3>3, <3>4, <3>7, <4>1 DEF Reports!HearComplete
      <4> QED BY <3>2, <4>2 DEF Reports!Next
    <3> QED BY <3>2, <3>5, <3>6, <3>7
  <2>2. CASE ~Deliver
    <3>1. UNCHANGED <<heard, end>>
      BY <2>2 DEF Next, Trigger, EmitState, EmitIdle, Written, Synced, Closed, FileFails,
                  Connect, Disconnect, Restart, ProcessCrash, PowerFailure, Crash, vars
    <3>2. Stored' = Stored \/ \E s \in Sessions : Stored' = Stored \cup {s}
      BY StoredStep DEF IInv
    <3>3. CASE Stored' = Stored
      BY <3>1, <3>3 DEF Reports!vars
    <3>4. CASE \E s \in Sessions : Stored' = Stored \cup {s}
      BY <3>1, <3>4 DEF Reports!Next, Reports!Store
    <3> QED BY <3>2, <3>3, <3>4
  <2> QED BY <2>1, <2>2
<1> QED
  BY <1>1, <1>2, Initially, Inductive, PTL
     DEF Spec, SessionsImplementReports, Reports!Spec

-----------------------------------------------------------------------------
\* Without the process no session writes, so that the next process finds none
\* that does and has no file open.
DescriptorsIInv ==
  /\ DescriptorsClosed
  /\ \A s \in Sessions : stage[s] = "writing" => up

LEMMA DescriptorsStep ==
  ASSUME IInv, DescriptorsIInv, [Next]_vars
  PROVE  DescriptorsIInv'
<1>1. /\ descriptors \subseteq Sessions /\ stage \in [Sessions -> Stages]
      /\ call \in [Sessions -> Calls] /\ at \in [Sessions -> Position]
      /\ \A t \in Sessions : t \in descriptors <=> stage[t] = "writing"
      /\ \A t \in Sessions : stage[t] = "writing" => up
  BY DEF IInv, TypeOK, DescriptorsIInv, DescriptorsClosed, Running
<1>2. SUFFICES /\ descriptors' \subseteq Sessions
               /\ \A t \in Sessions : /\ t \in descriptors' <=> stage'[t] = "writing"
                                      /\ stage'[t] = "writing" => up'
  BY DEF DescriptorsIInv, DescriptorsClosed, Running
<1>3. ASSUME NEW s \in Sessions, SessionStep(s)
      PROVE  /\ descriptors' \subseteq Sessions
             /\ \A t \in Sessions : /\ t \in descriptors' <=> stage'[t] = "writing"
                                    /\ stage'[t] = "writing" => up'
  <2>1. up /\ up' = up
    BY <1>3 DEF SessionStep, EmitState, EmitIdle, Written, Synced, Closed, FileFails,
                Called, Running, process
  <2>2. \/ UNCHANGED <<stage, descriptors>>
        \/ \E how \in Stages \ {"writing"} : Ends(s, how)
        \/ stage' = [stage EXCEPT ![s] = "writing"] /\ descriptors' = descriptors \cup {s}
    BY <1>3 DEF SessionStep, EmitState, EmitIdle, Written, Synced, Closed, FileFails,
                OpenFile, Stages
  <2>3. CASE UNCHANGED <<stage, descriptors>>
    BY <1>1, <2>1, <2>3
  <2>4. CASE \E how \in Stages \ {"writing"} : Ends(s, how)
    BY <1>1, <2>1, <2>4 DEF Ends
  <2>5. CASE stage' = [stage EXCEPT ![s] = "writing"] /\ descriptors' = descriptors \cup {s}
    BY <1>1, <2>1, <2>5
  <2> QED BY <2>2, <2>3, <2>4, <2>5
<1>4. ASSUME NEW fixture \in Fixtures, Trigger(fixture)
      PROVE  /\ descriptors' \subseteq Sessions
             /\ \A t \in Sessions : /\ t \in descriptors' <=> stage'[t] = "writing"
                                    /\ stage'[t] = "writing" => up'
  <2>1. started' \in Sessions /\ started' > started
    BY <1>4, SessionsAssumption DEF Trigger, IInv, TypeOK, Sessions
  <2>2. stage[started'] = "none" /\ stage' = [stage EXCEPT ![started'] = "emitting"]
    BY <1>4, <2>1 DEF Trigger, IInv, Untouched
  <2> QED BY <1>1, <1>4, <2>1, <2>2 DEF Trigger
<1>5. CASE ProcessCrash \/ PowerFailure
  <2>1. /\ descriptors' = {}
        /\ stage' = [s \in Sessions |-> IF Running(s) THEN "lost" ELSE stage[s]]
    BY <1>5 DEF ProcessCrash, PowerFailure, Crash
  <2>2. ASSUME NEW s \in Sessions PROVE stage'[s] # "writing"
    <3>1. stage[s] = "writing" => Running(s)
      BY <1>1 DEF Running
    <3> QED BY <2>1, <3>1
  <2> QED BY <2>1, <2>2
<1>6. CASE Restart
  BY <1>1, <1>6 DEF Restart, running
<1>7. CASE UNCHANGED <<up, stage, descriptors>>
  BY <1>1, <1>7
<1> QED
  BY <1>3, <1>4, <1>5, <1>6, <1>7
     DEF Next, SessionStep, Deliver, Connect, Disconnect, process, running, vars

\* The files that are open are those of the sessions that write: neither a call
\* that fails nor a crash leaves a descriptor behind (writeAndSync).
THEOREM NothingLeftOpen == Spec => []DescriptorsClosed
<1>1. Init => DescriptorsIInv
  BY DEF Init, DescriptorsIInv, DescriptorsClosed, Running
<1>2. DescriptorsIInv => DescriptorsClosed
  BY DEF DescriptorsIInv
<1> QED BY <1>1, <1>2, Initially, Inductive, DescriptorsStep, PTL DEF Spec
=============================================================================
