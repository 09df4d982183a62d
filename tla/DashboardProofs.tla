--------------------------- MODULE DashboardProofs ---------------------------
(***************************************************************************)
(* Proofs about the way of the mode to the test pages, for any pages,      *)
(* streams, modes, Cores, restarts and bound on the messages: who listens  *)
(* is a client, and what is shown or heard last is what was published      *)
(* last, once everything on its way has come.                              *)
(***************************************************************************)
EXTENDS Dashboard, SequenceTheorems, TLAPS

Messages == Modes \cup {Subscribe}

-----------------------------------------------------------------------------
\* The inductive invariant.

\* main is only tried while there are attempts left.
Attempts == brain \in {"starting", "connecting", "listing"} => restartCount < MaxRestarts

\* A Core that does not serve has published nothing.
SilentUntilServing == announced => Serves

\* MqttClient subscribes at most once in a connection, and not without one.
AtMostOne(messages) ==
  \A i, j \in 1..Len(messages) :
    messages[i] = Subscribe /\ messages[j] = Subscribe => i = j

SubscribesOnce ==
  /\ AtMostOne(outgoing)
  /\ ~link => processed = 0 /\ \A i \in 1..Len(outgoing) : outgoing[i] # Subscribe

\* What comes back to Core ends with what the broker has had last from it, ...
LoopIsLast == loop # <<>> => subscribed /\ (~echoed => loop[Len(loop)] = latest)

\* ... and a page to which nothing is on its way and that misses nothing shows
\* it, unless a simulator's status came after it.
ShownIsLast ==
  \A p \in Pages : p \notin missed /\ loop = <<>> /\ ~echoed => shown[p] = latest

\* No status follows the message i.
NoneAfter(messages, i) == \A j \in 1..Len(messages) : j > i => messages[j] = Subscribe

\* The last status that is not acknowledged is the mode, taken or not, ...
LastIsMode ==
  announced =>
    \A i \in 1..Len(outgoing) :
      outgoing[i] # Subscribe /\ NoneAfter(outgoing, i) => outgoing[i] = mode

\* ... and if the broker has them all, it has passed the mode on.
TakenIsMode == announced /\ NoneAfter(outgoing, processed) => latest = mode

IInv ==
  /\ TypeOK /\ Attempts /\ SilentUntilServing /\ SubscribesOnce
  /\ LoopIsLast /\ ShownIsLast /\ LastIsMode /\ TakenIsMode

-----------------------------------------------------------------------------
\* Messages.

LEMMA Indices ==
  ASSUME NEW S, NEW q \in Seq(S)
  PROVE  Len(q) \in Nat /\ \A i \in 1..Len(q) : q[i] \in S
BY LenProperties, ElementOfSeq

LEMMA Appended ==
  ASSUME NEW S, NEW q \in Seq(S), NEW m \in S
  PROVE  /\ Append(q, m) \in Seq(S) /\ Append(q, m) # <<>>
         /\ Len(Append(q, m)) = Len(q) + 1
         /\ \A i \in 1..Len(q) : Append(q, m)[i] = q[i]
         /\ Append(q, m)[Len(q) + 1] = m
BY AppendProperties

LEMMA Emptied ==
  ASSUME NEW S, NEW q \in Seq(S)
  PROVE  q = <<>> <=> Len(q) = 0
BY EmptySeq

\* The subscription is found where it is.
LEMMA WhereSubscribed ==
  ASSUME NEW q \in Seq(Messages), AtMostOne(q), NEW k \in 1..Len(q), q[k] = Subscribe
  PROVE  Statuses(q) = SubSeq(q, 1, k - 1) \o SubSeq(q, k + 1, Len(q))
<1> DEFINE I == {i \in 1..Len(q) : q[i] = Subscribe}
<1>1. Len(q) \in Nat
  BY Indices
<1>2. I = {k}
  BY DEF AtMostOne
<1>3. Min({k}) = k
  BY <1>1 DEF Min
<1>4. SelectInSeq(q, LAMBDA m : m = Subscribe) = k
  BY <1>2, <1>3 DEF SelectInSeq
<1>5. Statuses(q) = RemoveAt(q, k)
  BY <1>4 DEF Statuses, RemoveFirst
<1> QED BY <1>5 DEF RemoveAt

\* What is left are the statuses, of which the last is the last one there was.
StatusesLeft(q, s) ==
  /\ s \in Seq(Modes)
  /\ s = <<>> => NoneAfter(q, 0)
  /\ s # <<>> => \E i \in 1..Len(q) : /\ q[i] # Subscribe /\ NoneAfter(q, i)
                                      /\ s[Len(s)] = q[i]

LEMMA StatusesProperties ==
  ASSUME NEW q \in Seq(Messages), AtMostOne(q)
  PROVE  StatusesLeft(q, Statuses(q))
<1>1. /\ Len(q) \in Nat
      /\ \A i \in 1..Len(q) : q[i] \in Messages
  BY Indices
<1>2. Subscribe \notin Modes
  BY DashboardAssumption
<1>3. CASE \A i \in 1..Len(q) : q[i] # Subscribe
  <2>1. Statuses(q) = q
    BY <1>3 DEF Statuses, RemoveFirst
  <2>2. q \in Seq(Modes)
    <3>1. \A i \in 1..Len(q) : q[i] \in Modes
      BY <1>1, <1>3 DEF Messages
    <3>2. SubSeq(q, 1, Len(q)) \in Seq(Modes)
      BY <1>1, <3>1, SubSeqProperties
    <3> QED BY <3>2, SubSeqFull
  <2>3. q = <<>> => NoneAfter(q, 0)
    BY DEF NoneAfter
  <2>4. q # <<>> => Len(q) \in 1..Len(q) /\ q[Len(q)] # Subscribe /\ NoneAfter(q, Len(q))
    BY <1>1, <1>3, Emptied DEF NoneAfter
  <2> QED BY <2>1, <2>2, <2>3, <2>4 DEF StatusesLeft
<1>4. ASSUME NEW k \in 1..Len(q), q[k] = Subscribe
      PROVE  StatusesLeft(q, Statuses(q))
  <2> DEFINE before == SubSeq(q, 1, k - 1)
             after == SubSeq(q, k + 1, Len(q))
             s == before \o after
  <2>1. \A i \in 1..Len(q) : i # k => q[i] \in Modes
    BY <1>1, <1>4 DEF Messages, AtMostOne
  <2>2. /\ before \in Seq(Modes) /\ Len(before) = k - 1
        /\ \A i \in 1..(k - 1) : before[i] = q[i]
    <3>1. \A i \in 1..(k - 1) : q[i] \in Modes
      BY <1>1, <2>1
    <3>2. /\ before \in Seq(Modes)
          /\ Len(before) = IF 1 <= k - 1 THEN (k - 1) - 1 + 1 ELSE 0
          /\ \A i \in 1..((k - 1) - 1 + 1) : before[i] = q[1 + i - 1]
      BY <1>1, <3>1, SubSeqProperties
    <3> HIDE DEF before
    <3> QED BY <1>1, <3>2
  <2>3. /\ after \in Seq(Modes) /\ Len(after) = Len(q) - k
        /\ \A i \in 1..(Len(q) - k) : after[i] = q[k + i]
    <3>1. \A i \in (k + 1)..Len(q) : q[i] \in Modes
      BY <1>1, <2>1
    <3>2. /\ after \in Seq(Modes)
          /\ Len(after) = IF k + 1 <= Len(q) THEN Len(q) - (k + 1) + 1 ELSE 0
          /\ \A i \in 1..(Len(q) - (k + 1) + 1) : after[i] = q[(k + 1) + i - 1]
      BY <1>1, <3>1, SubSeqProperties
    <3> HIDE DEF after
    <3>3. \A i \in 1..(Len(q) - k) : (k + 1) + i - 1 = k + i
      BY <1>1
    <3> QED BY <1>1, <3>2, <3>3
  <2>4. Statuses(q) = s
    BY <1>4, WhereSubscribed
  <2> HIDE DEF before, after
  <2>5. /\ s \in Seq(Modes) /\ Len(s) = Len(q) - 1
        /\ \A i \in 1..(Len(q) - 1) : s[i] = IF i <= k - 1 THEN q[i] ELSE after[i - (k - 1)]
    <3>1. /\ s \in Seq(Modes) /\ Len(s) = Len(before) + Len(after)
          /\ \A i \in 1..(Len(before) + Len(after)) :
               s[i] = IF i <= Len(before) THEN before[i] ELSE after[i - Len(before)]
      BY <2>2, <2>3, ConcatProperties
    <3> HIDE DEF s
    <3>2. Len(before) + Len(after) = Len(q) - 1
      BY <1>1, <2>2, <2>3
    <3>3. \A i \in 1..(Len(q) - 1) :
            s[i] = IF i <= k - 1 THEN before[i] ELSE after[i - (k - 1)]
      BY <2>2, <3>1, <3>2
    <3>4. \A i \in 1..(Len(q) - 1) : i <= k - 1 => i \in 1..(k - 1)
      BY <1>1
    <3> QED BY <2>2, <3>1, <3>2, <3>3, <3>4
  <2> HIDE DEF s
  <2>6. s = <<>> => NoneAfter(q, 0)
    <3>1. SUFFICES ASSUME s = <<>> PROVE NoneAfter(q, 0)
      OBVIOUS
    <3>2. Len(s) = 0 /\ Len(s) = Len(q) - 1
      BY <2>5, <3>1, Emptied
    <3>3. Len(q) = 1
      BY <1>1, <3>2
    <3>4. \A j \in 1..Len(q) : j = k
      BY <3>3
    <3> QED BY <1>4, <3>4 DEF NoneAfter
  <2>7. ASSUME s # <<>>
        PROVE  \E i \in 1..Len(q) : /\ q[i] # Subscribe /\ NoneAfter(q, i)
                                    /\ s[Len(s)] = q[i]
    <3>1. Len(s) # 0 /\ Len(q) - 1 \in 1..(Len(q) - 1)
      BY <1>1, <2>5, <2>7, Emptied
    <3>2. CASE k = Len(q)
      <4>1. s[Len(s)] = q[Len(q) - 1]
        BY <1>1, <2>5, <3>1, <3>2
      <4>2. q[Len(q) - 1] # Subscribe
        BY <1>1, <1>2, <2>1, <3>1, <3>2
      <4>3. NoneAfter(q, Len(q) - 1)
        BY <1>1, <1>4, <3>2 DEF NoneAfter
      <4> QED BY <1>1, <3>1, <4>1, <4>2, <4>3
    <3>3. CASE k # Len(q)
      <4>1. s[Len(s)] = after[Len(q) - k]
        <5>1. ~(Len(q) - 1 <= k - 1) /\ (Len(q) - 1) - (k - 1) = Len(q) - k
          BY <1>1, <3>3
        <5> QED BY <2>5, <3>1, <5>1
      <4>2. after[Len(q) - k] = q[Len(q)]
        <5>1. Len(q) - k \in 1..(Len(q) - k) /\ k + (Len(q) - k) = Len(q)
          BY <1>1, <3>3
        <5> QED BY <2>3, <5>1
      <4>3. Len(q) \in 1..Len(q) /\ q[Len(q)] # Subscribe /\ NoneAfter(q, Len(q))
        BY <1>1, <1>2, <2>1, <3>3 DEF NoneAfter
      <4> QED BY <4>1, <4>2, <4>3
    <3> QED BY <3>2, <3>3
  <2> QED BY <2>4, <2>5, <2>6, <2>7 DEF StatusesLeft
<1> QED BY <1>3, <1>4

-----------------------------------------------------------------------------
\* The processes.

ProcessStep ==
  \/ \E c \in Cores : Answer(c) \/ Serve(c) \/ CoreDies(c) \/ StrayDies(c) \/ Spawn(c)
  \/ Connected \/ MainReturns \/ MainFails \/ BackoffOver \/ BrainEnds
  \/ OperatorStops \/ OperatorStarts \/ BrokerStarts

LEMMA ProcessStepTyped ==
  ASSUME SupervisorTypeOK, Attempts, ProcessStep
  PROVE  SupervisorTypeOK' /\ Attempts'
<1> USE DEF SupervisorTypeOK, Attempts, BrainStates, CoreStates
<1>1. MaxRestarts \in Nat /\ 0 < MaxRestarts
  BY SupervisorAssumption
<1>2. ASSUME NEW c \in Cores, Answer(c) \/ Serve(c) \/ CoreDies(c) \/ StrayDies(c)
      PROVE  SupervisorTypeOK' /\ Attempts'
  BY <1>2 DEF Answer, Serve, CoreDies, StrayDies
<1>3. ASSUME NEW c \in Cores, Spawn(c) PROVE SupervisorTypeOK' /\ Attempts'
  BY <1>3 DEF Spawn
<1>4. CASE Connected \/ MainReturns \/ BrainEnds
  BY <1>4 DEF Connected, MainReturns, BrainEnds
<1>5. CASE MainFails
  BY <1>1, <1>5 DEF MainFails
<1>6. CASE BackoffOver
  BY <1>1, <1>6 DEF BackoffOver
<1>7. CASE OperatorStops
  BY <1>7 DEF OperatorStops
<1>8. CASE OperatorStarts
  BY <1>1, <1>8 DEF OperatorStarts
<1>9. CASE BrokerStarts
  BY <1>9 DEF BrokerStarts
<1> QED
  BY <1>2, <1>3, <1>4, <1>5, <1>6, <1>7, <1>8, <1>9 DEF ProcessStep

LEMMA ProcessCases ==
  ASSUME Process
  PROVE  /\ ProcessStep
         /\ (Serves /\ ~Serves' /\ Ended) \/ (~(Serves /\ ~Serves') /\ CoreUnchanged)
<1> USE DEF Do, Serves, ProcessStep
<1>1. ASSUME NEW c \in Cores,
             Do(Answer(c)) \/ Do(Serve(c)) \/ Do(CoreDies(c)) \/ Do(StrayDies(c)) \/ Do(Spawn(c))
      PROVE  /\ ProcessStep
             /\ (Serves /\ ~Serves' /\ Ended) \/ (~(Serves /\ ~Serves') /\ CoreUnchanged)
  BY <1>1
<1>2. ASSUME \/ Do(Connected) \/ Do(MainReturns) \/ Do(MainFails) \/ Do(BackoffOver)
             \/ Do(BrainEnds) \/ Do(OperatorStops) \/ Do(OperatorStarts) \/ Do(BrokerStarts)
      PROVE  /\ ProcessStep
             /\ (Serves /\ ~Serves' /\ Ended) \/ (~(Serves /\ ~Serves') /\ CoreUnchanged)
  BY <1>2
<1> QED BY <1>1, <1>2 DEF Process

\* The rest of the invariant is about a Core and its pages.
CoreTypeOK ==
  /\ mode \in Modes /\ announced \in BOOLEAN
  /\ link \in BOOLEAN /\ subscribed \in BOOLEAN
  /\ outgoing \in Seq(Messages) /\ processed \in 0..Len(outgoing)
  /\ loop \in Seq(Modes) /\ latest \in Modes /\ echoed \in BOOLEAN
  /\ owner \in [Conns -> Pages \cup {None}] /\ sseClients \subseteq Conns
  /\ stream \in [Pages -> Conns \cup {None}]
  /\ shown \in [Pages -> Modes] /\ missed \subseteq Pages

LastIInv ==
  /\ SubscribesOnce /\ LoopIsLast /\ ShownIsLast /\ LastIsMode /\ TakenIsMode

LEMMA Parts ==
  IInv <=> SupervisorTypeOK /\ Attempts /\ SilentUntilServing /\ CoreTypeOK /\ LastIInv
BY Zenon DEF IInv, TypeOK, CoreTypeOK, LastIInv, Messages

LEMMA SupervisorUnchanged ==
  ASSUME SupervisorTypeOK, Attempts, UNCHANGED supervisorVars
  PROVE  SupervisorTypeOK' /\ Attempts' /\ (Serves' <=> Serves)
BY DEF SupervisorTypeOK, Attempts, supervisorVars, Serves, Serving

LEMMA CoreTypeUnchanged ==
  ASSUME CoreTypeOK, UNCHANGED <<mode, announced, mqttVars, pageVars, missed>>
  PROVE  CoreTypeOK'
BY DEF CoreTypeOK, mqttVars, pageVars

LEMMA LastUnchanged ==
  ASSUME LastIInv, UNCHANGED <<mode, announced, mqttVars, shown>>, missed \subseteq missed'
  PROVE  LastIInv'
BY DEF LastIInv, SubscribesOnce, LoopIsLast, ShownIsLast, LastIsMode, TakenIsMode,
       AtMostOne, NoneAfter, mqttVars

LEMMA ProcessPreserves ==
  ASSUME IInv, Process
  PROVE  IInv'
<1>1. SupervisorTypeOK /\ Attempts /\ SilentUntilServing /\ CoreTypeOK /\ LastIInv
  BY Parts
<1>2. SupervisorTypeOK' /\ Attempts'
  BY <1>1, ProcessCases, ProcessStepTyped
<1>3. CASE Serves /\ ~Serves' /\ Ended
  <2>1. SilentUntilServing'
    BY <1>3 DEF SilentUntilServing, Ended
  <2>2. CoreTypeOK'
    <3>1. <<>> \in Seq(Messages) /\ <<>> \in Seq(Modes) /\ Len(<<>>) = 0
      BY EmptySeq
    <3>2. mode' \in Modes /\ announced' \in BOOLEAN /\ link' \in BOOLEAN /\ subscribed' \in BOOLEAN
      BY <1>3, DashboardAssumption DEF Ended
    <3>3. outgoing' \in Seq(Messages) /\ processed' \in 0..Len(outgoing') /\ loop' \in Seq(Modes)
      BY <1>3, <3>1 DEF Ended
    <3>4. /\ owner' \in [Conns -> Pages \cup {None}] /\ sseClients' \subseteq Conns
          /\ stream' \in [Pages -> Conns \cup {None}] /\ missed' \subseteq Pages
      BY <1>3 DEF Ended
    <3>5. latest' \in Modes /\ echoed' \in BOOLEAN /\ shown' \in [Pages -> Modes]
      BY <1>1, <1>3 DEF Ended, CoreTypeOK
    <3> QED BY <3>2, <3>3, <3>4, <3>5, Zenon DEF CoreTypeOK
  <2>3. LastIInv'
    <3>1. /\ announced' = FALSE /\ outgoing' = <<>> /\ processed' = 0 /\ loop' = <<>>
          /\ missed' = Pages
      BY <1>3 DEF Ended
    <3>2. Len(outgoing') = 0
      BY <3>1, EmptySeq
    <3>3. SubscribesOnce'
      BY <3>1, <3>2 DEF SubscribesOnce, AtMostOne
    <3> QED
      BY <3>1, <3>3 DEF LastIInv, LoopIsLast, ShownIsLast, LastIsMode, TakenIsMode
  <2> QED BY <1>2, <2>1, <2>2, <2>3, Parts, PTL
<1>4. CASE ~(Serves /\ ~Serves') /\ CoreUnchanged
  <2>1. SilentUntilServing'
    BY <1>1, <1>4 DEF SilentUntilServing, CoreUnchanged
  <2>2. CoreTypeOK'
    BY <1>1, <1>4, CoreTypeUnchanged DEF CoreUnchanged
  <2>3. LastIInv'
    BY <1>1, <1>4, LastUnchanged DEF CoreUnchanged, pageVars
  <2> QED BY <1>2, <2>1, <2>2, <2>3, Parts, PTL
<1> QED BY <1>3, <1>4, ProcessCases

-----------------------------------------------------------------------------
\* MQTT.

\* Each of the actions that follow leaves the processes alone.
LEMMA CorePart ==
  ASSUME IInv, UNCHANGED supervisorVars,
         announced' = announced \/ Serves, CoreTypeOK', LastIInv'
  PROVE  IInv'
<1>1. SupervisorTypeOK /\ Attempts /\ SilentUntilServing
  BY Parts
<1>2. SupervisorTypeOK' /\ Attempts' /\ (Serves' <=> Serves)
  BY <1>1, SupervisorUnchanged
<1>3. SilentUntilServing'
  BY <1>1, <1>2 DEF SilentUntilServing
<1> QED BY <1>2, <1>3, Parts, PTL

LEMMA AnnouncePreserves ==
  ASSUME IInv, NEW m \in Modes, Announce(m)
  PROVE  IInv'
<1>1. CoreTypeOK /\ LastIInv /\ SilentUntilServing
  BY Parts
<1>2. /\ Serves /\ mode' = m /\ announced' = TRUE /\ outgoing' = Append(outgoing, m)
      /\ UNCHANGED <<supervisorVars, link, subscribed, processed, loop, latest, echoed, pageVars, missed>>
  BY DEF Announce
<1>3. m \in Messages /\ m # Subscribe
  BY DashboardAssumption DEF Messages
<1>4. /\ outgoing \in Seq(Messages) /\ Len(outgoing) \in Nat /\ processed \in 0..Len(outgoing)
  BY <1>1, Indices DEF CoreTypeOK
<1>5. /\ outgoing' \in Seq(Messages) /\ Len(outgoing') = Len(outgoing) + 1
      /\ \A i \in 1..Len(outgoing) : outgoing'[i] = outgoing[i]
      /\ outgoing'[Len(outgoing) + 1] = m
  BY <1>2, <1>3, <1>4, Appended
<1>6. CoreTypeOK'
  <2>1. mode' \in Modes /\ announced' \in BOOLEAN /\ processed' \in 0..Len(outgoing')
    BY <1>2, <1>4, <1>5
  <2> QED BY <1>1, <1>2, <1>5, <2>1 DEF CoreTypeOK, pageVars
<1>7. \A i \in 1..Len(outgoing') : i \in 1..Len(outgoing) \/ i = Len(outgoing) + 1
  BY <1>4, <1>5
<1>8. SubscribesOnce'
  BY <1>1, <1>2, <1>3, <1>5, <1>7 DEF LastIInv, SubscribesOnce, AtMostOne
<1>9. LoopIsLast' /\ ShownIsLast'
  BY <1>1, <1>2 DEF LastIInv, LoopIsLast, ShownIsLast, pageVars
<1>10. Len(outgoing) + 1 \in 1..Len(outgoing')
  BY <1>4, <1>5
<1>11. LastIsMode'
  <2>1. ASSUME NEW i \in 1..Len(outgoing'), NoneAfter(outgoing', i)
        PROVE  outgoing'[i] = m
    <3>1. ~(Len(outgoing) + 1 > i)
      BY <1>3, <1>5, <1>10, <2>1 DEF NoneAfter
    <3> QED BY <1>4, <1>5, <1>7, <3>1
  <2> QED BY <1>2, <2>1 DEF LastIsMode
<1>12. TakenIsMode'
  <2>1. ~NoneAfter(outgoing', processed')
    BY <1>2, <1>3, <1>4, <1>5, <1>10 DEF NoneAfter
  <2> QED BY <2>1 DEF TakenIsMode
<1> QED BY <1>2, <1>6, <1>8, <1>9, <1>11, <1>12, CorePart DEF LastIInv

LEMMA ConnectPreserves ==
  ASSUME IInv, Connect
  PROVE  IInv'
<1>1. CoreTypeOK /\ LastIInv
  BY Parts
<1>2. /\ ~link /\ link' = TRUE /\ outgoing' = Append(outgoing, Subscribe) /\ processed' = 0
      /\ UNCHANGED <<supervisorVars, mode, announced, subscribed, loop, latest, echoed, pageVars, missed>>
  BY DEF Connect
<1>3. outgoing \in Seq(Messages) /\ Len(outgoing) \in Nat
  BY <1>1, Indices DEF CoreTypeOK
<1>4. /\ outgoing' \in Seq(Messages) /\ Len(outgoing') = Len(outgoing) + 1
      /\ \A i \in 1..Len(outgoing) : outgoing'[i] = outgoing[i]
      /\ outgoing'[Len(outgoing) + 1] = Subscribe
  BY <1>2, <1>3, Appended DEF Messages
<1>5. CoreTypeOK'
  <2>1. processed' \in 0..Len(outgoing')
    BY <1>2, <1>3, <1>4
  <2> QED BY <1>1, <1>2, <1>4, <2>1 DEF CoreTypeOK, pageVars
<1>6. \A i \in 1..Len(outgoing') : i \in 1..Len(outgoing) \/ i = Len(outgoing) + 1
  BY <1>3, <1>4
<1>7. processed = 0 /\ \A i \in 1..Len(outgoing) : outgoing[i] # Subscribe
  BY <1>1, <1>2 DEF LastIInv, SubscribesOnce
<1>8. SubscribesOnce'
  BY <1>2, <1>4, <1>6, <1>7 DEF SubscribesOnce, AtMostOne
<1>9. LoopIsLast' /\ ShownIsLast'
  BY <1>1, <1>2 DEF LastIInv, LoopIsLast, ShownIsLast, pageVars
<1>10. \A j \in 1..Len(outgoing) : j \in 1..Len(outgoing')
  BY <1>3, <1>4
<1>11. \A i : NoneAfter(outgoing', i) => NoneAfter(outgoing, i)
  BY <1>4, <1>10 DEF NoneAfter
<1>12. LastIsMode'
  BY <1>1, <1>2, <1>4, <1>6, <1>11 DEF LastIInv, LastIsMode
<1>13. TakenIsMode'
  BY <1>1, <1>2, <1>7, <1>11 DEF LastIInv, TakenIsMode
<1> QED BY <1>2, <1>5, <1>8, <1>9, <1>12, <1>13, CorePart DEF LastIInv

LEMMA BrokerTakesPreserves ==
  ASSUME IInv, BrokerTakes
  PROVE  IInv'
<1>1. CoreTypeOK /\ LastIInv
  BY Parts
<1> DEFINE m == outgoing[processed + 1]
<1>2. /\ link /\ processed < Len(outgoing) /\ processed' = processed + 1
      /\ \/ m = Subscribe /\ subscribed' = TRUE /\ UNCHANGED <<loop, latest, echoed, missed>>
         \/ /\ m # Subscribe /\ subscribed /\ loop' = Append(loop, m)
            /\ latest' = m /\ echoed' = FALSE
            /\ UNCHANGED <<subscribed, missed>>
         \/ /\ m # Subscribe /\ ~subscribed /\ missed' = Pages
            /\ latest' = m /\ echoed' = FALSE
            /\ UNCHANGED <<subscribed, loop>>
      /\ UNCHANGED <<supervisorVars, mode, announced, link, outgoing, pageVars>>
  BY DEF BrokerTakes
<1>3. /\ outgoing \in Seq(Messages) /\ Len(outgoing) \in Nat /\ processed \in 0..Len(outgoing)
      /\ \A i \in 1..Len(outgoing) : outgoing[i] \in Messages
      /\ loop \in Seq(Modes)
  BY <1>1, Indices DEF CoreTypeOK
<1>4. processed + 1 \in 1..Len(outgoing)
  BY <1>2, <1>3
<1>5. m \in Messages /\ (m # Subscribe => m \in Modes)
  BY <1>3, <1>4 DEF Messages
<1>6. NoneAfter(outgoing, processed) \/ m # Subscribe \/ ~NoneAfter(outgoing, processed + 1)
  <2>1. \A j \in 1..Len(outgoing) : j > processed => j = processed + 1 \/ j > processed + 1
    BY <1>3
  <2> QED BY <2>1 DEF NoneAfter
<1> HIDE DEF m
<1>7. m # Subscribe => /\ Append(loop, m) \in Seq(Modes) /\ Append(loop, m) # <<>>
                       /\ Append(loop, m)[Len(Append(loop, m))] = m
  BY <1>3, <1>5, Appended
<1>8. CoreTypeOK'
  <2>1. processed' \in 0..Len(outgoing')
    BY <1>2, <1>3
  <2>2. /\ subscribed' \in BOOLEAN /\ loop' \in Seq(Modes) /\ latest' \in Modes
        /\ missed' \subseteq Pages /\ echoed' \in BOOLEAN
    BY <1>1, <1>2, <1>5, <1>7 DEF CoreTypeOK
  <2> QED BY <1>1, <1>2, <2>1, <2>2 DEF CoreTypeOK, pageVars
<1>9. SubscribesOnce'
  BY <1>1, <1>2 DEF LastIInv, SubscribesOnce, AtMostOne
<1>10. LoopIsLast'
  BY <1>1, <1>2, <1>7 DEF LastIInv, LoopIsLast
<1>11. ShownIsLast'
  BY <1>1, <1>2, <1>7 DEF LastIInv, ShownIsLast, pageVars
<1>12. LastIsMode'
  BY <1>1, <1>2 DEF LastIInv, LastIsMode, NoneAfter
<1>13. TakenIsMode'
  <2>1. SUFFICES ASSUME announced, NoneAfter(outgoing, processed + 1) PROVE latest' = mode
    BY <1>2 DEF TakenIsMode, NoneAfter
  <2>2. CASE m = Subscribe
    BY <1>1, <1>2, <1>6, <2>1, <2>2 DEF LastIInv, TakenIsMode
  <2>3. CASE m # Subscribe
    <3>1. m = mode
      BY <1>1, <1>4, <2>1, <2>3 DEF LastIInv, LastIsMode, m
    <3> QED BY <1>2, <2>3, <3>1
  <2> QED BY <2>2, <2>3
<1> QED BY <1>2, <1>8, <1>9, <1>10, <1>11, <1>12, <1>13, CorePart DEF LastIInv

LEMMA EchoPreserves ==
  ASSUME IInv, NEW m \in Modes, Echo(m)
  PROVE  IInv'
<1>1. CoreTypeOK /\ LastIInv
  BY Parts
<1>2. /\ subscribed /\ loop' = Append(loop, m) /\ echoed' = TRUE
      /\ UNCHANGED <<supervisorVars, mode, announced, link, subscribed, outgoing, processed,
                     latest, pageVars, missed>>
  BY DEF Echo
<1>3. loop' \in Seq(Modes) /\ loop' # <<>>
  BY <1>1, <1>2, Appended DEF CoreTypeOK
<1>4. CoreTypeOK'
  BY <1>1, <1>2, <1>3 DEF CoreTypeOK, pageVars
<1>5. LoopIsLast' /\ ShownIsLast'
  BY <1>2, <1>3 DEF LoopIsLast, ShownIsLast
<1>6. SubscribesOnce' /\ LastIsMode' /\ TakenIsMode'
  BY <1>1, <1>2 DEF LastIInv, SubscribesOnce, AtMostOne, LastIsMode, TakenIsMode, NoneAfter
<1> QED BY <1>2, <1>4, <1>5, <1>6, CorePart DEF LastIInv

LEMMA AcknowledgePreserves ==
  ASSUME IInv, Acknowledge
  PROVE  IInv'
<1>1. CoreTypeOK /\ LastIInv
  BY Parts
<1>2. /\ link /\ processed > 0 /\ outgoing' = Tail(outgoing) /\ processed' = processed - 1
      /\ UNCHANGED <<supervisorVars, mode, announced, link, subscribed, loop, latest,
                     echoed, pageVars, missed>>
  BY DEF Acknowledge
<1>3. outgoing \in Seq(Messages) /\ Len(outgoing) \in Nat /\ processed \in 0..Len(outgoing)
  BY <1>1, Indices DEF CoreTypeOK
<1>4. outgoing # <<>>
  BY <1>2, <1>3, Emptied
<1>5. /\ outgoing' \in Seq(Messages) /\ Len(outgoing') = Len(outgoing) - 1
      /\ \A i \in 1..Len(outgoing') : outgoing'[i] = outgoing[i + 1]
  BY <1>2, <1>3, <1>4, HeadTailProperties
<1>6. CoreTypeOK'
  <2>1. processed' \in 0..Len(outgoing')
    BY <1>2, <1>3, <1>5
  <2> QED BY <1>1, <1>2, <1>5, <2>1 DEF CoreTypeOK, pageVars
<1>7. \A i \in 1..Len(outgoing') : i + 1 \in 1..Len(outgoing)
  BY <1>3, <1>5
<1>8. SubscribesOnce'
  <2>1. ASSUME NEW i \in 1..Len(outgoing'), NEW j \in 1..Len(outgoing'),
               outgoing'[i] = Subscribe, outgoing'[j] = Subscribe
        PROVE  i = j
    <3>1. i + 1 = j + 1
      BY <1>1, <1>5, <1>7, <2>1 DEF LastIInv, SubscribesOnce, AtMostOne
    <3> QED BY <3>1
  <2> QED BY <1>2, <2>1 DEF SubscribesOnce, AtMostOne
<1>9. LoopIsLast' /\ ShownIsLast'
  BY <1>1, <1>2 DEF LastIInv, LoopIsLast, ShownIsLast, pageVars
<1>10. ASSUME NEW i \in Nat, NoneAfter(outgoing', i)
       PROVE  NoneAfter(outgoing, i + 1)
  <2>1. ASSUME NEW j \in 1..Len(outgoing), j > i + 1 PROVE outgoing[j] = Subscribe
    <3>1. j - 1 \in 1..Len(outgoing') /\ j - 1 > i /\ (j - 1) + 1 = j
      BY <1>3, <1>5, <2>1
    <3> QED BY <1>5, <1>10, <3>1 DEF NoneAfter
  <2> QED BY <2>1 DEF NoneAfter
<1>11. LastIsMode'
  BY <1>1, <1>2, <1>5, <1>7, <1>10 DEF LastIInv, LastIsMode
<1>12. TakenIsMode'
  <2>1. processed' \in Nat /\ processed' + 1 = processed
    BY <1>2, <1>3
  <2> QED BY <1>1, <1>2, <1>10, <2>1 DEF LastIInv, TakenIsMode
<1> QED BY <1>2, <1>6, <1>8, <1>9, <1>11, <1>12, CorePart DEF LastIInv

LEMMA LoseBrokerPreserves ==
  ASSUME IInv, LoseBroker
  PROVE  IInv'
<1>1. SupervisorTypeOK /\ Attempts /\ SilentUntilServing /\ CoreTypeOK /\ LastIInv
  BY Parts
<1>2. /\ link' = FALSE /\ subscribed' = FALSE /\ processed' = 0
      /\ outgoing' = Statuses(outgoing) /\ loop' = <<>>
      /\ missed' = IF loop = <<>> THEN missed ELSE Pages
      /\ UNCHANGED <<keys, brain, restartCount, core, own, mode, announced, latest, echoed, pageVars>>
      /\ broker' = FALSE
  BY DEF LoseBroker, BrokerStops, Unacknowledged
<1>3. outgoing \in Seq(Messages) /\ Len(outgoing) \in Nat /\ processed \in 0..Len(outgoing)
  BY <1>1, Indices DEF CoreTypeOK
<1>4. StatusesLeft(outgoing, outgoing')
  BY <1>1, <1>2, <1>3, StatusesProperties DEF LastIInv, SubscribesOnce
<1>5. /\ outgoing' \in Seq(Modes) /\ Len(outgoing') \in Nat
      /\ \A i \in 1..Len(outgoing') : outgoing'[i] \in Modes
  BY <1>4, Indices DEF StatusesLeft
<1>6. \A i \in 1..Len(outgoing') : outgoing'[i] # Subscribe
  BY <1>5, DashboardAssumption
<1>7. CoreTypeOK'
  <2>1. outgoing' \in Seq(Messages)
    BY <1>5, SeqMonotonic DEF Messages
  <2>2. processed' \in 0..Len(outgoing') /\ loop' \in Seq(Modes)
    BY <1>2, <1>5, EmptySeq
  <2>3. missed' \subseteq Pages /\ link' \in BOOLEAN /\ subscribed' \in BOOLEAN
    BY <1>1, <1>2 DEF CoreTypeOK
  <2> QED BY <1>1, <1>2, <2>1, <2>2, <2>3 DEF CoreTypeOK, pageVars
<1>8. SubscribesOnce'
  BY <1>2, <1>6 DEF SubscribesOnce, AtMostOne
<1>9. LoopIsLast' /\ ShownIsLast'
  BY <1>1, <1>2 DEF LastIInv, LoopIsLast, ShownIsLast, pageVars
<1>10. LastIsMode'
  <2>1. SUFFICES ASSUME announced, NEW i \in 1..Len(outgoing'), NoneAfter(outgoing', i)
                 PROVE  outgoing'[i] = mode
    BY <1>2 DEF LastIsMode
  <2>2. outgoing' # <<>> /\ Len(outgoing') \in 1..Len(outgoing')
    BY <1>5, Emptied
  <2>3. i = Len(outgoing')
    <3>1. ~(Len(outgoing') > i)
      BY <1>6, <2>1, <2>2 DEF NoneAfter
    <3> QED BY <1>5, <3>1
  <2>4. PICK k \in 1..Len(outgoing) : /\ outgoing[k] # Subscribe /\ NoneAfter(outgoing, k)
                                      /\ outgoing'[Len(outgoing')] = outgoing[k]
    BY <1>4, <2>2 DEF StatusesLeft
  <2>5. outgoing[k] = mode
    BY <1>1, <2>1, <2>4 DEF LastIInv, LastIsMode
  <2> QED BY <2>3, <2>4, <2>5
<1>11. TakenIsMode'
  <2>1. SUFFICES ASSUME announced, NoneAfter(outgoing', 0) PROVE latest = mode
    BY <1>2 DEF TakenIsMode
  <2>2. outgoing' = <<>>
    <3>1. Len(outgoing') \notin 1..Len(outgoing')
      BY <1>6, <2>1 DEF NoneAfter
    <3> QED BY <1>5, <3>1, Emptied
  <2>3. NoneAfter(outgoing, processed)
    <3>1. NoneAfter(outgoing, 0)
      BY <1>4, <2>2 DEF StatusesLeft
    <3>2. \A j \in 1..Len(outgoing) : j > 0
      OBVIOUS
    <3> QED BY <3>1, <3>2 DEF NoneAfter
  <2> QED BY <1>1, <2>1, <2>3 DEF LastIInv, TakenIsMode
<1>12. SupervisorTypeOK' /\ Attempts' /\ SilentUntilServing'
  BY <1>1, <1>2 DEF SupervisorTypeOK, Attempts, SilentUntilServing, Serves, Serving
<1>13. LastIInv'
  BY <1>8, <1>9, <1>10, <1>11 DEF LastIInv
<1> QED BY <1>7, <1>12, <1>13, Parts, PTL

-----------------------------------------------------------------------------
\* Server-sent events.

LEMMA ModeStatusPreserves ==
  ASSUME IInv, ModeStatus
  PROVE  IInv'
<1>1. CoreTypeOK /\ LastIInv
  BY Parts
<1>2. /\ loop # <<>> /\ loop' = Tail(loop) /\ Broadcast(Head(loop))
      /\ UNCHANGED <<supervisorVars, mode, announced, link, subscribed, outgoing, processed,
                     latest, echoed, owner, sseClients, stream>>
  BY DEF ModeStatus
<1>3. loop \in Seq(Modes) /\ Len(loop) \in Nat /\ Len(loop) # 0
  BY <1>1, <1>2, Indices, Emptied DEF CoreTypeOK
<1>4. /\ Head(loop) \in Modes /\ loop' \in Seq(Modes) /\ Len(loop') = Len(loop) - 1
      /\ \A i \in 1..Len(loop') : loop'[i] = loop[i + 1]
  BY <1>2, <1>3, HeadTailProperties
<1>5. CoreTypeOK'
  <2>1. shown' \in [Pages -> Modes] /\ missed' \subseteq Pages
    BY <1>1, <1>2, <1>4 DEF Broadcast, CoreTypeOK
  <2> QED BY <1>1, <1>2, <1>4, <2>1 DEF CoreTypeOK
<1>6. SubscribesOnce' /\ LastIsMode' /\ TakenIsMode'
  BY <1>1, <1>2 DEF LastIInv, SubscribesOnce, AtMostOne, LastIsMode, TakenIsMode, NoneAfter
<1>7. LoopIsLast'
  <2>1. SUFFICES ASSUME loop' # <<>> PROVE subscribed /\ (~echoed => loop'[Len(loop')] = latest)
    BY <1>2 DEF LoopIsLast
  <2>2. Len(loop') \in 1..Len(loop') /\ Len(loop') + 1 = Len(loop)
    BY <1>3, <1>4, <2>1, Emptied
  <2>3. loop'[Len(loop')] = loop[Len(loop)]
    BY <1>4, <2>2
  <2> QED BY <1>1, <1>2, <2>3 DEF LastIInv, LoopIsLast
<1>8. ShownIsLast'
  <2>1. SUFFICES ASSUME NEW p \in Pages, p \notin missed', loop' = <<>>, ~echoed
                 PROVE  shown'[p] = latest
    BY <1>2 DEF ShownIsLast
  <2>2. Len(loop) = 1
    BY <1>3, <1>4, <2>1, Emptied
  <2>3. Head(loop) = loop[Len(loop)]
    BY <2>2
  <2>4. shown'[p] = Head(loop)
    BY <1>2, <2>1 DEF Broadcast
  <2> QED BY <1>1, <1>2, <2>1, <2>3, <2>4 DEF LastIInv, LoopIsLast
<1> QED BY <1>2, <1>5, <1>6, <1>7, <1>8, CorePart DEF LastIInv

StreamStep ==
  \/ \E p \in Pages, c \in Conns : OpenEvents(p, c)
  \/ \E p \in Pages : StreamBreaks(p)
  \/ \E c \in Conns : RequestClosed(c)

LEMMA StreamPreserves ==
  ASSUME IInv, StreamStep
  PROVE  IInv'
<1>1. CoreTypeOK /\ LastIInv
  BY Parts
<1>2. UNCHANGED <<supervisorVars, mode, announced, mqttVars, shown, missed>>
  BY DEF StreamStep, OpenEvents, StreamBreaks, RequestClosed
<1>3. /\ owner' \in [Conns -> Pages \cup {None}] /\ sseClients' \subseteq Conns
      /\ stream' \in [Pages -> Conns \cup {None}]
  BY <1>1 DEF CoreTypeOK, StreamStep, OpenEvents, StreamBreaks, RequestClosed
<1>4. CoreTypeOK'
  BY <1>1, <1>2, <1>3 DEF CoreTypeOK, mqttVars
<1>5. LastIInv'
  BY <1>1, <1>2, LastUnchanged
<1> QED BY <1>2, <1>4, <1>5, CorePart

LEMMA ReloadPreserves ==
  ASSUME IInv, NEW p \in Pages, Reload(p)
  PROVE  IInv'
<1>1. CoreTypeOK /\ LastIInv
  BY Parts
<1>2. /\ UNCHANGED <<supervisorVars, mode, announced, mqttVars, owner, sseClients>>
      /\ shown' = [shown EXCEPT ![p] = Asleep] /\ missed' = missed \cup {p}
      /\ stream' = [stream EXCEPT ![p] = None]
  BY DEF Reload
<1>3. CoreTypeOK'
  <2>1. /\ stream' \in [Pages -> Conns \cup {None}] /\ shown' \in [Pages -> Modes]
        /\ missed' \subseteq Pages
    BY <1>1, <1>2, DashboardAssumption DEF CoreTypeOK
  <2> QED BY <1>1, <1>2, <2>1 DEF CoreTypeOK, mqttVars
<1>4. LastIInv'
  <2>1. ShownIsLast'
    <3>1. ASSUME NEW o \in Pages, o \notin missed', loop' = <<>>, ~echoed' PROVE shown'[o] = latest'
      <4>1. o # p /\ o \notin missed /\ loop = <<>> /\ ~echoed
        BY <1>2, <3>1 DEF mqttVars
      <4>2. shown'[o] = shown[o]
        BY <1>1, <1>2, <4>1 DEF CoreTypeOK
      <4> QED BY <1>1, <1>2, <4>1, <4>2 DEF LastIInv, ShownIsLast, mqttVars
    <3> QED BY <3>1 DEF ShownIsLast
  <2> QED
    BY <1>1, <1>2, <2>1 DEF LastIInv, SubscribesOnce, AtMostOne, LoopIsLast, LastIsMode,
                            TakenIsMode, NoneAfter, mqttVars
<1> QED BY <1>2, <1>3, <1>4, CorePart

-----------------------------------------------------------------------------
\* The invariant.

LEMMA Initially == Init => IInv
<1> SUFFICES ASSUME Init PROVE IInv
  OBVIOUS
<1>1. SupervisorTypeOK /\ Attempts
  BY SupervisorAssumption
     DEF Init, SupervisorInit, SupervisorTypeOK, Attempts, BrainStates, CoreStates
<1>2. SilentUntilServing
  BY DEF Init, SilentUntilServing
<1>3. CoreTypeOK
  <2>1. <<>> \in Seq(Messages) /\ <<>> \in Seq(Modes) /\ Len(<<>>) = 0
    BY EmptySeq
  <2>2. /\ mode \in Modes /\ announced \in BOOLEAN /\ link \in BOOLEAN /\ subscribed \in BOOLEAN
        /\ latest \in Modes /\ echoed \in BOOLEAN /\ shown \in [Pages -> Modes]
    BY DashboardAssumption DEF Init
  <2>3. outgoing \in Seq(Messages) /\ processed \in 0..Len(outgoing) /\ loop \in Seq(Modes)
    BY <2>1 DEF Init
  <2>4. /\ owner \in [Conns -> Pages \cup {None}] /\ sseClients \subseteq Conns
        /\ stream \in [Pages -> Conns \cup {None}] /\ missed \subseteq Pages
    BY DEF Init
  <2> QED BY <2>2, <2>3, <2>4, Zenon DEF CoreTypeOK
<1>4. LastIInv
  <2>1. outgoing = <<>> /\ Len(outgoing) = 0
    BY EmptySeq DEF Init
  <2>2. SubscribesOnce
    BY <2>1 DEF Init, SubscribesOnce, AtMostOne
  <2> QED BY <2>2 DEF Init, LastIInv, LoopIsLast, ShownIsLast, LastIsMode, TakenIsMode
<1> QED BY <1>1, <1>2, <1>3, <1>4, Parts

LEMMA Inductive == IInv /\ [Next]_vars => IInv'
<1> SUFFICES ASSUME IInv, [Next]_vars PROVE IInv'
  OBVIOUS
<1>1. CASE Process
  BY <1>1, ProcessPreserves
<1>2. CASE \E m \in Modes : Announce(m) \/ Echo(m)
  BY <1>2, AnnouncePreserves, EchoPreserves
<1>3. CASE Connect
  BY <1>3, ConnectPreserves
<1>4. CASE BrokerTakes
  BY <1>4, BrokerTakesPreserves
<1>5. CASE Acknowledge
  BY <1>5, AcknowledgePreserves
<1>6. CASE LoseBroker
  BY <1>6, LoseBrokerPreserves
<1>7. CASE ModeStatus
  BY <1>7, ModeStatusPreserves
<1>8. CASE StreamStep
  BY <1>8, StreamPreserves
<1>9. CASE \E p \in Pages : Reload(p)
  BY <1>9, ReloadPreserves
<1>10. CASE UNCHANGED vars
  <2>1. UNCHANGED supervisorVars /\ UNCHANGED <<mode, announced, mqttVars, pageVars, missed>>
    BY <1>10 DEF vars
  <2>2. CoreTypeOK' /\ LastIInv'
    BY <2>1, Parts, CoreTypeUnchanged, LastUnchanged DEF pageVars
  <2> QED BY <2>1, <2>2, CorePart
<1> QED
  BY <1>1, <1>2, <1>3, <1>4, <1>5, <1>6, <1>7, <1>8, <1>9, <1>10 DEF Next, StreamStep

\* The processes, messages, streams and pages have their types, and main is
\* never tried more than MAX_RESTARTS times in a row.
THEOREM DashboardTypeCorrect == Spec => []TypeOK
<1>1. IInv => TypeOK
  BY DEF IInv
<1> QED BY <1>1, Initially, Inductive, PTL DEF Spec

-----------------------------------------------------------------------------
\* What is shown and heard last.

\* What the broker has still to take: the last of it is the mode, or the mode
\* has been passed on.
LEMMA ToTakeIsMode ==
  ASSUME IInv, announced
  PROVE  /\ ToTake \in Seq(Modes)
         /\ ToTake = <<>> => latest = mode
         /\ ToTake # <<>> => ToTake[Len(ToTake)] = mode
<1> DEFINE rest == SubSeq(outgoing, processed + 1, Len(outgoing))
<1>1. CoreTypeOK /\ LastIInv
  BY Parts
<1>2. /\ outgoing \in Seq(Messages) /\ Len(outgoing) \in Nat /\ processed \in 0..Len(outgoing)
      /\ \A i \in 1..Len(outgoing) : outgoing[i] \in Messages
  BY <1>1, Indices DEF CoreTypeOK
<1>3. /\ rest \in Seq(Messages) /\ Len(rest) = Len(outgoing) - processed
      /\ \A i \in 1..Len(rest) : rest[i] = outgoing[processed + i]
  <2>1. \A i \in (processed + 1)..Len(outgoing) : outgoing[i] \in Messages
    BY <1>2
  <2>2. /\ rest \in Seq(Messages)
        /\ Len(rest) = IF processed + 1 <= Len(outgoing)
                       THEN Len(outgoing) - (processed + 1) + 1 ELSE 0
        /\ \A i \in 1..(Len(outgoing) - (processed + 1) + 1) :
             rest[i] = outgoing[(processed + 1) + i - 1]
    BY <1>2, <2>1, SubSeqProperties
  <2> HIDE DEF rest
  <2>3. /\ Len(rest) = Len(outgoing) - processed
        /\ Len(outgoing) - (processed + 1) + 1 = Len(rest)
    BY <1>2, <2>2
  <2>4. \A i \in 1..Len(rest) : (processed + 1) + i - 1 = processed + i
    BY <1>2, <2>3
  <2> QED BY <2>2, <2>3, <2>4
<1>4. ToTake = Statuses(rest)
  BY DEF ToTake
<1> HIDE DEF rest
<1>5. \A i \in 1..Len(rest) : processed + i \in 1..Len(outgoing)
  BY <1>2, <1>3
<1>6. AtMostOne(rest)
  <2>1. ASSUME NEW i \in 1..Len(rest), NEW j \in 1..Len(rest),
               rest[i] = Subscribe, rest[j] = Subscribe
        PROVE  i = j
    <3>1. processed + i = processed + j
      BY <1>1, <1>3, <1>5, <2>1 DEF LastIInv, SubscribesOnce, AtMostOne
    <3> QED BY <1>2, <3>1
  <2> QED BY <2>1 DEF AtMostOne
<1>7. StatusesLeft(rest, ToTake)
  BY <1>3, <1>4, <1>6, StatusesProperties
<1>8. ASSUME NEW i \in Nat, NoneAfter(rest, i)
      PROVE  NoneAfter(outgoing, processed + i)
  <2>1. ASSUME NEW j \in 1..Len(outgoing), j > processed + i PROVE outgoing[j] = Subscribe
    <3>1. j - processed \in 1..Len(rest) /\ j - processed > i /\ processed + (j - processed) = j
      BY <1>2, <1>3, <2>1
    <3> QED BY <1>3, <1>8, <3>1 DEF NoneAfter
  <2> QED BY <2>1 DEF NoneAfter
<1>9. ASSUME ToTake = <<>> PROVE latest = mode
  <2>1. NoneAfter(outgoing, processed + 0) /\ processed + 0 = processed
    BY <1>2, <1>7, <1>8, <1>9 DEF StatusesLeft
  <2> QED BY <1>1, <2>1 DEF LastIInv, TakenIsMode
<1>10. ASSUME ToTake # <<>> PROVE ToTake[Len(ToTake)] = mode
  <2>1. PICK i \in 1..Len(rest) : /\ rest[i] # Subscribe /\ NoneAfter(rest, i)
                                  /\ ToTake[Len(ToTake)] = rest[i]
    BY <1>7, <1>10 DEF StatusesLeft
  <2>2. outgoing[processed + i] = mode
    BY <1>1, <1>3, <1>5, <1>8, <2>1 DEF LastIInv, LastIsMode
  <2> QED BY <1>3, <2>1, <2>2
<1> QED BY <1>7, <1>9, <1>10 DEF StatusesLeft

\* The last of two sequences.
LEMMA LastOfTwo ==
  ASSUME NEW s \in Seq(Modes), NEW t \in Seq(Modes), s # <<>>
  PROVE  /\ s \o t \in Seq(Modes) /\ s \o t # <<>>
         /\ Last(s \o t) = IF t = <<>> THEN s[Len(s)] ELSE t[Len(t)]
<1>1. Len(s) \in Nat /\ Len(s) # 0 /\ Len(t) \in Nat /\ (t = <<>> <=> Len(t) = 0)
  BY Indices, Emptied
<1>2. /\ s \o t \in Seq(Modes) /\ Len(s \o t) = Len(s) + Len(t)
      /\ \A i \in 1..(Len(s) + Len(t)) :
           (s \o t)[i] = IF i <= Len(s) THEN s[i] ELSE t[i - Len(s)]
  BY ConcatProperties
<1>3. Len(s) + Len(t) \in 1..(Len(s) + Len(t)) /\ Len(s) + Len(t) # 0
  BY <1>1
<1>4. (s \o t)[Len(s) + Len(t)] =
        IF Len(s) + Len(t) <= Len(s) THEN s[Len(s) + Len(t)] ELSE t[(Len(s) + Len(t)) - Len(s)]
  BY <1>2, <1>3
<1>5. Last(s \o t) = (s \o t)[Len(s) + Len(t)]
  BY <1>2 DEF Last
<1>6. CASE Len(t) = 0
  <2>1. Len(s) + Len(t) <= Len(s) /\ Len(s) + Len(t) = Len(s)
    BY <1>1, <1>6
  <2> QED BY <1>1, <1>2, <1>3, <1>4, <1>5, <1>6, <2>1, Emptied
<1>7. CASE Len(t) # 0
  <2>1. ~(Len(s) + Len(t) <= Len(s)) /\ (Len(s) + Len(t)) - Len(s) = Len(t)
    BY <1>1, <1>7
  <2> QED BY <1>1, <1>2, <1>3, <1>4, <1>5, <1>7, <2>1, Emptied
<1> QED BY <1>6, <1>7

LEMMA One ==
  ASSUME NEW m \in Modes
  PROVE  <<m>> \in Seq(Modes) /\ <<m>> # <<>> /\ <<m>>[Len(<<m>>)] = m
OBVIOUS

LEMMA HeardLast ==
  ASSUME IInv
  PROVE  BrokerCatchesUp
<1>1. SUFFICES ASSUME announced PROVE Last(<<latest>> \o ToTake) = mode
  BY DEF BrokerCatchesUp
<1>2. /\ ToTake \in Seq(Modes)
      /\ ToTake = <<>> => latest = mode
      /\ ToTake # <<>> => ToTake[Len(ToTake)] = mode
  BY <1>1, ToTakeIsMode
<1>3. latest \in Modes
  BY Parts DEF CoreTypeOK
<1>4. Last(<<latest>> \o ToTake) = IF ToTake = <<>> THEN latest ELSE ToTake[Len(ToTake)]
  <2>1. /\ <<latest>> \in Seq(Modes) /\ <<latest>> # <<>>
        /\ <<latest>>[Len(<<latest>>)] = latest
    BY <1>3, One
  <2> DEFINE heard == <<latest>>
             rest  == ToTake
  <2>2. heard \in Seq(Modes) /\ rest \in Seq(Modes) /\ heard # <<>>
    BY <1>2, <2>1
  <2> HIDE DEF heard, rest
  <2>3. Last(heard \o rest) = IF rest = <<>> THEN heard[Len(heard)] ELSE rest[Len(rest)]
    BY <2>2, LastOfTwo
  <2> QED BY <2>1, <2>3, Zenon DEF heard, rest
<1> QED BY ONLY <1>2, <1>4

LEMMA ShownLast ==
  ASSUME IInv
  PROVE  PagesCurrent
<1>1. SUFFICES ASSUME NEW p \in Pages, announced, p \notin missed, echoed => ToTake # <<>>
               PROVE  Last(<<shown[p]>> \o loop \o ToTake) = mode
  BY DEF PagesCurrent
<1>2. /\ ToTake \in Seq(Modes)
      /\ ToTake = <<>> => latest = mode
      /\ ToTake # <<>> => ToTake[Len(ToTake)] = mode
  BY <1>1, ToTakeIsMode
<1>3. shown[p] \in Modes /\ loop \in Seq(Modes)
  BY Parts DEF CoreTypeOK
<1> DEFINE toCore == <<shown[p]>> \o loop
<1>4. /\ toCore \in Seq(Modes) /\ toCore # <<>>
      /\ Last(toCore) = IF loop = <<>> THEN shown[p] ELSE loop[Len(loop)]
  BY <1>3, One, LastOfTwo
<1>5. ToTake = <<>> => Last(toCore) = latest
  BY <1>1, <1>4, Parts DEF LastIInv, LoopIsLast, ShownIsLast
<1>6. Last(toCore) = toCore[Len(toCore)]
  BY DEF Last
<1> HIDE DEF toCore
<1>7. Last(toCore \o ToTake) = IF ToTake = <<>> THEN toCore[Len(toCore)] ELSE ToTake[Len(ToTake)]
  BY <1>2, <1>4, LastOfTwo
<1>8. Last(toCore \o ToTake) = mode
  BY <1>2, <1>5, <1>6, <1>7
<1> QED BY <1>8 DEF toCore

\* Once Core has published a mode, the broker has had, or will be given, the one
\* Core is in as the last, whatever was sent twice over a connection that was
\* lost (MqttClient publishes with QoS 1).
THEOREM BrokerEndsCurrent == Spec => []BrokerCatchesUp
<1> QED BY Initially, Inductive, HeardLast, PTL DEF Spec

\* A page that has missed no status shows the mode once those on their way have
\* come, through the broker, Core and the streams (broadcastSSE).
THEOREM PagesEndCurrent == Spec => []PagesCurrent
<1> QED BY Initially, Inductive, ShownLast, PTL DEF Spec

-----------------------------------------------------------------------------
\* Who listens.

\* With the types, the invariant of the run is inductive.
LEMMA StreamsStep == TypeOK /\ StreamsAreClients /\ [Next]_vars => StreamsAreClients'
<1> SUFFICES ASSUME TypeOK, StreamsAreClients, [Next]_vars PROVE StreamsAreClients'
  OBVIOUS
<1>1. /\ owner \in [Conns -> Pages \cup {None}] /\ sseClients \subseteq Conns
      /\ stream \in [Pages -> Conns \cup {None}]
  BY DEF TypeOK
<1>2. None \notin Pages /\ None \notin Conns
  BY DashboardAssumption
<1>3. CASE UNCHANGED <<owner, sseClients, stream>>
  BY <1>3 DEF StreamsAreClients
<1>4. CASE Process
  <2>1. CASE CoreUnchanged
    BY <1>3, <2>1 DEF CoreUnchanged, pageVars
  <2>2. CASE Ended
    BY <2>2 DEF Ended, StreamsAreClients
  <2> QED BY <1>4, <2>1, <2>2, ProcessCases
<1>5. ASSUME NEW p \in Pages, NEW c \in Conns, OpenEvents(p, c) PROVE StreamsAreClients'
  <2>1. /\ owner[c] = None /\ owner' = [owner EXCEPT ![c] = p]
        /\ sseClients' = sseClients \cup {c} /\ stream' = [stream EXCEPT ![p] = c]
    BY <1>5 DEF OpenEvents
  <2>2. ASSUME NEW q \in Pages, stream'[q] # None
        PROVE  stream'[q] \in sseClients' /\ owner'[stream'[q]] = q
    BY <1>1, <1>2, <2>1, <2>2 DEF StreamsAreClients
  <2>3. sseClients' = {d \in Conns : owner'[d] # None}
    BY <1>1, <1>2, <2>1 DEF StreamsAreClients
  <2> QED BY <2>2, <2>3 DEF StreamsAreClients
<1>6. ASSUME NEW p \in Pages, StreamBreaks(p) \/ Reload(p) PROVE StreamsAreClients'
  <2>1. UNCHANGED <<owner, sseClients>> /\ stream' = [stream EXCEPT ![p] = None]
    BY <1>6 DEF StreamBreaks, Reload
  <2> QED BY <1>1, <2>1 DEF StreamsAreClients
<1>7. ASSUME NEW c \in Conns, RequestClosed(c) PROVE StreamsAreClients'
  <2>1. /\ owner[c] # None /\ stream[owner[c]] # c /\ stream' = stream
        /\ owner' = [owner EXCEPT ![c] = None] /\ sseClients' = sseClients \ {c}
    BY <1>7 DEF RequestClosed
  <2>2. ASSUME NEW q \in Pages, stream[q] # None PROVE stream[q] # c
    BY <2>1, <2>2 DEF StreamsAreClients
  <2> QED BY <1>1, <2>1, <2>2 DEF StreamsAreClients
<1>8. CASE \/ \E m \in Modes : Announce(m) \/ Echo(m)
           \/ Connect \/ BrokerTakes \/ Acknowledge \/ LoseBroker \/ ModeStatus
  BY <1>3, <1>8 DEF Announce, Echo, Connect, BrokerTakes, Acknowledge, LoseBroker, ModeStatus, pageVars
<1>9. CASE UNCHANGED vars
  BY <1>3, <1>9 DEF vars, pageVars
<1> QED BY <1>4, <1>5, <1>6, <1>7, <1>8, <1>9 DEF Next

\* A page that listens is among the clients that are broadcast to, and the late
\* end of one of its streams does not take another one away (GET /api/events).
THEOREM ListenersAreClients == Spec => []StreamsAreClients
<1>1. Init => StreamsAreClients
  BY DEF Init, StreamsAreClients
<1> QED BY <1>1, StreamsStep, DashboardTypeCorrect, PTL DEF Spec
=============================================================================
