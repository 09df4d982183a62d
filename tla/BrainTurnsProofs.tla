-------------------------- MODULE BrainTurnsProofs --------------------------
(***************************************************************************)
(* Proofs about the turns of the basic Brain, for any turns and any limit  *)
(* on the length of an answer: what Core plays of an answer is a beginning *)
(* of it, and all of it when the turn is complete.                         *)
(***************************************************************************)
EXTENDS BrainTurns, SequenceTheorems, TLAPS

\* The numbers that come after n.
Follows(s, n) == \A i \in 1..Len(s) : s[i] = n + i

\* The calls of a turn that Core has not handled, and how much of the answer
\* has left the Brain.
Waiting(t) == {i \in 1..Len(calls) : calls[i].turn = t}

Sent(t) ==
  Len(played[t]) +
    (IF Waiting(t) = {} THEN 0 ELSE Len(calls[CHOOSE i \in Waiting(t) : TRUE].audio))

\* At most one call of a turn is in the pipe, and goes on where Core is.
Queued(t) ==
  /\ Follows(played[t], 0)
  /\ \A i \in Waiting(t) : Follows(calls[i].audio, Len(played[t]))
  /\ \A i, j \in Waiting(t) : i = j

\* Which stream goes with which state of the two coroutines.
Shape(r) ==
  /\ r.producer \notin {"sentence", "flush"} => r.synth = <<>>
  /\ r.stream = "destroyed" => r.audio = <<>>
  /\ r.stream = "ended" => r.producer = "ended"
  /\ r.stream = "open" => r.producer \notin {"ended", "failed"}
  /\ r.state = "complete" => r.stream = "ended" /\ r.audio = <<>> /\ r.call = "none"
  /\ r.state = "transcribing" => r.producer = "none" /\ r.stream = "open"
  /\ r.producer = "none" => r.heard = 0 /\ r.buffer = <<>> /\ r.audio = <<>>

\* What is in the stream, in synthesis and in the buffer goes on after n tokens,
\* one after the other, up to the last that was heard.
Line(r, n) ==
  /\ Follows(r.audio, n)
  /\ r.producer \in {"none", "reading"} =>
       /\ Follows(r.buffer, n + Len(r.audio))
       /\ r.heard = n + Len(r.audio) + Len(r.buffer)
  /\ r.producer \in {"sentence", "flush"} =>
       /\ Follows(r.synth, n + Len(r.audio))
       /\ r.heard = n + Len(r.audio) + Len(r.synth)
  /\ r.producer = "ended" => r.heard = n + Len(r.audio)

\* As long as the stream is whole: the consumer waits for the call in the pipe.
Sound(r, n, waiting) ==
  /\ Shape(r)
  /\ r.stream # "destroyed" => /\ Line(r, n)
                               /\ r.call = "asked" => waiting # {}
                               /\ waiting # {} => r.call = "asked"

IInv ==
  /\ TypeOK
  /\ \A t \in Turns : Queued(t) /\ Sound(turn[t], Sent(t), Waiting(t))

-----------------------------------------------------------------------------
\* Sequences of tokens.

LEMMA Lengths == \A s \in Seq(Tokens) : Len(s) \in Nat /\ (s = <<>> <=> Len(s) = 0)
BY EmptySeq, LenProperties

LEMMA FollowsConcat ==
  ASSUME NEW q \in Seq(Tokens), NEW r \in Seq(Tokens), NEW n \in Nat,
         Follows(q, n), Follows(r, n + Len(q))
  PROVE  q \o r \in Seq(Tokens) /\ Len(q \o r) = Len(q) + Len(r) /\ Follows(q \o r, n)
<1>1. /\ q \o r \in Seq(Tokens) /\ Len(q \o r) = Len(q) + Len(r)
      /\ Len(q) \in Nat /\ Len(r) \in Nat
      /\ \A i \in 1..Len(q) : (q \o r)[i] = q[i]
      /\ \A i \in 1..Len(r) : (q \o r)[Len(q) + i] = r[i]
  BY ConcatProperties, LenProperties
<1>2. ASSUME NEW i \in 1..Len(q \o r) PROVE (q \o r)[i] = n + i
  <2>1. CASE i <= Len(q)
    <3>1. i \in 1..Len(q)
      BY <1>1, <2>1
    <3> QED BY <1>1, <3>1 DEF Follows
  <2>2. CASE ~(i <= Len(q))
    <3>1. i - Len(q) \in 1..Len(r) /\ Len(q) + (i - Len(q)) = i
      BY <1>1, <2>2
    <3>2. (q \o r)[i] = r[i - Len(q)]
      BY <1>1, <3>1
    <3>3. r[i - Len(q)] = n + Len(q) + (i - Len(q))
      BY <3>1 DEF Follows
    <3> QED BY <1>1, <3>2, <3>3
  <2> QED BY <2>1, <2>2
<1> QED BY <1>1, <1>2 DEF Follows

LEMMA FollowsTail ==
  ASSUME NEW q \in Seq(Tokens), NEW n \in Nat, q # <<>>, Follows(q, n)
  PROVE  /\ Head(q) \in Tokens /\ Head(q) = n + 1
         /\ Tail(q) \in Seq(Tokens) /\ Len(Tail(q)) = Len(q) - 1
         /\ Follows(Tail(q), n + 1)
<1>1. /\ Head(q) \in Tokens /\ Head(q) = q[1] /\ Len(q) \in Nat /\ Len(q) >= 1
      /\ Tail(q) \in Seq(Tokens) /\ Len(Tail(q)) = Len(q) - 1
      /\ \A i \in 1..Len(Tail(q)) : Tail(q)[i] = q[i + 1]
  BY HeadTailProperties, LenProperties, EmptySeq
<1>2. Head(q) = n + 1
  BY <1>1 DEF Follows
<1>3. ASSUME NEW i \in 1..Len(Tail(q)) PROVE Tail(q)[i] = n + 1 + i
  <2>1. i + 1 \in 1..Len(q) /\ Tail(q)[i] = q[i + 1]
    BY <1>1
  <2>2. q[i + 1] = n + (i + 1)
    BY <2>1 DEF Follows
  <2> QED BY <2>1, <2>2
<1> QED BY <1>1, <1>2, <1>3 DEF Follows

LEMMA FollowsOne ==
  ASSUME NEW n \in Nat, n + 1 \in Tokens
  PROVE  <<n + 1>> \in Seq(Tokens) /\ Len(<<n + 1>>) = 1 /\ Follows(<<n + 1>>, n)
BY DEF Follows

LEMMA FollowsNone ==
  ASSUME NEW n \in Nat
  PROVE  <<>> \in Seq(Tokens) /\ Len(<<>>) = 0 /\ Follows(<<>>, n)
BY EmptySeq DEF Follows

LEMMA FollowsAppend ==
  ASSUME NEW q \in Seq(Tokens), NEW n \in Nat, n + Len(q) + 1 \in Tokens, Follows(q, n)
  PROVE  /\ Append(q, n + Len(q) + 1) \in Seq(Tokens)
         /\ Len(Append(q, n + Len(q) + 1)) = Len(q) + 1
         /\ Follows(Append(q, n + Len(q) + 1), n)
<1>1. /\ Append(q, n + Len(q) + 1) \in Seq(Tokens)
      /\ Len(Append(q, n + Len(q) + 1)) = Len(q) + 1 /\ Len(q) \in Nat
      /\ \A i \in 1..Len(q) : Append(q, n + Len(q) + 1)[i] = q[i]
      /\ Append(q, n + Len(q) + 1)[Len(q) + 1] = n + Len(q) + 1
  BY AppendProperties, LenProperties
<1>2. ASSUME NEW i \in 1..(Len(q) + 1) PROVE Append(q, n + Len(q) + 1)[i] = n + i
  <2>1. CASE i \in 1..Len(q)
    BY <1>1, <2>1 DEF Follows
  <2>2. CASE i \notin 1..Len(q)
    BY <1>1, <2>2
  <2> QED BY <2>1, <2>2
<1> QED BY <1>1, <1>2 DEF Follows

-----------------------------------------------------------------------------
\* Records of turns.

LEMMA Fields ==
  ASSUME NEW r \in TurnRecords
  PROVE  /\ r.state \in States /\ r.producer \in Producers /\ r.heard \in 0..MaxTokens
         /\ r.buffer \in Seq(Tokens) /\ r.synth \in Seq(Tokens) /\ r.audio \in Seq(Tokens)
         /\ r.stream \in Streams /\ r.call \in Calls
         /\ r.heard \in Nat /\ Len(r.audio) \in Nat /\ Len(r.buffer) \in Nat
         /\ Len(r.synth) \in Nat /\ MaxTokens \in Nat
BY TurnAssumption, LenProperties DEF TurnRecords

\* A step of one turn that leaves the pipe and Core alone.
LEMMA LocalStep ==
  ASSUME IInv, NEW t \in Turns, NEW q \in TurnRecords,
         turn' = [turn EXCEPT ![t] = q], UNCHANGED <<calls, played, coreUp>>,
         Sound(q, Sent(t), Waiting(t))
  PROVE  IInv'
<1>1. turn \in [Turns -> TurnRecords]
  BY DEF IInv, TypeOK
<1>2. TypeOK'
  BY <1>1 DEF IInv, TypeOK
<1>3. ASSUME NEW u \in Turns PROVE Queued(u)' /\ Sound(turn'[u], Sent(u)', Waiting(u)')
  <2>1. Waiting(u)' = Waiting(u) /\ Sent(u)' = Sent(u) /\ Queued(u)' = Queued(u)
    BY DEF Waiting, Sent, Queued
  <2>2. Sound(turn'[u], Sent(u), Waiting(u))
    BY <1>1 DEF IInv
  <2> QED BY <2>1, <2>2 DEF IInv
<1> QED BY <1>2, <1>3 DEF IInv

LEMMA SentType ==
  ASSUME IInv, NEW t \in Turns
  PROVE  /\ Sent(t) \in Nat /\ turn[t] \in TurnRecords
         /\ played[t] \in Seq(Tokens) /\ Len(played[t]) \in Nat
         /\ Queued(t) /\ Sound(turn[t], Sent(t), Waiting(t))
         /\ Waiting(t) = {} => Sent(t) = Len(played[t])
         /\ \A i \in Waiting(t) : /\ Waiting(t) = {i} /\ calls[i].audio \in Seq(Tokens)
                                  /\ Sent(t) = Len(played[t]) + Len(calls[i].audio)
<1>1. /\ turn[t] \in TurnRecords /\ played[t] \in Seq(Tokens) /\ Len(played[t]) \in Nat
      /\ Queued(t) /\ Sound(turn[t], Sent(t), Waiting(t))
  BY LenProperties DEF IInv, TypeOK
<1>2. ASSUME NEW i \in Waiting(t)
      PROVE  /\ calls[i].audio \in Seq(Tokens) /\ Len(calls[i].audio) \in Nat
             /\ Waiting(t) = {i} /\ Sent(t) = Len(played[t]) + Len(calls[i].audio)
             /\ Sent(t) \in Nat
  <2>1. i \in 1..Len(calls) /\ calls \in Seq([turn : Turns, audio : Seq(Tokens)])
    BY DEF Waiting, IInv, TypeOK
  <2>2. calls[i] \in [turn : Turns, audio : Seq(Tokens)]
    BY <2>1, ElementOfSeq
  <2>3. calls[i].audio \in Seq(Tokens) /\ Len(calls[i].audio) \in Nat
    BY <2>2, LenProperties
  <2>4. Waiting(t) = {i}
    BY <1>1 DEF Queued
  <2>5. (CHOOSE j \in Waiting(t) : TRUE) = i
    BY <2>4
  <2>6. Sent(t) = Len(played[t]) + Len(calls[i].audio)
    BY <2>4, <2>5 DEF Sent
  <2>7. Len(played[t]) + Len(calls[i].audio) \in Nat
    <3>1. \A a, b \in Nat : a + b \in Nat
      OBVIOUS
    <3>2. Len(played[t]) \in Nat /\ Len(calls[i].audio) \in Nat
      BY <1>1, <2>3
    <3> QED BY ONLY <3>1, <3>2
  <2>8. Sent(t) \in Nat
    BY <2>6, <2>7
  <2> QED BY <2>3, <2>4, <2>6, <2>8, Zenon
<1>3. Waiting(t) = {} => Sent(t) = Len(played[t])
  BY <1>1 DEF Sent
<1>4. Sent(t) \in Nat
  <2>1. CASE Waiting(t) = {}
    BY <1>1, <1>3, <2>1
  <2>2. CASE Waiting(t) # {}
    <3>1. PICK i : i \in Waiting(t)
      BY <2>2
    <3> QED BY <1>1, <1>2, <3>1
  <2> QED BY <2>1, <2>2
<1> QED BY <1>1, <1>2, <1>3, <1>4

-----------------------------------------------------------------------------
\* The producer.

LEMMA ChunkSound ==
  ASSUME NEW r \in TurnRecords, NEW n \in Nat, NEW waiting, Sound(r, n, waiting),
         r.synth # <<>>, NEW q,
         q = [r EXCEPT !.synth = Tail(r.synth),
                       !.audio = IF r.stream = "open" THEN r.audio \o <<Head(r.synth)>>
                                 ELSE r.audio]
  PROVE  q \in TurnRecords /\ Sound(q, n, waiting)
<1>1. /\ q.state = r.state /\ q.producer = r.producer /\ q.heard = r.heard
      /\ q.buffer = r.buffer /\ q.stream = r.stream /\ q.call = r.call
      /\ q.synth = Tail(r.synth)
      /\ q.audio = IF r.stream = "open" THEN r.audio \o <<Head(r.synth)>> ELSE r.audio
  BY DEF TurnRecords
<1>2. r.producer \in {"sentence", "flush"}
  BY DEF Sound, Shape
<1>3. r.stream # "ended"
  BY <1>2 DEF Sound, Shape
<1>4. Head(r.synth) \in Tokens /\ Tail(r.synth) \in Seq(Tokens)
  BY Fields, HeadTailProperties
<1>5. r.audio \o <<Head(r.synth)>> \in Seq(Tokens)
  BY <1>4, Fields, ConcatProperties
<1>6. q \in TurnRecords
  <2>1. q.audio \in Seq(Tokens) /\ q.synth \in Seq(Tokens)
    BY <1>1, <1>4, <1>5, Fields
  <2> QED BY <1>1, <2>1 DEF TurnRecords
<1>7. Shape(q)
  BY <1>1, <1>2 DEF Sound, Shape
<1>8. ASSUME r.stream # "destroyed"
      PROVE  Line(q, n)
  <2>1. r.stream = "open" /\ q.audio = r.audio \o <<Head(r.synth)>>
    BY <1>1, <1>3, <1>8, Fields DEF Streams
  <2>2. /\ Follows(r.audio, n) /\ Follows(r.synth, n + Len(r.audio))
        /\ r.heard = n + Len(r.audio) + Len(r.synth)
    BY <1>2, <1>8 DEF Sound, Line
  <2>3. /\ r.audio \in Seq(Tokens) /\ r.synth \in Seq(Tokens)
        /\ Len(r.audio) \in Nat /\ Len(r.synth) \in Nat /\ n + Len(r.audio) \in Nat
    BY Fields
  <2>4. /\ Head(r.synth) = n + Len(r.audio) + 1
        /\ Len(Tail(r.synth)) = Len(r.synth) - 1
        /\ Follows(Tail(r.synth), n + Len(r.audio) + 1)
    BY <2>2, <2>3, FollowsTail
  <2>5. /\ <<Head(r.synth)>> \in Seq(Tokens) /\ Len(<<Head(r.synth)>>) = 1
        /\ Follows(<<Head(r.synth)>>, n + Len(r.audio))
    BY <1>4, <2>3, <2>4, FollowsOne
  <2>6. Len(q.audio) = Len(r.audio) + 1 /\ Follows(q.audio, n)
    <3> DEFINE single == <<Head(r.synth)>>
    <3>1. single \in Seq(Tokens) /\ Len(single) = 1 /\ Follows(single, n + Len(r.audio))
      BY <2>5
    <3>2. q.audio = r.audio \o single
      BY <2>1
    <3> HIDE DEF single
    <3>3. Len(r.audio \o single) = Len(r.audio) + Len(single) /\ Follows(r.audio \o single, n)
      BY <2>2, <2>3, <3>1, FollowsConcat
    <3> QED BY <3>1, <3>2, <3>3
  <2>7. Follows(q.synth, n + Len(q.audio)) /\ q.heard = n + Len(q.audio) + Len(q.synth)
    <3>1. n + Len(q.audio) = n + Len(r.audio) + 1
      BY <2>3, <2>6
    <3>2. q.synth = Tail(r.synth) /\ q.heard = r.heard
      BY <1>1
    <3>3. Follows(q.synth, n + Len(q.audio))
      BY <2>4, <3>1, <3>2
    <3>4. n + Len(r.audio) + Len(r.synth) = n + Len(r.audio) + 1 + (Len(r.synth) - 1)
      BY <2>3
    <3> QED BY ONLY <2>2, <2>4, <3>1, <3>2, <3>3, <3>4
  <2> QED BY <1>1, <1>2, <2>6, <2>7 DEF Line
<1> QED BY <1>1, <1>6, <1>7, <1>8 DEF Sound

LEMMA TokenSound ==
  ASSUME NEW r \in TurnRecords, NEW n \in Nat, NEW waiting, Sound(r, n, waiting),
         r.producer = "reading", r.heard < MaxTokens, NEW q, NEW buffer,
         buffer = Append(r.buffer, r.heard + 1),
         \/ q = [r EXCEPT !.heard = r.heard + 1, !.buffer = buffer]
         \/ q = [r EXCEPT !.heard = r.heard + 1, !.buffer = buffer,
                          !.producer = "sentence", !.synth = buffer]
  PROVE  q \in TurnRecords /\ Sound(q, n, waiting)
<1>1. /\ q.state = r.state /\ q.heard = r.heard + 1 /\ q.buffer = buffer
      /\ q.stream = r.stream /\ q.call = r.call /\ q.audio = r.audio
      /\ \/ q.producer = "reading" /\ q.synth = r.synth
         \/ q.producer = "sentence" /\ q.synth = buffer
  BY DEF TurnRecords
<1>2. r.heard + 1 \in Tokens /\ r.heard + 1 \in 0..MaxTokens
  BY Fields DEF Tokens
<1>3. buffer \in Seq(Tokens) /\ r.synth = <<>> /\ r.synth \in Seq(Tokens)
  <2>1. r.synth = <<>>
    BY DEF Sound, Shape
  <2> QED BY <1>2, <2>1, Fields, AppendProperties
<1>4. q \in TurnRecords
  <2>1. q.producer \in Producers /\ q.synth \in Seq(Tokens)
    BY <1>1, <1>3 DEF Producers
  <2>2. q = [state |-> q.state, producer |-> q.producer, heard |-> q.heard, buffer |-> q.buffer,
             synth |-> q.synth, audio |-> q.audio, stream |-> q.stream, call |-> q.call]
    BY DEF TurnRecords
  <2> QED BY <1>1, <1>2, <1>3, <2>1, <2>2, Fields DEF TurnRecords
<1>5. Shape(q)
  BY <1>1, <1>3 DEF Sound, Shape
<1>6. ASSUME r.stream # "destroyed"
      PROVE  Line(q, n)
  <2>1. /\ Follows(r.audio, n) /\ Follows(r.buffer, n + Len(r.audio))
        /\ r.heard = n + Len(r.audio) + Len(r.buffer)
    BY <1>6 DEF Sound, Line
  <2>2. /\ r.buffer \in Seq(Tokens) /\ Len(r.audio) \in Nat /\ Len(r.buffer) \in Nat
        /\ n + Len(r.audio) \in Nat
    BY Fields
  <2>3. /\ Len(buffer) = Len(r.buffer) + 1 /\ Follows(buffer, n + Len(r.audio))
    BY <1>2, <2>1, <2>2, FollowsAppend
  <2>4. q.heard = n + Len(q.audio) + Len(buffer) /\ Follows(buffer, n + Len(q.audio))
    BY <1>1, <2>1, <2>2, <2>3
  <2> QED BY <1>1, <2>1, <2>4 DEF Line
<1> QED BY <1>1, <1>4, <1>5, <1>6 DEF Sound

LEMMA SentenceDoneSound ==
  ASSUME NEW r \in TurnRecords, NEW n \in Nat, NEW waiting, Sound(r, n, waiting),
         r.producer = "sentence", r.synth = <<>>,
         NEW q, q = [r EXCEPT !.producer = "reading", !.buffer = <<>>]
  PROVE  q \in TurnRecords /\ Sound(q, n, waiting)
<1>1. /\ q.state = r.state /\ q.heard = r.heard /\ q.stream = r.stream
      /\ q.call = r.call /\ q.audio = r.audio /\ q.synth = r.synth
      /\ q.producer = "reading" /\ q.buffer = <<>>
  BY DEF TurnRecords
<1>2. q \in TurnRecords
  BY FollowsNone DEF TurnRecords, Producers
<1>3. Shape(q)
  BY <1>1 DEF Sound, Shape
<1>4. ASSUME r.stream # "destroyed"
      PROVE  Line(q, n)
  <2>1. Follows(r.audio, n) /\ r.heard = n + Len(r.audio) + Len(r.synth)
    BY <1>4 DEF Sound, Line
  <2>2. n + Len(q.audio) \in Nat /\ Len(<<>>) = 0
    BY <1>1, Fields
  <2>3. Follows(<<>>, n + Len(q.audio))
    BY <2>2, FollowsNone
  <2> QED BY ONLY <1>1, <2>1, <2>2, <2>3, r.synth = <<>> DEF Line
<1> QED BY <1>1, <1>2, <1>3, <1>4 DEF Sound

\* With nothing left in the buffer the stream ends, otherwise that is synthesized.
LEMMA LastTokenSound ==
  ASSUME NEW r \in TurnRecords, NEW n \in Nat, NEW waiting, Sound(r, n, waiting),
         r.producer = "reading", NEW q,
         q = IF r.buffer = <<>>
             THEN [r EXCEPT !.producer = "ended",
                            !.stream = IF r.stream = "open" THEN "ended" ELSE r.stream]
             ELSE [r EXCEPT !.producer = "flush", !.synth = r.buffer]
  PROVE  q \in TurnRecords /\ Sound(q, n, waiting)
<1>1. r.synth = <<>> /\ r.stream # "ended"
  BY DEF Sound, Shape
<1>2. ASSUME r.stream # "destroyed"
      PROVE  /\ Follows(r.audio, n) /\ Follows(r.buffer, n + Len(r.audio))
             /\ r.heard = n + Len(r.audio) + Len(r.buffer)
             /\ r.call = "asked" => waiting # {}
             /\ waiting # {} => r.call = "asked"
  BY <1>2 DEF Sound, Line
<1>3. CASE r.buffer = <<>>
  <2>1. /\ q.state = r.state /\ q.heard = r.heard /\ q.call = r.call /\ q.audio = r.audio
        /\ q.synth = r.synth /\ q.buffer = r.buffer /\ q.producer = "ended"
        /\ q.stream = IF r.stream = "open" THEN "ended" ELSE r.stream
    BY <1>3 DEF TurnRecords
  <2>2. q \in TurnRecords
    BY <1>3 DEF TurnRecords, Producers, Streams
  <2>3. Shape(q)
    BY <1>1, <2>1 DEF Sound, Shape
  <2>4. ASSUME q.stream # "destroyed"
        PROVE  Line(q, n)
    <3>1. r.stream # "destroyed"
      BY <2>1, <2>4
    <3>2. n + Len(r.audio) + Len(r.buffer) = n + Len(r.audio)
      BY <1>3, Fields, Lengths
    <3> QED BY <1>2, <2>1, <3>1, <3>2 DEF Line
  <2>5. q.stream # "destroyed" => r.stream # "destroyed"
    BY <2>1
  <2> QED BY <1>2, <2>1, <2>2, <2>3, <2>4, <2>5 DEF Sound
<1>4. CASE r.buffer # <<>>
  <2>1. /\ q.state = r.state /\ q.heard = r.heard /\ q.call = r.call /\ q.audio = r.audio
        /\ q.synth = r.buffer /\ q.buffer = r.buffer /\ q.producer = "flush"
        /\ q.stream = r.stream
    BY <1>4 DEF TurnRecords
  <2>2. q \in TurnRecords
    BY <1>4, Fields DEF TurnRecords, Producers
  <2>3. Shape(q)
    BY <1>1, <2>1 DEF Sound, Shape
  <2>4. r.stream # "destroyed" => Line(q, n)
    BY <1>2, <2>1 DEF Line
  <2> QED BY <1>2, <2>1, <2>2, <2>3, <2>4 DEF Sound
<1> QED BY <1>3, <1>4

LEMMA FlushedSound ==
  ASSUME NEW r \in TurnRecords, NEW n \in Nat, NEW waiting, Sound(r, n, waiting),
         r.producer = "flush", r.synth = <<>>, NEW q,
         q = [r EXCEPT !.producer = "ended",
                       !.stream = IF r.stream = "open" THEN "ended" ELSE r.stream]
  PROVE  q \in TurnRecords /\ Sound(q, n, waiting)
<1>1. /\ q.state = r.state /\ q.heard = r.heard /\ q.call = r.call /\ q.audio = r.audio
      /\ q.synth = r.synth /\ q.buffer = r.buffer /\ q.producer = "ended"
      /\ q.stream = IF r.stream = "open" THEN "ended" ELSE r.stream
  BY DEF TurnRecords
<1>2. r.stream # "ended" /\ (q.stream # "destroyed" => r.stream # "destroyed")
  BY <1>1 DEF Sound, Shape
<1>3. q \in TurnRecords
  BY DEF TurnRecords, Producers, Streams
<1>4. Shape(q)
  BY <1>1, <1>2 DEF Sound, Shape
<1>5. ASSUME r.stream # "destroyed"
      PROVE  Line(q, n)
  <2>1. Follows(r.audio, n) /\ r.heard = n + Len(r.audio) + Len(r.synth)
    BY <1>5 DEF Sound, Line
  <2>2. n + Len(r.audio) + Len(r.synth) = n + Len(r.audio)
    BY Fields, Lengths
  <2> QED BY <1>1, <2>1, <2>2 DEF Line
<1> QED BY <1>1, <1>2, <1>3, <1>4, <1>5 DEF Sound

LEMMA ProducerFailsSound ==
  ASSUME NEW r \in TurnRecords, NEW n \in Nat, NEW waiting, Sound(r, n, waiting),
         r.producer \in {"reading", "sentence", "flush"}, NEW q,
         q = [r EXCEPT !.producer = "failed", !.synth = <<>>,
                       !.stream = "destroyed", !.audio = <<>>]
  PROVE  q \in TurnRecords /\ Sound(q, n, waiting)
<1>1. /\ q.state = r.state /\ q.producer = "failed" /\ q.synth = <<>>
      /\ q.stream = "destroyed" /\ q.audio = <<>>
  BY DEF TurnRecords
<1>2. q \in TurnRecords
  BY FollowsNone DEF TurnRecords, Producers, Streams
<1>3. r.state # "complete" /\ r.state # "transcribing"
  BY DEF Sound, Shape
<1> QED BY <1>1, <1>2, <1>3 DEF Sound, Shape

LEMMA ProduceStep ==
  ASSUME IInv, NEW t \in Turns, Produce(t)
  PROVE  IInv'
<1> DEFINE r == turn[t]
           n == Sent(t)
           w == Waiting(t)
<1>1. r \in TurnRecords /\ n \in Nat /\ Sound(r, n, w)
  BY SentType
<1>2. UNCHANGED <<calls, played, coreUp>>
  BY DEF Produce, Token, Chunk, SentenceDone, LastToken, Flushed, ProducerFails
<1>3. turn \in [Turns -> TurnRecords]
  BY DEF IInv, TypeOK
<1>4. ASSUME NEW q \in TurnRecords, turn' = [turn EXCEPT ![t] = q], Sound(q, n, w)
      PROVE  IInv'
  BY <1>2, <1>4, LocalStep
<1>5. CASE Chunk(t)
  <2> DEFINE q == [r EXCEPT !.synth = Tail(r.synth),
                            !.audio = IF r.stream = "open" THEN r.audio \o <<Head(r.synth)>>
                                      ELSE r.audio]
  <2>1. r.synth # <<>> /\ turn' = [turn EXCEPT ![t] = q]
    BY <1>3, <1>5 DEF Chunk, Push
  <2>2. q \in TurnRecords /\ Sound(q, n, w)
    <3> HIDE DEF n, w
    <3> QED BY <1>1, <2>1, ChunkSound
  <2> QED BY <1>4, <2>1, <2>2
<1>6. CASE Token(t)
  <2> DEFINE buffer == Append(r.buffer, r.heard + 1)
             read == [r EXCEPT !.heard = r.heard + 1, !.buffer = buffer]
             ended == [r EXCEPT !.heard = r.heard + 1, !.buffer = buffer,
                                !.producer = "sentence", !.synth = buffer]
  <2>1. /\ r.producer = "reading" /\ r.heard < MaxTokens
        /\ turn' = [turn EXCEPT ![t] = read] \/ turn' = [turn EXCEPT ![t] = ended]
    BY <1>1, <1>3, <1>6 DEF Token, MayGoOn, TurnRecords
  <2>2. read \in TurnRecords /\ Sound(read, n, w)
    <3> HIDE DEF n, w
    <3> QED BY <1>1, <2>1, TokenSound
  <2>3. ended \in TurnRecords /\ Sound(ended, n, w)
    <3> HIDE DEF n, w
    <3> QED BY <1>1, <2>1, TokenSound
  <2> QED BY <1>4, <2>1, <2>2, <2>3
<1>7. CASE SentenceDone(t)
  <2> DEFINE q == [r EXCEPT !.producer = "reading", !.buffer = <<>>]
  <2>1. /\ r.producer = "sentence" /\ r.synth = <<>>
        /\ turn' = [turn EXCEPT ![t] = q]
    BY <1>3, <1>7 DEF SentenceDone
  <2>2. q \in TurnRecords /\ Sound(q, n, w)
    <3> HIDE DEF n, w
    <3> QED BY <1>1, <2>1, SentenceDoneSound
  <2> QED BY <1>4, <2>1, <2>2
<1>8. CASE LastToken(t)
  <2> DEFINE q == IF r.buffer = <<>>
                  THEN [r EXCEPT !.producer = "ended",
                                 !.stream = IF r.stream = "open" THEN "ended" ELSE r.stream]
                  ELSE [r EXCEPT !.producer = "flush", !.synth = r.buffer]
  <2>1. r.producer = "reading" /\ turn' = [turn EXCEPT ![t] = q]
    BY <1>3, <1>8 DEF LastToken, EndStream
  <2>2. q \in TurnRecords /\ Sound(q, n, w)
    <3> HIDE DEF n, w
    <3> QED BY <1>1, <2>1, LastTokenSound
  <2> QED BY <1>4, <2>1, <2>2
<1>9. CASE Flushed(t)
  <2> DEFINE q == [r EXCEPT !.producer = "ended",
                            !.stream = IF r.stream = "open" THEN "ended" ELSE r.stream]
  <2>1. /\ r.producer = "flush" /\ r.synth = <<>>
        /\ turn' = [turn EXCEPT ![t] = q]
    BY <1>3, <1>9 DEF Flushed, EndStream
  <2>2. q \in TurnRecords /\ Sound(q, n, w)
    <3> HIDE DEF n, w
    <3> QED BY <1>1, <2>1, FlushedSound
  <2> QED BY <1>4, <2>1, <2>2
<1>10. CASE ProducerFails(t)
  <2> DEFINE q == [r EXCEPT !.producer = "failed", !.synth = <<>>,
                            !.stream = "destroyed", !.audio = <<>>]
  <2>1. /\ r.producer \in {"reading", "sentence", "flush"}
        /\ turn' = [turn EXCEPT ![t] = q]
    BY <1>3, <1>10 DEF ProducerFails, Producing
  <2>2. q \in TurnRecords /\ Sound(q, n, w)
    <3> HIDE DEF n, w
    <3> QED BY <1>1, <2>1, ProducerFailsSound
  <2> QED BY <1>4, <2>1, <2>2
<1> QED BY <1>5, <1>6, <1>7, <1>8, <1>9, <1>10 DEF Produce

-----------------------------------------------------------------------------
\* The consumer.

\* A record whose stream is gone has no audio left, and promises nothing.
LEMMA AbandonedSound ==
  ASSUME NEW r \in TurnRecords, Shape(r), NEW n, NEW waiting
  PROVE  Abandoned(r) \in TurnRecords /\ Sound(Abandoned(r), n, waiting)
<1>1. /\ Abandoned(r).state = "failed" /\ Abandoned(r).stream = "destroyed"
      /\ Abandoned(r).audio = <<>> /\ Abandoned(r).producer = r.producer
      /\ Abandoned(r).synth = r.synth /\ Abandoned(r).buffer = r.buffer
      /\ Abandoned(r).heard = r.heard
  BY DEF Abandoned, TurnRecords
<1>2. Abandoned(r) \in TurnRecords
  BY FollowsNone DEF Abandoned, TurnRecords, States, Streams, Calls
<1> QED BY <1>1, <1>2 DEF Sound, Shape

LEMMA TranscribedStep ==
  ASSUME IInv, NEW t \in Turns, Transcribed(t)
  PROVE  IInv'
<1> DEFINE r == turn[t]
           n == Sent(t)
           w == Waiting(t)
           words == [r EXCEPT !.state = "answering", !.producer = "reading"]
           skipped == [r EXCEPT !.state = "skipped"]
           failed == [r EXCEPT !.state = "failed"]
<1>1. r \in TurnRecords /\ n \in Nat /\ Sound(r, n, w) /\ turn \in [Turns -> TurnRecords]
  BY SentType DEF IInv, TypeOK
<1>2. /\ r.state = "transcribing" /\ UNCHANGED <<calls, played, coreUp>>
      /\ \/ turn' = [turn EXCEPT ![t] = words]
         \/ turn' = [turn EXCEPT ![t] = skipped]
         \/ turn' = [turn EXCEPT ![t] = failed]
  BY <1>1 DEF Transcribed, Transcripts
<1>3. r.producer = "none" /\ r.stream = "open" /\ Line(r, n)
  BY <1>1, <1>2 DEF Sound, Shape
<1>4. ASSUME NEW q, q \in {words, skipped, failed}
      PROVE  q \in TurnRecords /\ Sound(q, n, w)
  <2>1. /\ q.heard = r.heard /\ q.call = r.call /\ q.audio = r.audio /\ q.synth = r.synth
        /\ q.buffer = r.buffer /\ q.stream = r.stream
        /\ \/ q.producer = "reading" /\ q.state = "answering"
           \/ q.producer = "none" /\ q.state \in {"skipped", "failed"}
    BY <1>1, <1>3, <1>4 DEF TurnRecords
  <2>2. q \in TurnRecords
    BY <1>1, <1>4 DEF TurnRecords, States, Producers
  <2>3. Shape(q)
    BY <1>1, <1>3, <2>1 DEF Sound, Shape
  <2>4. Line(q, n)
    BY <1>3, <2>1 DEF Line
  <2> QED BY <1>1, <1>3, <2>1, <2>2, <2>3, <2>4 DEF Sound
<1> HIDE DEF n, w, words, skipped, failed
<1>5. ASSUME NEW q \in TurnRecords, turn' = [turn EXCEPT ![t] = q], Sound(q, n, w)
      PROVE  IInv'
  BY <1>2, <1>5, LocalStep DEF n, w
<1> QED BY <1>2, <1>4, <1>5

LEMMA AnsweredStep ==
  ASSUME IInv, NEW t \in Turns, Answered(t) \/ CallRejected(t) \/ TurnOver(t)
  PROVE  IInv'
<1> DEFINE r == turn[t]
           n == Sent(t)
           w == Waiting(t)
<1>1. r \in TurnRecords /\ n \in Nat /\ Sound(r, n, w) /\ turn \in [Turns -> TurnRecords]
  BY SentType DEF IInv, TypeOK
<1>2. UNCHANGED <<calls, played, coreUp>>
  BY DEF Answered, CallRejected, TurnOver
<1> HIDE DEF n, w
<1>3. ASSUME NEW q \in TurnRecords, turn' = [turn EXCEPT ![t] = q], Sound(q, n, w)
      PROVE  IInv'
  BY <1>2, <1>3, LocalStep DEF n, w
<1>4. CASE Answered(t)
  <2> DEFINE q == [r EXCEPT !.call = "none"]
  <2>1. r.call = "answered" /\ turn' = [turn EXCEPT ![t] = q]
    BY <1>1, <1>4 DEF Answered
  <2>2. /\ q.heard = r.heard /\ q.call = "none" /\ q.audio = r.audio /\ q.synth = r.synth
        /\ q.buffer = r.buffer /\ q.stream = r.stream /\ q.producer = r.producer
        /\ q.state = r.state
    BY <1>1 DEF TurnRecords
  <2>3. q \in TurnRecords
    BY <1>1 DEF TurnRecords, Calls
  <2> HIDE DEF q
  <2>4. Shape(q)
    BY <1>1, <2>2 DEF Sound, Shape
  <2>5. r.stream # "destroyed" => Line(q, n) /\ w = {}
    BY <1>1, <2>1, <2>2 DEF Sound, Line
  <2>6. Sound(q, n, w)
    BY <2>2, <2>4, <2>5 DEF Sound
  <2> QED BY <1>3, <2>1, <2>3, <2>6
<1>5. CASE CallRejected(t)
  <2>1. turn' = [turn EXCEPT ![t] = Abandoned(r)]
    BY <1>1, <1>5 DEF CallRejected
  <2> QED BY <1>1, <1>3, <2>1, AbandonedSound DEF Sound
<1>6. CASE TurnOver(t)
  <2> DEFINE q == [r EXCEPT !.state = IF r.stream = "ended" THEN "complete" ELSE "failed"]
  <2>1. /\ r.state = "answering" /\ r.call = "none" /\ r.audio = <<>> /\ r.stream # "open"
        /\ turn' = [turn EXCEPT ![t] = q]
    BY <1>1, <1>6 DEF TurnOver
  <2>2. /\ q.heard = r.heard /\ q.call = r.call /\ q.audio = r.audio /\ q.synth = r.synth
        /\ q.buffer = r.buffer /\ q.stream = r.stream /\ q.producer = r.producer
        /\ q.state = IF r.stream = "ended" THEN "complete" ELSE "failed"
    BY <1>1 DEF TurnRecords
  <2>3. q \in TurnRecords
    BY <1>1 DEF TurnRecords, States
  <2> HIDE DEF q
  <2>4. Shape(q)
    BY <1>1, <2>1, <2>2 DEF Sound, Shape
  <2>5. r.stream # "destroyed" => Line(q, n)
    BY <1>1, <2>2 DEF Sound, Line
  <2>6. Sound(q, n, w)
    BY <1>1, <2>2, <2>4, <2>5 DEF Sound
  <2> QED BY <1>3, <2>1, <2>3, <2>6
<1> QED BY <1>4, <1>5, <1>6

\* The record of a turn before anything is known of the answer.
LEMMA NewSound ==
  ASSUME NEW state \in {"idle", "transcribing"}
  PROVE  NewTurn(state) \in TurnRecords /\ Sound(NewTurn(state), 0, {})
<1> DEFINE q == NewTurn(state)
<1>1. /\ q.state = state /\ q.producer = "none" /\ q.heard = 0 /\ q.buffer = <<>>
      /\ q.synth = <<>> /\ q.audio = <<>> /\ q.stream = "open" /\ q.call = "none"
  BY DEF NewTurn
<1>2. q \in TurnRecords
  BY FollowsNone, TurnAssumption
     DEF NewTurn, TurnRecords, States, Producers, Streams, Calls
<1> HIDE DEF q
<1>3. Shape(q)
  BY <1>1 DEF Shape
<1>4. Line(q, 0)
  BY <1>1, FollowsNone DEF Line
<1>5. Sound(q, 0, {})
  BY <1>1, <1>3, <1>4 DEF Sound
<1> QED BY <1>2, <1>5 DEF q

LEMMA VoiceEndStep ==
  ASSUME IInv, NEW t \in Turns, VoiceEnd(t)
  PROVE  IInv'
<1>1. /\ turn' = [turn EXCEPT ![t] = NewTurn("transcribing")]
      /\ played' = [played EXCEPT ![t] = <<>>] /\ UNCHANGED <<calls, coreUp>>
      /\ \A i \in DOMAIN calls : calls[i].turn # t
  BY DEF VoiceEnd
<1>2. /\ turn \in [Turns -> TurnRecords] /\ played \in [Turns -> Seq(Tokens)]
      /\ calls \in Seq([turn : Turns, audio : Seq(Tokens)])
  BY DEF IInv, TypeOK
<1>3. NewTurn("transcribing") \in TurnRecords /\ Sound(NewTurn("transcribing"), 0, {})
  BY NewSound
<1>4. TypeOK'
  BY <1>1, <1>2, <1>3, EmptySeq DEF IInv, TypeOK
<1>5. ASSUME NEW u \in Turns \ {t}
      PROVE  Queued(u)' /\ Sound(turn'[u], Sent(u)', Waiting(u)')
  <2>1. turn'[u] = turn[u] /\ played'[u] = played[u]
    BY <1>1, <1>2
  <2>2. Waiting(u)' = Waiting(u)
    BY <1>1 DEF Waiting
  <2>3. Sent(u)' = Sent(u) /\ Queued(u)' = Queued(u)
    BY <1>1, <2>1, <2>2 DEF Sent, Queued
  <2> QED BY <2>1, <2>2, <2>3 DEF IInv
<1>6. Queued(t)' /\ Sound(turn'[t], Sent(t)', Waiting(t)')
  <2>1. turn'[t] = NewTurn("transcribing") /\ played'[t] = <<>>
    BY <1>1, <1>2
  <2>2. Waiting(t)' = {}
    <3>1. DOMAIN calls = 1..Len(calls)
      BY <1>2, LenProperties
    <3> QED BY <1>1, <3>1 DEF Waiting
  <2>3. Sent(t)' = 0
    BY <2>1, <2>2, FollowsNone DEF Sent
  <2>4. Queued(t)'
    BY <2>1, <2>2, FollowsNone DEF Queued
  <2> QED BY <1>3, <2>1, <2>2, <2>3, <2>4
<1> QED BY <1>4, <1>5, <1>6 DEF IInv

-----------------------------------------------------------------------------
\* The pipe.

\* A turn whose record stays and whose call, if any, is only moved in the pipe.
LEMMA Elsewhere ==
  ASSUME IInv, NEW u \in Turns, turn'[u] = turn[u], played'[u] = played[u],
         Waiting(u) = {} => Waiting(u)' = {},
         \A i \in Waiting(u) : \E j : Waiting(u)' = {j} /\ calls'[j].audio = calls[i].audio
  PROVE  Queued(u)' /\ Sound(turn'[u], Sent(u)', Waiting(u)')
<1>1. Queued(u) /\ Sound(turn[u], Sent(u), Waiting(u))
  BY SentType
<1>2. CASE Waiting(u) = {}
  <2>1. Sent(u)' = Sent(u) /\ Waiting(u)' = Waiting(u)
    BY <1>2 DEF Sent
  <2>2. Queued(u)'
    BY <1>1, <1>2, <2>1 DEF Queued
  <2> QED BY <1>1, <2>1, <2>2
<1>3. ASSUME NEW i \in Waiting(u)
      PROVE  Queued(u)' /\ Sound(turn'[u], Sent(u)', Waiting(u)')
  <2>1. PICK j : Waiting(u)' = {j} /\ calls'[j].audio = calls[i].audio
    OBVIOUS
  <2>2. (CHOOSE k \in Waiting(u)' : TRUE) = j
    BY <2>1
  <2>3. Sent(u)' = Len(played[u]) + Len(calls[i].audio)
    BY <2>1, <2>2 DEF Sent
  <2>4. Sent(u)' = Sent(u)
    BY <2>3, SentType
  <2>5. Queued(u)'
    BY <1>1, <2>1 DEF Queued
  <2>6. Sound(turn[u], Sent(u), Waiting(u)')
    BY <1>1, <2>1 DEF Sound
  <2> QED BY <2>4, <2>5, <2>6
<1> QED BY <1>2, <1>3

LEMMA PlayStep ==
  ASSUME IInv, NEW t \in Turns, Play(t)
  PROVE  IInv'
<1> DEFINE r == turn[t]
           n == Sent(t)
           w == Waiting(t)
<1>1. /\ r \in TurnRecords /\ n \in Nat /\ Sound(r, n, w) /\ turn \in [Turns -> TurnRecords]
      /\ calls \in Seq([turn : Turns, audio : Seq(Tokens)])
  BY SentType DEF IInv, TypeOK
<1>2. /\ r.state = "answering" /\ r.call = "none" /\ r.audio # <<>>
      /\ UNCHANGED <<played, coreUp>>
  BY DEF Play
<1>3. r.stream # "destroyed" /\ w = {} /\ Line(r, n) /\ Shape(r)
  BY <1>1, <1>2 DEF Sound, Shape
<1>4. CASE ~coreUp
  <2>1. turn' = [turn EXCEPT ![t] = Abandoned(r)] /\ UNCHANGED calls
    BY <1>1, <1>4 DEF Play
  <2>2. Abandoned(r) \in TurnRecords /\ Sound(Abandoned(r), n, w)
    BY <1>1, <1>3, AbandonedSound
  <2> QED BY <1>2, <2>1, <2>2, LocalStep
<1>5. CASE coreUp
  <2> DEFINE q == [r EXCEPT !.call = "asked", !.audio = <<>>]
             call == [turn |-> t, audio |-> r.audio]
             last == Len(calls) + 1
  <2>1. calls' = Append(calls, call) /\ turn' = [turn EXCEPT ![t] = q]
    BY <1>1, <1>5 DEF Play
  <2>2. /\ q.heard = r.heard /\ q.call = "asked" /\ q.audio = <<>> /\ q.synth = r.synth
        /\ q.buffer = r.buffer /\ q.stream = r.stream /\ q.producer = r.producer
        /\ q.state = r.state
    BY <1>1 DEF TurnRecords
  <2>3. q \in TurnRecords
    BY <1>1, FollowsNone DEF TurnRecords, Calls
  <2>4. /\ call \in [turn : Turns, audio : Seq(Tokens)]
        /\ call.turn = t /\ call.audio = r.audio
    BY <1>1, Fields
  <2> HIDE DEF q, call
  <2>5. /\ calls' \in Seq([turn : Turns, audio : Seq(Tokens)])
        /\ Len(calls') = last /\ Len(calls) \in Nat /\ calls'[last] = call
        /\ \A i \in 1..Len(calls) : calls'[i] = calls[i]
    BY <1>1, <2>1, <2>4, AppendProperties, LenProperties
  <2>6. TypeOK'
    BY <1>1, <1>2, <2>1, <2>3, <2>5 DEF IInv, TypeOK
  <2>7. ASSUME NEW u \in Turns \ {t}
        PROVE  Queued(u)' /\ Sound(turn'[u], Sent(u)', Waiting(u)')
    <3>1. turn'[u] = turn[u] /\ played'[u] = played[u]
      BY <1>1, <1>2, <2>1
    <3>2. Waiting(u)' = Waiting(u)
      BY <2>4, <2>5 DEF Waiting
    <3>3. ASSUME NEW i \in Waiting(u)
          PROVE  Waiting(u)' = {i} /\ calls'[i].audio = calls[i].audio
      <4>1. i \in 1..Len(calls)
        BY DEF Waiting
      <4> QED BY <2>5, <3>2, <4>1, SentType
    <3> QED BY <3>1, <3>2, <3>3, Elsewhere
  <2>8. Queued(t)' /\ Sound(turn'[t], Sent(t)', Waiting(t)')
    <3>1. turn'[t] = q /\ played'[t] = played[t]
      BY <1>1, <1>2, <2>1
    <3>2. Waiting(t)' = {last}
      <4>1. last \in Waiting(t)'
        BY <2>4, <2>5 DEF Waiting
      <4>2. ASSUME NEW i \in Waiting(t)', i # last PROVE FALSE
        <5>1. i \in 1..Len(calls) /\ calls'[i].turn = t
          BY <2>5, <4>2 DEF Waiting
        <5>2. i \in Waiting(t)
          BY <2>5, <5>1 DEF Waiting
        <5> QED BY <1>3, <5>2
      <4> QED BY <4>1, <4>2
    <3>3. n = Len(played[t])
      BY <1>3, SentType
    <3>4. Sent(t)' = n + Len(r.audio)
      <4>1. (CHOOSE k \in Waiting(t)' : TRUE) = last
        BY <3>2
      <4>2. Sent(t)' = Len(played'[t]) + Len(calls'[last].audio)
        BY <3>2, <4>1 DEF Sent
      <4> QED BY <2>4, <2>5, <3>1, <3>3, <4>2
    <3>5. Queued(t)'
      <4>1. Follows(played[t], 0) /\ Follows(r.audio, Len(played[t]))
        BY <1>3, <3>3, SentType DEF Queued, Line
      <4> QED BY <2>4, <2>5, <3>1, <3>2, <4>1 DEF Queued
    <3>6. Shape(q)
      BY <1>2, <1>3, <2>2 DEF Shape
    <3>7. Line(q, n + Len(r.audio))
      <4> DEFINE m == n + Len(r.audio)
      <4>1. m \in Nat /\ Len(<<>>) = 0 /\ m + 0 = m
        BY <1>1, Fields, FollowsNone
      <4>2. Follows(<<>>, m)
        BY <4>1, FollowsNone
      <4> HIDE DEF m
      <4>3. /\ r.producer \in {"none", "reading"} =>
                  Follows(r.buffer, m) /\ r.heard = m + Len(r.buffer)
            /\ r.producer \in {"sentence", "flush"} =>
                  Follows(r.synth, m) /\ r.heard = m + Len(r.synth)
            /\ r.producer = "ended" => r.heard = m
        BY <1>3 DEF Line, m
      <4>4. Line(q, m)
        BY <2>2, <4>1, <4>2, <4>3 DEF Line
      <4> QED BY <4>4 DEF m
    <3>8. Sound(q, n + Len(r.audio), {last})
      BY <2>2, <3>6, <3>7 DEF Sound
    <3> QED BY <3>1, <3>2, <3>4, <3>5, <3>8
  <2> QED BY <2>6, <2>7, <2>8 DEF IInv
<1> QED BY <1>4, <1>5

\* Core handles the call at the head: every other moves up one place.
LEMMA PlayAudioStep ==
  ASSUME IInv, PlayAudio
  PROVE  IInv'
<1> DEFINE CallRecords == [turn : Turns, audio : Seq(Tokens)]
<1>1. /\ turn \in [Turns -> TurnRecords] /\ calls \in Seq(CallRecords)
      /\ played \in [Turns -> Seq(Tokens)] /\ coreUp \in BOOLEAN
  BY DEF IInv, TypeOK
<1>2. PICK call : call = Head(calls)
  OBVIOUS
<1> DEFINE t == call.turn
           r == turn[t]
<1>3. /\ calls # <<>> /\ calls' = Tail(calls) /\ coreUp' = coreUp
      /\ played' = [played EXCEPT ![t] = @ \o call.audio]
      /\ turn' = IF r.call = "asked" THEN [turn EXCEPT ![t].call = "answered"] ELSE turn
  BY <1>2 DEF PlayAudio
<1> HIDE DEF CallRecords
<1>4. /\ call \in CallRecords /\ call = calls[1] /\ Len(calls) \in Nat /\ Len(calls) >= 1
      /\ calls' \in Seq(CallRecords) /\ Len(calls') = Len(calls) - 1
      /\ \A i \in 1..Len(calls') : calls'[i] = calls[i + 1]
  <2>1. /\ Head(calls) \in CallRecords /\ Head(calls) = calls[1]
        /\ Tail(calls) \in Seq(CallRecords) /\ Len(Tail(calls)) = Len(calls) - 1
        /\ \A i \in 1..Len(Tail(calls)) : Tail(calls)[i] = calls[i + 1]
    BY <1>1, <1>3, HeadTailProperties
  <2>2. Len(calls) \in Nat /\ Len(calls) # 0
    BY <1>1, <1>3, LenProperties, EmptySeq
  <2> QED BY <1>2, <1>3, <2>1, <2>2
<1>5. t \in Turns /\ call.audio \in Seq(Tokens)
  BY <1>4 DEF CallRecords
<1>6. 1 \in Waiting(t)
  BY <1>4 DEF Waiting
<1>7. /\ Waiting(t) = {1} /\ Sent(t) = Len(played[t]) + Len(call.audio)
      /\ r \in TurnRecords /\ Sound(r, Sent(t), {1}) /\ Queued(t)
      /\ played[t] \in Seq(Tokens)
  BY <1>4, <1>5, <1>6, SentType
<1>8. /\ played[t] \o call.audio \in Seq(Tokens)
      /\ Len(played[t] \o call.audio) = Sent(t)
      /\ Follows(played[t] \o call.audio, 0)
  <2>1. Follows(played[t], 0) /\ Follows(call.audio, 0 + Len(played[t]))
    <3>1. 0 + Len(played[t]) = Len(played[t])
      BY <1>7, LenProperties
    <3> QED BY <1>4, <1>6, <1>7, <3>1 DEF Queued
  <2> QED BY <1>5, <1>7, <2>1, FollowsConcat
<1>9. ASSUME NEW u \in Turns
      PROVE  Waiting(u)' = {i - 1 : i \in Waiting(u) \ {1}}
  <2>1. ASSUME NEW i \in Waiting(u) \ {1} PROVE i - 1 \in Waiting(u)'
    <3>1. i - 1 \in 1..Len(calls') /\ calls'[i - 1] = calls[(i - 1) + 1] /\ (i - 1) + 1 = i
      BY <1>4, <2>1 DEF Waiting
    <3> QED BY <2>1, <3>1 DEF Waiting
  <2>2. ASSUME NEW j \in Waiting(u)'
        PROVE  j \in {i - 1 : i \in Waiting(u) \ {1}}
    <3>1. j \in 1..Len(calls') /\ calls'[j] = calls[j + 1] /\ calls'[j].turn = u
      BY <1>4, <2>2 DEF Waiting
    <3>2. j + 1 \in Waiting(u) \ {1} /\ (j + 1) - 1 = j
      BY <1>4, <3>1 DEF Waiting
    <3> QED BY <3>2
  <2> QED BY <2>1, <2>2
<1>10. ASSUME NEW u \in Turns \ {t}
      PROVE  Queued(u)' /\ Sound(turn'[u], Sent(u)', Waiting(u)')
  <2>1. turn'[u] = turn[u] /\ played'[u] = played[u]
    BY <1>1, <1>3
  <2>2. 1 \notin Waiting(u)
    BY <1>4 DEF Waiting
  <2>3. Waiting(u) = {} => Waiting(u)' = {}
    BY <1>9
  <2>4. ASSUME NEW i \in Waiting(u)
        PROVE  Waiting(u)' = {i - 1} /\ calls'[i - 1].audio = calls[i].audio
    <3>1. Waiting(u) = {i} /\ i # 1 /\ i \in 1..Len(calls)
      BY <2>2, <2>4, SentType DEF Waiting
    <3>2. Waiting(u)' = {i - 1}
      BY <1>9, <3>1
    <3>3. i - 1 \in 1..Len(calls') /\ (i - 1) + 1 = i
      BY <1>4, <3>1
    <3> QED BY <1>4, <3>2, <3>3
  <2> QED BY <2>1, <2>3, <2>4, Elsewhere
<1>11. turn'[t] \in TurnRecords /\ turn' \in [Turns -> TurnRecords]
       /\ Sound(turn'[t], Sent(t), {})
  <2>1. CASE r.call = "asked"
    <3> DEFINE q == [r EXCEPT !.call = "answered"]
    <3>1. turn' = [turn EXCEPT ![t] = q]
      BY <1>1, <1>3, <1>5, <2>1
    <3>2. /\ q.heard = r.heard /\ q.call = "answered" /\ q.audio = r.audio
          /\ q.synth = r.synth /\ q.buffer = r.buffer /\ q.stream = r.stream
          /\ q.producer = r.producer /\ q.state = r.state
      BY <1>7 DEF TurnRecords
    <3>3. q \in TurnRecords
      BY <1>7 DEF TurnRecords, Calls
    <3> HIDE DEF q
    <3>4. turn'[t] = q /\ turn' \in [Turns -> TurnRecords]
      BY <1>1, <1>5, <3>1, <3>3
    <3>5. Shape(q)
      BY <1>7, <2>1, <3>2 DEF Sound, Shape
    <3>6. q.stream # "destroyed" => Line(q, Sent(t))
      BY <1>7, <3>2 DEF Sound, Line
    <3>7. Sound(q, Sent(t), {})
      BY <3>2, <3>5, <3>6 DEF Sound
    <3> QED BY <3>3, <3>4, <3>7
  <2>2. CASE r.call # "asked"
    <3>1. turn' = turn
      BY <1>3, <2>2
    <3>2. r.stream = "destroyed"
      BY <1>7, <2>2 DEF Sound
    <3>3. Sound(r, Sent(t), {})
      BY <1>7, <3>2 DEF Sound
    <3> QED BY <1>1, <1>7, <3>1, <3>3
  <2> QED BY <2>1, <2>2
<1>12. Queued(t)' /\ Sound(turn'[t], Sent(t)', Waiting(t)')
  <2>1. Waiting(t)' = {}
    BY <1>5, <1>7, <1>9
  <2>2. played'[t] = played[t] \o call.audio
    BY <1>1, <1>3, <1>5
  <2>3. Len(played[t] \o call.audio) \in Nat
    BY <1>8, LenProperties
  <2>4. Sent(t)' = Sent(t)
    <3>1. Sent(t)' = Len(played'[t]) + 0
      BY <2>1 DEF Sent
    <3>2. Len(played'[t]) = Sent(t) /\ Len(played'[t]) \in Nat
      BY <1>8, <2>2, <2>3
    <3> QED BY ONLY <3>1, <3>2
  <2>5. Queued(t)'
    BY <1>8, <2>1, <2>2 DEF Queued
  <2> QED BY <1>11, <2>1, <2>4, <2>5
<1>13. TypeOK'
  <2>1. played' \in [Turns -> Seq(Tokens)]
    BY <1>1, <1>3, <1>5, <1>8
  <2>2. calls' \in Seq([turn : Turns, audio : Seq(Tokens)])
    BY <1>4 DEF CallRecords
  <2> QED BY <1>1, <1>3, <1>11, <2>1, <2>2 DEF TypeOK
<1> HIDE DEF t
<1>14. \A u \in Turns : Queued(u)' /\ Sound(turn'[u], Sent(u)', Waiting(u)')
  BY <1>10, <1>12
<1> QED BY <1>13, <1>14 DEF IInv

\* The pipe is gone: every turn that had a call in it fails.
LEMMA CoreExitsStep ==
  ASSUME IInv, CoreExits
  PROVE  IInv'
<1>1. /\ turn \in [Turns -> TurnRecords] /\ played \in [Turns -> Seq(Tokens)]
      /\ calls' = <<>> /\ played' = played /\ coreUp' = FALSE
      /\ turn' = [t \in Turns |->
                    IF turn[t].call = "none" THEN turn[t] ELSE Abandoned(turn[t])]
  BY DEF IInv, TypeOK, CoreExits
<1>2. ASSUME NEW t \in Turns
      PROVE  /\ turn'[t] \in TurnRecords
             /\ Queued(t)' /\ Sound(turn'[t], Sent(t)', Waiting(t)')
  <2>1. /\ turn[t] \in TurnRecords /\ Queued(t) /\ Len(played[t]) \in Nat
        /\ Sound(turn[t], Sent(t), Waiting(t))
    BY SentType
  <2>2. Waiting(t)' = {}
    BY <1>1, FollowsNone DEF Waiting
  <2>3. Sent(t)' = Len(played[t])
    BY <1>1, <2>1, <2>2 DEF Sent
  <2>4. Queued(t)'
    BY <1>1, <2>1, <2>2 DEF Queued
  <2>5. CASE turn[t].call = "none"
    <3>1. turn'[t] = turn[t]
      BY <1>1, <2>5
    <3>2. turn[t].stream # "destroyed" => Waiting(t) = {}
      BY <2>1, <2>5 DEF Sound
    <3>3. turn[t].stream # "destroyed" => Sent(t) = Len(played[t])
      BY <3>2, SentType
    <3>4. Sound(turn[t], Len(played[t]), {})
      BY <2>1, <2>5, <3>2, <3>3 DEF Sound
    <3> QED BY <2>1, <2>2, <2>3, <2>4, <3>1, <3>4
  <2>6. CASE turn[t].call # "none"
    <3>1. turn'[t] = Abandoned(turn[t])
      BY <1>1, <2>6
    <3>2. /\ Abandoned(turn[t]) \in TurnRecords
          /\ Sound(Abandoned(turn[t]), Sent(t)', Waiting(t)')
      BY <2>1, AbandonedSound DEF Sound
    <3> QED BY <2>4, <3>1, <3>2
  <2> QED BY <2>5, <2>6
<1>3. turn' \in [Turns -> TurnRecords]
  BY <1>1, <1>2
<1>4. TypeOK'
  BY <1>1, <1>3, EmptySeq DEF TypeOK
<1> QED BY <1>2, <1>4 DEF IInv

-----------------------------------------------------------------------------
LEMMA InitIInv == Init => IInv
<1> SUFFICES ASSUME Init PROVE IInv
  OBVIOUS
<1>1. /\ turn = [t \in Turns |-> NewTurn("idle")] /\ calls = <<>>
      /\ played = [t \in Turns |-> <<>>] /\ coreUp = TRUE
  BY DEF Init
<1>2. NewTurn("idle") \in TurnRecords /\ Sound(NewTurn("idle"), 0, {})
  BY NewSound
<1>3. TypeOK
  BY <1>1, <1>2, EmptySeq DEF TypeOK
<1>4. ASSUME NEW t \in Turns PROVE Queued(t) /\ Sound(turn[t], Sent(t), Waiting(t))
  <2>1. Waiting(t) = {} /\ played[t] = <<>> /\ turn[t] = NewTurn("idle")
    BY <1>1, FollowsNone DEF Waiting
  <2>2. Sent(t) = 0
    BY <2>1, FollowsNone DEF Sent
  <2>3. Queued(t)
    BY <2>1, FollowsNone DEF Queued
  <2> QED BY <1>2, <2>1, <2>2, <2>3
<1> QED BY <1>3, <1>4 DEF IInv

\* A new Brain and a new Core begin as the first ones did.
LEMMA RestartStep == IInv /\ Restart => IInv'
<1>1. Restart => Init'
  BY DEF Restart, Init
<1>2. Init' => IInv'
  BY InitIInv, PTL
<1> QED BY <1>1, <1>2

LEMMA NextStep == IInv /\ [Next]_vars => IInv'
<1> SUFFICES ASSUME IInv, [Next]_vars PROVE IInv'
  OBVIOUS
<1>1. ASSUME NEW t \in Turns,
             VoiceEnd(t) \/ Transcribed(t) \/ Produce(t) \/ Consume(t)
      PROVE  IInv'
  BY <1>1, VoiceEndStep, TranscribedStep, ProduceStep, PlayStep, AnsweredStep DEF Consume
<1>2. CASE PlayAudio
  BY <1>2, PlayAudioStep
<1>3. CASE CoreExits
  BY <1>3, CoreExitsStep
<1>4. CASE Restart
  BY <1>4, RestartStep
<1>5. CASE UNCHANGED vars
  <2>1. UNCHANGED <<turn, calls, played, coreUp>>
    BY <1>5 DEF vars
  <2>2. TypeOK'
    BY <2>1 DEF IInv, TypeOK
  <2>3. ASSUME NEW t \in Turns
        PROVE  Queued(t)' /\ Sound(turn'[t], Sent(t)', Waiting(t)')
    <3>1. Waiting(t)' = Waiting(t)
      BY <2>1 DEF Waiting
    <3>2. Sent(t)' = Sent(t) /\ Queued(t)' = Queued(t)
      BY <2>1, <3>1 DEF Sent, Queued
    <3> QED BY <2>1, <3>1, <3>2, SentType
  <2> QED BY <2>2, <2>3 DEF IInv
<1> QED BY <1>1, <1>2, <1>3, <1>4, <1>5 DEF Next

LEMMA Inductive == Spec => []IInv
BY InitIInv, NextStep, PTL DEF Spec

\* Every turn stays in the states of its two coroutines, and an answer within the
\* max_tokens of the request (LLM provider, synthesizeStreaming, processUtterance).
THEOREM TurnsTypeCorrect == Spec => []TypeOK
<1>1. IInv => TypeOK
  BY DEF IInv
<1> QED BY <1>1, Inductive, PTL

\* However turns overlap, calls reject and Core or the Brain ends, what
\* handlePlayAudio has been given of an answer is a beginning of that answer, in
\* order and without a gap.
THEOREM SpeechInOrder == Spec => []SpokenInOrder
<1>1. IInv => SpokenInOrder
  <2> SUFFICES ASSUME IInv, NEW t \in Turns, NEW i \in DOMAIN played[t]
               PROVE  played[t][i] = i
    BY DEF SpokenInOrder
  <2>1. Queued(t) /\ played[t] \in Seq(Tokens)
    BY SentType
  <2>2. i \in 1..Len(played[t])
    BY <2>1, LenProperties
  <2>3. played[t][i] = 0 + i
    BY <2>1, <2>2 DEF Queued, Follows
  <2> QED BY <2>2, <2>3
<1> QED BY <1>1, Inductive, PTL

\* When processUtterance logs that a turn is complete, every token of the answer
\* has been played: none is left in the stream, the synthesis or the pipe.
THEOREM CompleteIsSpoken == Spec => []CompleteMeansSpoken
<1>1. IInv => CompleteMeansSpoken
  <2> SUFFICES ASSUME IInv, NEW t \in Turns, turn[t].state = "complete"
               PROVE  Len(played[t]) = turn[t].heard
    BY DEF CompleteMeansSpoken
  <2>1. /\ Sound(turn[t], Sent(t), Waiting(t)) /\ Len(played[t]) \in Nat
        /\ Waiting(t) = {} => Sent(t) = Len(played[t])
    BY SentType
  <2>2. /\ turn[t].stream = "ended" /\ turn[t].producer = "ended"
        /\ turn[t].audio = <<>> /\ turn[t].call = "none"
    BY <2>1 DEF Sound, Shape
  <2>3. Waiting(t) = {} /\ turn[t].heard = Sent(t) + Len(turn[t].audio)
    BY <2>1, <2>2 DEF Sound, Line
  <2>4. Len(turn[t].audio) = 0
    BY <2>2, FollowsNone
  <2> QED BY <2>1, <2>3, <2>4
<1> QED BY <1>1, Inductive, PTL
=============================================================================
