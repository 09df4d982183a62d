-------------------------- MODULE VoicePathProofs --------------------------
(***************************************************************************)
(* Proofs about the voice path, for every cap of the accumulator and every *)
(* number of chunks: the accumulator stays consistent and bounded, and no  *)
(* chunk is sent to the Brain twice or out of order.  At the end, the      *)
(* endpoint its audio goes through, AudioServer, for any set of sockets.   *)
(***************************************************************************)
EXTENDS VoicePath, AudioServer, SequenceTheorems, TLAPS

\* The inductive invariant is the conjunction of the invariants of the runs:
\* AudioInOrder needs the types of the queues, and that the accumulator is
\* non-empty when it is flushed.
IInv == TypeOK /\ AccumulatorConsistent /\ AudioInOrder

\* What a broken link leaves of an ordered queue is a prefix of it.
LEMMA TruncatedKeeps ==
  ASSUME NEW S, NEW q \in Seq(S), NEW r, Truncated(q, r)
  PROVE  /\ r \in Seq(S) /\ Len(r) <= Len(q)
         /\ \A i \in 1..Len(r) : i \in 1..Len(q) /\ r[i] = q[i]
<1>1. PICK n \in 0..Len(q) : r = SubSeq(q, 1, n)
  BY DEF Truncated
<1>2. QED BY <1>1

LEMMA SeqInt == ASSUME NEW q \in Seq(1..MaxSpoken) PROVE q \in Seq(Int)
<1>1. 1..MaxSpoken \subseteq Int
  BY VoiceAssumption
<1>2. QED BY <1>1, SeqMonotonic

\* The node appends only chunks later than all it ever sent.
LEMMA AppendIncreasing ==
  ASSUME NEW q \in Seq(Int), NEW x \in Int, Increasing(q),
         \A i \in 1..Len(q) : q[i] < x
  PROVE  /\ Append(q, x) \in Seq(Int)
         /\ Increasing(Append(q, x))
         /\ Len(Append(q, x)) = Len(q) + 1
         /\ \A i \in 1..Len(q) : Append(q, x)[i] = q[i]
         /\ Append(q, x)[Len(q) + 1] = x
<1>1. /\ Append(q, x) \in Seq(Int) /\ Len(Append(q, x)) = Len(q) + 1 /\ Len(q) \in Nat
      /\ \A i \in 1..Len(q) : Append(q, x)[i] = q[i]
      /\ Append(q, x)[Len(q) + 1] = x
  OBVIOUS
<1>2. ASSUME NEW i \in 1..(Len(q) + 1), NEW j \in 1..(Len(q) + 1), i < j
      PROVE  Append(q, x)[i] < Append(q, x)[j]
  <2>1. i \in 1..Len(q) /\ (j \in 1..Len(q) \/ j = Len(q) + 1)
    BY <1>1, <1>2
  <2> QED BY <1>1, <1>2, <2>1 DEF Increasing
<1> QED BY <1>1, <1>2 DEF Increasing

LEMMA TailIncreasing ==
  ASSUME NEW q \in Seq(Int), q # <<>>, Increasing(q)
  PROVE  /\ Increasing(Tail(q))
         /\ Len(Tail(q)) = Len(q) - 1
         /\ Head(q) = q[1]
         /\ \A i \in 1..Len(Tail(q)) :
              i + 1 \in 1..Len(q) /\ Tail(q)[i] = q[i + 1] /\ Head(q) < Tail(q)[i]
BY DEF Increasing

-----------------------------------------------------------------------------
\* Type correctness, action by action.

LEMMA PublishType ==
  ASSUME TypeOK, NEW started, NEW ended, publish_vad(started, ended)
  PROVE  triggers' \in Seq(Triggers) /\ published' \in Triggers \cup {"none"}
<1> DEFINE s == IF started THEN <<"start">> ELSE <<>>
           e == IF ended THEN <<"end">> ELSE <<>>
<1>1. s \in Seq(Triggers) /\ e \in Seq(Triggers)
  <2>1. <<>> \in Seq(Triggers)
    BY EmptySeq
  <2>2. <<"start">> \in Seq(Triggers) /\ <<"end">> \in Seq(Triggers)
    BY DEF Triggers
  <2> QED BY <2>1, <2>2
<1>2. triggers' = (triggers \o s) \o e
  BY DEF publish_vad
<1>3. triggers' \in Seq(Triggers)
  <2> HIDE DEF s, e
  <2> QED BY <1>1, <1>2, ConcatProperties DEF TypeOK
<1>4. published' \in Triggers \cup {"none"}
  BY DEF publish_vad, TypeOK, Triggers
<1>5. QED BY <1>3, <1>4

LEMMA TypeNode ==
  ASSUME TypeOK, NEW speaking \in BOOLEAN, NodeLoopWithAudio(speaking)
  PROVE  TypeOK'
<1> DEFINE started == speaking /\ ~vadActive /\ mqttUp
           ended   == reported /\ ~speaking /\ mqttUp
<1>1. spoken' \in 1..MaxSpoken /\ spoken' \in 0..MaxSpoken
  BY VoiceAssumption DEF NodeLoopWithAudio, TypeOK
<1>2. audio' \in Seq(1..MaxSpoken)
  <2>1. audio' = audio \/ audio' = Append(audio, spoken')
    BY DEF NodeLoopWithAudio, ws_audio_send
  <2>2. audio \in Seq(1..MaxSpoken) /\ spoken' \in 1..MaxSpoken
    BY <1>1 DEF TypeOK
  <2>3. ASSUME NEW q \in Seq(1..MaxSpoken), NEW x \in 1..MaxSpoken
        PROVE  Append(q, x) \in Seq(1..MaxSpoken)
    BY AppendProperties
  <2>4. QED BY <2>1, <2>2, <2>3
<1>3. publish_vad(started, ended)
  BY DEF NodeLoopWithAudio
<1>4. triggers' \in Seq(Triggers) /\ published' \in Triggers \cup {"none"}
  BY <1>3, PublishType
<1>5. vadActive' = speaking /\ reported' = ((reported \/ started) /\ ~ended)
  BY DEF NodeLoopWithAudio
<1>6. vadActive' \in BOOLEAN /\ reported' \in BOOLEAN
  BY ONLY <1>5, speaking \in BOOLEAN
<1>7. UNCHANGED <<wsUp, mqttUp, coreMode, audioChunks, isAccumulating, flushed>>
  BY DEF NodeLoopWithAudio, linkVars, accVars, outVars
<1>8. QED
  BY <1>1, <1>2, <1>4, <1>6, <1>7 DEF TypeOK

LEMMA ChunksType ==
  ASSUME TypeOK, audio # <<>>
  PROVE  /\ Tail(audio) \in Seq(1..MaxSpoken)
         /\ Append(audioChunks, Head(audio)) \in Seq(1..MaxSpoken)
         /\ Append(audioChunks, Head(audio)) # <<>>
<1>1. Head(audio) \in 1..MaxSpoken /\ Tail(audio) \in Seq(1..MaxSpoken)
  BY HeadTailProperties DEF TypeOK
<1>2. QED BY <1>1, AppendProperties DEF TypeOK

LEMMA FlushType ==
  ASSUME NEW chunks \in Seq(1..MaxSpoken), chunks # <<>>, Flush(chunks)
  PROVE  /\ flushed' \in 0..MaxSpoken /\ audioChunks' \in Seq(1..MaxSpoken)
         /\ audioChunks' = <<>> /\ isAccumulating' = FALSE
         /\ flushed' = chunks[Len(chunks)]
BY VoiceAssumption DEF Flush

LEMMA TypeStep == TypeOK /\ AccumulatorConsistent /\ [Next]_vars => TypeOK'
<1> SUFFICES ASSUME TypeOK, AccumulatorConsistent, [Next]_vars PROVE TypeOK'
  OBVIOUS
<1> USE DEF nodeVars, linkVars, accVars, outVars
<1>1. ASSUME NEW speaking \in BOOLEAN, NodeLoopWithAudio(speaking) PROVE TypeOK'
  BY <1>1, TypeNode
<1>2. CASE NodeLoopIdle
  <2>1. triggers' \in Seq(Triggers) /\ published' \in Triggers \cup {"none"}
    BY <1>2, PublishType DEF NodeLoopIdle
  <2>2. QED BY <1>2, <2>1 DEF NodeLoopIdle, TypeOK
<1>3. CASE NodeReset
  <2>1. audio' \in Seq(1..MaxSpoken)
    BY <1>3, TruncatedKeeps DEF NodeReset, TypeOK
  <2>2. QED BY <1>3, <2>1 DEF NodeReset, TypeOK
<1>4. CASE WsConnect \/ MqttConnect
  BY <1>4 DEF WsConnect, MqttConnect, TypeOK
<1>5. CASE WsDisconnect
  <2>1. audio' \in Seq(1..MaxSpoken)
    BY <1>5, TruncatedKeeps DEF WsDisconnect, TypeOK
  <2>2. QED BY <1>5, <2>1 DEF WsDisconnect, TypeOK
<1>6. CASE MqttDisconnect
  <2>1. triggers' \in Seq(Triggers)
    BY <1>6, TruncatedKeeps DEF MqttDisconnect, TypeOK
  <2>2. QED BY <1>6, <2>1 DEF MqttDisconnect, TypeOK
<1>7. CASE CoreModeChange
  BY <1>7 DEF CoreModeChange, TypeOK
<1>8. CASE AudioChunk
  <2> DEFINE chunks == Append(audioChunks, Head(audio))
  <2>1. audio' \in Seq(1..MaxSpoken) /\ chunks \in Seq(1..MaxSpoken) /\ chunks # <<>>
    BY <1>8, ChunksType DEF AudioChunk
  <2>2. /\ flushed' \in 0..MaxSpoken /\ audioChunks' \in Seq(1..MaxSpoken)
        /\ isAccumulating' \in BOOLEAN
    BY <1>8, <2>1, FlushType DEF AudioChunk, TypeOK
  <2>3. QED BY <1>8, <2>1, <2>2 DEF AudioChunk, TypeOK
<1>9. CASE TriggerPipeline
  <2>1. triggers' \in Seq(Triggers)
    BY <1>9 DEF TriggerPipeline, TypeOK
  <2>2. /\ flushed' \in 0..MaxSpoken /\ audioChunks' \in Seq(1..MaxSpoken)
        /\ isAccumulating' \in BOOLEAN
    BY <1>9, FlushType DEF TriggerPipeline, TypeOK, AccumulatorConsistent
  <2>3. QED BY <1>9, <2>1, <2>2 DEF TriggerPipeline, TypeOK
<1>10. CASE UNCHANGED vars
  BY <1>10 DEF vars, TypeOK
<1>11. QED
  BY <1>1, <1>2, <1>3, <1>4, <1>5, <1>6, <1>7, <1>8, <1>9, <1>10 DEF Next

\* Only Core's two handlers touch the accumulator.
LEMMA AccumulatorStep ==
  TypeOK /\ AccumulatorConsistent /\ [Next]_vars => AccumulatorConsistent'
<1> SUFFICES ASSUME TypeOK, AccumulatorConsistent, [Next]_vars
             PROVE  AccumulatorConsistent'
  OBVIOUS
<1>1. CASE AudioChunk
  <2> DEFINE chunks == Append(audioChunks, Head(audio))
  <2>1. /\ chunks \in Seq(1..MaxSpoken) /\ chunks # <<>>
        /\ Len(<<>>) = 0
    BY <1>1, ChunksType DEF AudioChunk
  <2>2. CASE coreMode \in {"active", "listen"} /\ Len(chunks) > MaxAudioChunks
    BY <1>1, <2>1, <2>2, VoiceAssumption DEF AudioChunk, Flush, AccumulatorConsistent
  <2>3. CASE coreMode \in {"active", "listen"} /\ ~(Len(chunks) > MaxAudioChunks)
    BY <1>1, <2>1, <2>3, VoiceAssumption DEF AudioChunk, AccumulatorConsistent
  <2>4. CASE coreMode \notin {"active", "listen"}
    BY <1>1, <2>4 DEF AudioChunk, accVars, AccumulatorConsistent
  <2>5. QED BY <2>2, <2>3, <2>4
<1>2. CASE TriggerPipeline
  <2>1. CASE Stage(Head(triggers)) = "end" /\ isAccumulating
    BY <1>2, <2>1, VoiceAssumption DEF TriggerPipeline, Flush, AccumulatorConsistent
  <2>2. CASE ~(Stage(Head(triggers)) = "end" /\ isAccumulating)
    BY <1>2, <2>2 DEF TriggerPipeline, accVars, AccumulatorConsistent
  <2>3. QED BY <2>1, <2>2
<1>3. CASE UNCHANGED accVars
  BY <1>3 DEF accVars, AccumulatorConsistent
<1>4. QED
  BY <1>1, <1>2, <1>3
  DEF Next, vars, accVars, NodeLoopWithAudio, NodeLoopIdle, NodeReset, WsConnect,
      WsDisconnect, MqttConnect, MqttDisconnect, CoreModeChange

-----------------------------------------------------------------------------
\* The order of the chunks: one lemma for each way a queue changes.

LEMMA OrderUnchanged ==
  ASSUME AudioInOrder, UNCHANGED <<audio, audioChunks, flushed, spoken>>
  PROVE  AudioInOrder'
BY DEF AudioInOrder, Increasing

LEMMA OrderNode ==
  ASSUME IInv, NEW speaking \in BOOLEAN, NodeLoopWithAudio(speaking)
  PROVE  AudioInOrder'
<1>1. /\ spoken \in Nat /\ spoken' = spoken + 1
      /\ UNCHANGED <<audioChunks, flushed>>
      /\ audio' = audio \/ audio' = Append(audio, spoken')
  BY VoiceAssumption DEF IInv, TypeOK, NodeLoopWithAudio, ws_audio_send, accVars
<1>2. /\ audio \in Seq(Int) /\ audioChunks \in Seq(Int) /\ flushed \in Int
      /\ spoken' \in Int
  BY <1>1, SeqInt DEF IInv, TypeOK
<1>3. CASE audio' = audio
  BY <1>1, <1>2, <1>3, ElementOfSeq DEF IInv, AudioInOrder, Increasing
<1>4. CASE audio' = Append(audio, spoken')
  <2>1. \A j \in 1..Len(audio) : audio[j] < spoken'
    BY <1>1, <1>2, ElementOfSeq DEF IInv, AudioInOrder
  <2>2. /\ audio' \in Seq(Int) /\ Increasing(audio')
        /\ Len(audio') = Len(audio) + 1
        /\ \A j \in 1..Len(audio) : audio'[j] = audio[j]
        /\ audio'[Len(audio) + 1] = spoken'
    BY <1>2, <1>4, <2>1, AppendIncreasing DEF IInv, AudioInOrder
  <2>3. \A j \in 1..Len(audio') :
           (j \in 1..Len(audio) /\ audio'[j] = audio[j]) \/ audio'[j] = spoken'
    BY <1>2, <2>2
  <2>4. \A j \in 1..Len(audio') : flushed < audio'[j] /\ audio'[j] <= spoken'
    <3>1. /\ flushed <= spoken
          /\ \A j \in 1..Len(audio) : audio[j] \in Int /\ flushed < audio[j] /\ audio[j] <= spoken
      BY <1>2, ElementOfSeq DEF IInv, AudioInOrder
    <3>2. flushed < spoken' /\ spoken <= spoken' /\ spoken \in Int
      BY <1>1, <1>2, <3>1
    <3> QED BY ONLY <1>2, <2>3, <3>1, <3>2
  <2>5. \A i \in 1..Len(audioChunks), j \in 1..Len(audio') : audioChunks[i] < audio'[j]
    BY <1>1, <1>2, <2>3, ElementOfSeq DEF IInv, AudioInOrder
  <2>6. /\ flushed <= spoken'
        /\ \A i \in 1..Len(audioChunks) :
             flushed < audioChunks[i] /\ audioChunks[i] <= spoken'
    BY <1>1, <1>2, ElementOfSeq DEF IInv, AudioInOrder
  <2>7. QED
    BY <1>1, <2>2, <2>4, <2>5, <2>6 DEF IInv, AudioInOrder, Increasing
<1>5. QED BY <1>1, <1>3, <1>4

LEMMA OrderTruncated ==
  ASSUME IInv, Truncated(audio, audio'), UNCHANGED <<audioChunks, flushed, spoken>>
  PROVE  AudioInOrder'
<1>1. /\ audio' \in Seq(1..MaxSpoken) /\ Len(audio') <= Len(audio)
      /\ \A i \in 1..Len(audio') : i \in 1..Len(audio) /\ audio'[i] = audio[i]
  BY TruncatedKeeps DEF IInv, TypeOK
<1>2. QED BY <1>1 DEF IInv, AudioInOrder, Increasing

\* A flush moves the last buffered chunk to `flushed' and empties the buffer:
\* all that is in flight comes after it.
LEMMA OrderFlush ==
  ASSUME NEW chunks \in Seq(1..MaxSpoken), chunks # <<>>, Increasing(chunks),
         NEW queue \in Seq(1..MaxSpoken), Increasing(queue),
         TypeOK, Flush(chunks), audio' = queue, spoken' = spoken,
         \A i \in 1..Len(chunks) : chunks[i] <= spoken,
         \A j \in 1..Len(queue) : queue[j] <= spoken,
         \A i \in 1..Len(chunks), j \in 1..Len(queue) : chunks[i] < queue[j]
  PROVE  AudioInOrder'
<1>1. Len(chunks) \in 1..Len(chunks)
  BY EmptySeq
<1>2. flushed' = chunks[Len(chunks)] /\ audioChunks' = <<>> /\ Len(<<>>) = 0
  BY DEF Flush
<1>3. QED BY <1>1, <1>2 DEF AudioInOrder, Increasing

LEMMA OrderAudioChunk ==
  ASSUME IInv, AudioChunk
  PROVE  AudioInOrder'
<1> DEFINE chunks == Append(audioChunks, Head(audio))
           queue  == Tail(audio)
<1>1. /\ audio \in Seq(Int) /\ audioChunks \in Seq(Int) /\ audio # <<>>
      /\ spoken \in Int /\ flushed \in Int
  BY VoiceAssumption, SeqInt DEF IInv, TypeOK, AudioChunk
<1>2. /\ Increasing(queue) /\ Len(queue) = Len(audio) - 1 /\ Head(audio) = audio[1]
      /\ 1 \in 1..Len(audio)
      /\ \A j \in 1..Len(queue) : /\ j + 1 \in 1..Len(audio)
                                  /\ queue[j] = audio[j + 1] /\ Head(audio) < queue[j]
  BY <1>1, TailIncreasing, EmptySeq DEF IInv, AudioInOrder
<1>3. Head(audio) \in Int /\ \A i \in 1..Len(audioChunks) : audioChunks[i] < Head(audio)
  BY <1>1, <1>2, ElementOfSeq DEF IInv, AudioInOrder
<1>4. /\ chunks \in Seq(Int) /\ Increasing(chunks)
      /\ Len(chunks) = Len(audioChunks) + 1
      /\ \A i \in 1..Len(audioChunks) : chunks[i] = audioChunks[i]
      /\ chunks[Len(audioChunks) + 1] = Head(audio)
  BY <1>1, <1>3, AppendIncreasing DEF IInv, AudioInOrder
<1>5. \A i \in 1..Len(chunks) :
        \/ i \in 1..Len(audioChunks) /\ chunks[i] = audioChunks[i]
        \/ chunks[i] = Head(audio)
  BY <1>1, <1>4
<1> HIDE DEF chunks, queue
<1>6. \A i \in 1..Len(chunks) : flushed < chunks[i] /\ chunks[i] <= spoken
  BY <1>1, <1>2, <1>5 DEF IInv, AudioInOrder
<1>7. \A j \in 1..Len(queue) : flushed < queue[j] /\ queue[j] <= spoken
  BY <1>1, <1>2 DEF IInv, AudioInOrder
<1>8. \A i \in 1..Len(chunks), j \in 1..Len(queue) : chunks[i] < queue[j]
  BY <1>1, <1>2, <1>5 DEF IInv, AudioInOrder
<1>9. audio' = queue /\ spoken' = spoken
  BY DEF AudioChunk, queue, nodeVars
<1>10. CASE coreMode \in {"active", "listen"} /\ Len(chunks) > MaxAudioChunks
  <2>1. Flush(chunks) /\ TypeOK
    BY <1>10 DEF AudioChunk, chunks, IInv
  <2>2. chunks \in Seq(1..MaxSpoken) /\ chunks # <<>> /\ queue \in Seq(1..MaxSpoken)
    BY <1>1, ChunksType DEF chunks, queue, IInv
  <2>3. QED BY <1>2, <1>4, <1>6, <1>7, <1>8, <1>9, <2>1, <2>2, OrderFlush
<1>11. CASE coreMode \in {"active", "listen"} /\ ~(Len(chunks) > MaxAudioChunks)
  <2>1. audioChunks' = chunks /\ flushed' = flushed
    BY <1>11 DEF AudioChunk, chunks
  <2>2. QED BY <1>2, <1>4, <1>6, <1>7, <1>8, <1>9, <2>1 DEF IInv, AudioInOrder, Increasing
<1>12. CASE coreMode \notin {"active", "listen"}
  <2>1. audioChunks' = audioChunks /\ flushed' = flushed
    BY <1>12 DEF AudioChunk, accVars
  <2>2. \A i \in 1..Len(audioChunks), j \in 1..Len(queue) : audioChunks[i] < queue[j]
    BY <1>1, <1>2 DEF IInv, AudioInOrder
  <2>3. QED BY <1>2, <1>7, <1>9, <2>1, <2>2 DEF IInv, AudioInOrder, Increasing
<1>13. QED BY <1>10, <1>11, <1>12

LEMMA OrderStep == IInv /\ [Next]_vars => AudioInOrder'
<1> SUFFICES ASSUME IInv, [Next]_vars PROVE AudioInOrder'
  OBVIOUS
<1> USE DEF nodeVars, linkVars, accVars, outVars
<1>1. ASSUME NEW speaking \in BOOLEAN, NodeLoopWithAudio(speaking) PROVE AudioInOrder'
  BY <1>1, OrderNode
<1>2. CASE NodeLoopIdle \/ WsConnect \/ MqttConnect \/ MqttDisconnect
           \/ CoreModeChange \/ UNCHANGED vars
  <2>1. UNCHANGED <<audio, audioChunks, flushed, spoken>>
    BY <1>2 DEF NodeLoopIdle, WsConnect, MqttConnect, MqttDisconnect,
                CoreModeChange, vars
  <2>2. QED BY <2>1, OrderUnchanged DEF IInv
<1>3. CASE NodeReset \/ WsDisconnect
  BY <1>3, OrderTruncated DEF NodeReset, WsDisconnect
<1>4. CASE AudioChunk
  BY <1>4, OrderAudioChunk
<1>5. CASE TriggerPipeline
  <2>1. CASE Flush(audioChunks) /\ isAccumulating
    BY <1>5, <2>1, OrderFlush
    DEF TriggerPipeline, IInv, TypeOK, AccumulatorConsistent, AudioInOrder
  <2>2. CASE UNCHANGED accVars
    BY <1>5, <2>2, OrderUnchanged DEF TriggerPipeline, IInv
  <2>3. QED BY <1>5, <2>1, <2>2 DEF TriggerPipeline
<1>6. QED BY <1>1, <1>2, <1>3, <1>4, <1>5 DEF Next

-----------------------------------------------------------------------------
LEMMA InitInv == Init => IInv
<1> SUFFICES ASSUME Init PROVE IInv
  OBVIOUS
<1>1. TypeOK
  <2>1. <<>> \in Seq(1..MaxSpoken) /\ <<>> \in Seq(Triggers)
    BY EmptySeq
  <2>2. 0 \in 0..MaxSpoken
    BY VoiceAssumption
  <2>3. QED BY <2>1, <2>2 DEF Init, TypeOK, CoreModes
<1>2. AccumulatorConsistent /\ AudioInOrder
  BY VoiceAssumption, EmptySeq DEF Init, AccumulatorConsistent, AudioInOrder, Increasing
<1>3. QED BY <1>1, <1>2 DEF IInv

\* The inductive invariant holds in every behaviour.
THEOREM VoiceInvariant == Spec => []IInv
<1>1. IInv /\ [Next]_vars => IInv'
  BY TypeStep, AccumulatorStep, OrderStep DEF IInv
<1>2. QED BY <1>1, InitInv, PTL DEF Spec

\* The queues hold chunks and triggers the node produced.
THEOREM VoiceTypeCorrect == Spec => []TypeOK
<1>1. IInv => TypeOK BY DEF IInv
<1>2. QED BY <1>1, VoiceInvariant, PTL

\* Whatever the order of chunks, triggers and mode changes, the accumulator's
\* flag tells whether its buffer is empty, and the cap holds.
THEOREM AccumulatorSound == Spec => []AccumulatorConsistent
<1>1. IInv => AccumulatorConsistent BY DEF IInv
<1>2. QED BY <1>1, VoiceInvariant, PTL

\* Sent, buffered and travelling chunks are in the order they were spoken.
THEOREM AudioOrdered == Spec => []AudioInOrder
<1>1. IInv => AudioInOrder BY DEF IInv
<1>2. QED BY <1>1, VoiceInvariant, PTL

\* A voice_end has at least one chunk, in order and later than those before it.
Fresh(utterance) ==
  /\ utterance # <<>> /\ Increasing(utterance)
  /\ flushed < utterance[1] /\ utterance[Len(utterance)] = flushed'

LEMMA FlushIsFresh ==
  ASSUME NEW chunks \in Seq(1..MaxSpoken), chunks # <<>>, Increasing(chunks),
         \A i \in 1..Len(chunks) : flushed < chunks[i], Flush(chunks)
  PROVE  /\ toBrain' = <<[event |-> "voice_end", audio |-> chunks]>>
         /\ Fresh(chunks)
<1>1. 1 \in 1..Len(chunks)
  BY EmptySeq
<1>2. QED BY <1>1 DEF Flush, Fresh

LEMMA ChunksAreFresh ==
  ASSUME IInv, audio # <<>>
  PROVE  LET chunks == Append(audioChunks, Head(audio))
         IN  Increasing(chunks) /\ \A i \in 1..Len(chunks) : flushed < chunks[i]
<1> DEFINE chunks == Append(audioChunks, Head(audio))
<1>1. audio \in Seq(Int) /\ audioChunks \in Seq(Int)
  BY SeqInt DEF IInv, TypeOK
<1>2. 1 \in 1..Len(audio) /\ Head(audio) = audio[1] /\ Head(audio) \in Int
  BY <1>1, EmptySeq
<1>3. \A i \in 1..Len(audioChunks) : audioChunks[i] < Head(audio)
  BY <1>2 DEF IInv, AudioInOrder
<1>4. /\ Increasing(chunks) /\ Len(chunks) = Len(audioChunks) + 1
      /\ \A i \in 1..Len(audioChunks) : chunks[i] = audioChunks[i]
      /\ chunks[Len(audioChunks) + 1] = Head(audio)
  BY <1>1, <1>2, <1>3, AppendIncreasing DEF IInv, AudioInOrder
<1>5. \A i \in 1..Len(chunks) :
        \/ i \in 1..Len(audioChunks) /\ chunks[i] = audioChunks[i]
        \/ chunks[i] = Head(audio)
  BY <1>1, <1>4
<1> HIDE DEF chunks
<1>6. \A i \in 1..Len(chunks) : flushed < chunks[i]
  BY <1>2, <1>5 DEF IInv, AudioInOrder
<1> QED BY <1>4, <1>6 DEF chunks

\* What a step may do to the notifications: none, a voice_start, or a voice_end.
LEMMA NotificationStep ==
  ASSUME IInv, Next
  PROVE  \/ toBrain' = toBrain \/ toBrain' = <<>> \/ toBrain' = <<[event |-> "voice_start"]>>
         \/ \E chunks \in Seq(1..MaxSpoken) :
              /\ toBrain' = <<[event |-> "voice_end", audio |-> chunks]>>
              /\ Fresh(chunks)
<1>1. CASE AudioChunk
  <2> DEFINE chunks == Append(audioChunks, Head(audio))
  <2>1. chunks \in Seq(1..MaxSpoken) /\ chunks # <<>>
    BY <1>1, ChunksType DEF AudioChunk, IInv
  <2>2. Increasing(chunks) /\ \A i \in 1..Len(chunks) : flushed < chunks[i]
    BY <1>1, ChunksAreFresh DEF AudioChunk
  <2>3. CASE Flush(chunks)
    <3> HIDE DEF chunks
    <3> QED BY <2>1, <2>2, <2>3, FlushIsFresh
  <2>4. CASE toBrain' = <<>>
    BY <2>4
  <2> QED BY <1>1, <2>3, <2>4 DEF AudioChunk
<1>2. CASE TriggerPipeline
  <2>1. CASE isAccumulating /\ Flush(audioChunks)
    <3>1. /\ audioChunks \in Seq(1..MaxSpoken) /\ audioChunks # <<>> /\ Increasing(audioChunks)
          /\ \A i \in 1..Len(audioChunks) : flushed < audioChunks[i]
      BY <2>1 DEF IInv, TypeOK, AccumulatorConsistent, AudioInOrder
    <3> QED BY <2>1, <3>1, FlushIsFresh
  <2>2. CASE toBrain' = <<>> \/ toBrain' = <<[event |-> "voice_start"]>>
    BY <2>2
  <2> QED BY <1>2, <2>1, <2>2 DEF TriggerPipeline
<1>3. CASE UNCHANGED toBrain
  BY <1>3
<1> QED
  BY <1>1, <1>2, <1>3
  DEF Next, outVars, NodeLoopWithAudio, NodeLoopIdle, NodeReset, WsConnect,
      WsDisconnect, MqttConnect, MqttDisconnect, CoreModeChange

\* Each voice_end that Core sends has audio, and only such as was spoken after
\* that of every one before it, in order (the listeners of audioChunk and of
\* triggerPipeline in core.ts).
THEOREM VoiceEndsFresh == Spec => VoiceEndFresh
<1> DEFINE Ends == \A k \in 1..Len(toBrain') :
                     (toBrain' # toBrain /\ toBrain'[k].event = "voice_end") =>
                        LET utterance == toBrain'[k].audio
                        IN  /\ utterance # <<>> /\ Increasing(utterance)
                            /\ flushed < utterance[1] /\ utterance[Len(utterance)] = flushed'
<1>1. ASSUME IInv, Next PROVE Ends
  <2>1. CASE toBrain' = toBrain \/ toBrain' = <<>>
    BY <2>1, EmptySeq
  <2>2. CASE toBrain' = <<[event |-> "voice_start"]>>
    <3>1. \A k \in 1..Len(toBrain') : toBrain'[k].event = "voice_start"
      BY <2>2
    <3> QED BY <3>1
  <2>3. ASSUME NEW chunks \in Seq(1..MaxSpoken), Fresh(chunks),
               toBrain' = <<[event |-> "voice_end", audio |-> chunks]>>
        PROVE  Ends
    <3>1. \A k \in 1..Len(toBrain') : toBrain'[k].audio = chunks
      BY <2>3
    <3> QED BY <2>3, <3>1 DEF Fresh
  <2> QED BY <1>1, <2>1, <2>2, <2>3, NotificationStep
<1>2. IInv /\ [Next]_vars => [Ends]_vars
  BY <1>1
<1>3. [][Ends]_vars => VoiceEndFresh
  BY PTL DEF VoiceEndFresh
<1> QED BY <1>2, <1>3, VoiceInvariant, PTL DEF Spec

-----------------------------------------------------------------------------
\* AudioServer.

\* The inductive invariant: the invariants of the run, and that only an error
\* event makes a socket failed, which makes Close clear the right connection.
ServerIInv ==
  /\ ServerTypeOK
  /\ ActiveNotEnded
  /\ SingleNodeUntilError
  /\ ~errorSeen => \A s \in Sockets : sock[s] # "failed"

LEMMA ServerInitInv == ServerInit => ServerIInv
<1> SUFFICES ASSUME ServerInit PROVE ServerIInv
  OBVIOUS
<1>1. sock = [s \in Sockets |-> "free"] /\ active = None /\ ~errorSeen
  BY DEF ServerInit
<1>2. ServerTypeOK
  BY DEF ServerInit, ServerTypeOK, SocketStates
<1>3. Accepted = {}
  BY <1>1 DEF Accepted
<1>4. ActiveNotEnded /\ SingleNodeUntilError
  BY <1>1, <1>3 DEF ActiveNotEnded, SingleNodeUntilError
<1> QED
  BY <1>1, <1>2, <1>4 DEF ServerIInv

LEMMA ConnectionKeepsInv ==
  ASSUME NEW s \in Sockets, ServerIInv, Connection(s)
  PROVE  ServerIInv'
<1>1. CASE active # None
  <2>1. sock' = [sock EXCEPT ![s] = "rejected"] /\ active' = active
    BY <1>1 DEF Connection
  <2>2. ServerTypeOK'
    BY <2>1 DEF ServerIInv, ServerTypeOK, Connection, SocketStates
  <2>3. Accepted' = Accepted
    BY <2>1 DEF ServerIInv, ServerTypeOK, Connection, Accepted
  <2> QED
    BY <2>1, <2>2, <2>3
    DEF ServerIInv, ServerTypeOK, Connection, ActiveNotEnded, SingleNodeUntilError
<1>2. CASE active = None
  <2>1. sock' = [sock EXCEPT ![s] = "open"] /\ active' = s
    BY <1>2 DEF Connection
  <2>2. ServerTypeOK'
    BY <2>1 DEF ServerIInv, ServerTypeOK, Connection, SocketStates
  <2>3. Accepted' = Accepted \cup {s}
    BY <2>1 DEF ServerIInv, ServerTypeOK, Accepted
  <2>4. SingleNodeUntilError'
    BY <1>2, <2>1, <2>3, SocketAssumption DEF ServerIInv, Connection, SingleNodeUntilError
  <2> QED
    BY <2>1, <2>2, <2>4 DEF ServerIInv, ServerTypeOK, Connection, ActiveNotEnded, Accepted
<1> QED BY <1>1, <1>2

LEMMA CloseKeepsInv ==
  ASSUME NEW s \in Sockets, ServerIInv, Close(s)
  PROVE  ServerIInv'
<1>1. ServerTypeOK'
  BY DEF ServerIInv, ServerTypeOK, Close, NodeForgets, SocketStates
<1>2. Accepted' = Accepted \ {s}
  BY DEF ServerIInv, ServerTypeOK, Close, Accepted
<1>3. ActiveNotEnded'
  BY DEF ServerIInv, ServerTypeOK, Close, ActiveNotEnded, Accepted
<1>4. ASSUME ~errorSeen PROVE Accepted' = {active'} \ {None}
  <2>1. Accepted = {active} \ {None}
    BY <1>4 DEF ServerIInv, SingleNodeUntilError
  <2>2. CASE sock[s] = "rejected"
    BY <1>2, <2>1, <2>2 DEF Close, Accepted
  <2>3. CASE sock[s] \in {"open", "closing"}
    BY <1>2, <2>1, <2>3 DEF Close, Accepted
  <2> QED
    BY <1>4, <2>2, <2>3 DEF ServerIInv, ServerTypeOK, Close, SocketStates
<1> QED
  BY <1>1, <1>3, <1>4 DEF ServerIInv, ServerTypeOK, Close, SingleNodeUntilError

LEMMA ClosingKeepsInv ==
  ASSUME NEW s \in Sockets, ServerIInv, Closing(s)
  PROVE  ServerIInv'
<1>1. ServerTypeOK'
  BY DEF ServerIInv, ServerTypeOK, Closing, NodeForgets, SocketStates
<1>2. Accepted' = Accepted
  BY DEF ServerIInv, ServerTypeOK, Closing, Accepted
<1> QED
  BY <1>1, <1>2
  DEF ServerIInv, ServerTypeOK, Closing, ActiveNotEnded, SingleNodeUntilError

LEMMA ErrorKeepsInv ==
  ASSUME NEW s \in Sockets, ServerIInv, Error(s)
  PROVE  ServerIInv'
<1>1. ServerTypeOK'
  BY DEF ServerIInv, ServerTypeOK, Error, NodeForgets, SocketStates
<1> QED
  BY <1>1 DEF ServerIInv, Error, ActiveNotEnded, SingleNodeUntilError

LEMMA ServerStepKeepsInv == ServerIInv /\ [ServerNext]_serverVars => ServerIInv'
<1> SUFFICES ASSUME ServerIInv, [ServerNext]_serverVars PROVE ServerIInv'
  OBVIOUS
<1>1. ASSUME NEW s \in Sockets, Connection(s) PROVE ServerIInv'
  BY <1>1, ConnectionKeepsInv
<1>2. ASSUME NEW s \in Sockets, Close(s) PROVE ServerIInv'
  BY <1>2, CloseKeepsInv
<1>3. ASSUME NEW s \in Sockets, Error(s) PROVE ServerIInv'
  BY <1>3, ErrorKeepsInv
<1>8. ASSUME NEW s \in Sockets, Closing(s) PROVE ServerIInv'
  BY <1>8, ClosingKeepsInv
<1>4. ASSUME NEW s \in Sockets, NEW frame \in Frames, Message(s, frame) PROVE ServerIInv'
  <2>1. Route(frame) \in {"none", "cameraFrame", "audioChunk"}
    BY DEF Route, Frames
  <2> QED
    BY <1>4, <2>1
    DEF Message, ServerIInv, ServerTypeOK, ActiveNotEnded, SingleNodeUntilError, Accepted
<1>5. ASSUME NEW quietly \in BOOLEAN, NodeLost(quietly) PROVE ServerIInv'
  BY <1>5 DEF NodeLost, ServerIInv, ServerTypeOK, ActiveNotEnded, SingleNodeUntilError, Accepted
<1>6. CASE SendAudio
  BY <1>6 DEF SendAudio, ServerIInv, ServerTypeOK, ActiveNotEnded, SingleNodeUntilError, Accepted
<1>7. CASE UNCHANGED serverVars
  BY <1>7 DEF serverVars, ServerIInv, ServerTypeOK, ActiveNotEnded, SingleNodeUntilError, Accepted
<1> QED
  BY <1>1, <1>2, <1>3, <1>4, <1>5, <1>6, <1>7, <1>8 DEF ServerNext

\* The inductive invariant holds in every behaviour.
THEOREM ServerInvariant == ServerSpec => []ServerIInv
<1>1. QED BY ServerInitInv, ServerStepKeepsInv, PTL DEF ServerSpec

\* What the server knows of its sockets always has its type.
THEOREM ServerTypeCorrect == ServerSpec => []ServerTypeOK
<1>1. ServerIInv => ServerTypeOK BY DEF ServerIInv
<1>2. QED BY <1>1, ServerInvariant, PTL

\* The active connection is an accepted one whose end was not announced, after
\* any sequence of errors, closes, refusals and reconnections.
THEOREM ActiveConnectionNotEnded == ServerSpec => []ActiveNotEnded
<1>1. ServerIInv => ActiveNotEnded BY DEF ServerIInv
<1>2. QED BY <1>1, ServerInvariant, PTL

\* Until a connection ends with an error, the one accepted connection is the active
\* one, however many nodes try to connect.
THEOREM OneNodeUntilError == ServerSpec => []SingleNodeUntilError
<1>1. ServerIInv => SingleNodeUntilError BY DEF ServerIInv
<1>2. QED BY <1>1, ServerInvariant, PTL
=============================================================================
