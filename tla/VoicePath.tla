----------------------------- MODULE VoicePath -----------------------------
(***************************************************************************)
(* The way of an utterance from the microphone to the Brain: the loop of   *)
(* the node base (firmware/src/main.cpp) decides by VAD when somebody      *)
(* speaks, sends the PCM chunks over the WebSocket and the start and end   *)
(* of the utterance over MQTT, and Core's AudioAccumulator (harness/src/   *)
(* core.ts) collects the chunks until the end trigger, or until the cap,   *)
(* and notifies the Brain with voice_end.                                  *)
(*                                                                         *)
(* The two links are ordered each, not with respect to each other, and     *)
(* either can go down and lose what is in flight (MQTT publishes with      *)
(* QoS 0).  A chunk is the number under which it was spoken: numbers only  *)
(* grow, so they tell a lost chunk from a repeated or a reordered one.     *)
(***************************************************************************)
EXTENDS Integers, Sequences

CONSTANTS
  MaxAudioChunks,   \* MAX_AUDIO_BYTES, in chunks
  MaxSpoken         \* bound: the chunks spoken in a behaviour

ASSUME VoiceAssumption ==
  /\ MaxAudioChunks \in Nat
  /\ MaxSpoken \in Nat

CoreModes == {"sleep", "listen", "active", "record"}
Triggers  == {"start", "end"}

VARIABLES
  vadActive,      \* s_active of vad.cpp, last_vad_active of main.cpp
  reported,       \* vad_is_active: a start was published, its end was not
  spoken,         \* the chunks the microphone has produced so far
  wsUp, mqttUp,   \* the node's links
  audio,          \* PCM chunks in flight on the WebSocket
  triggers,       \* trigger_pipeline messages in flight on MQTT
  coreMode,       \* ModeManager.getMode()
  audioChunks,    \* AudioAccumulator
  isAccumulating,
  toBrain,        \* notifications the last Core step sent to the Brain
  skillEvents,    \* skill events the last Core step raised
  flushed,        \* history: the last chunk that went out in a voice_end
  published       \* history: the trigger the node published last

nodeVars == <<vadActive, reported, spoken, published>>
linkVars == <<wsUp, mqttUp>>
accVars  == <<audioChunks, isAccumulating, flushed>>
outVars  == <<toBrain, skillEvents>>
vars == <<vadActive, reported, spoken, wsUp, mqttUp, audio, triggers, coreMode,
          audioChunks, isAccumulating, toBrain, skillEvents, flushed, published>>

Init ==
  /\ vadActive = FALSE /\ reported = FALSE /\ spoken = 0
  /\ wsUp = FALSE /\ mqttUp = FALSE
  /\ audio = <<>> /\ triggers = <<>>
  /\ coreMode = "sleep"
  /\ audioChunks = <<>> /\ isAccumulating = FALSE
  /\ toBrain = <<>> /\ skillEvents = <<>>
  /\ flushed = 0 /\ published = "none"

\* A broken link loses some of the last messages in flight.
Truncated(before, after) == \E n \in 0..Len(before) : after = SubSeq(before, 1, n)

-----------------------------------------------------------------------------
\* The node base: one pass through loop().

\* ws_audio_send: a chunk is dropped while the WebSocket is down.
ws_audio_send(chunk) == audio' = IF wsUp THEN Append(audio, chunk) ELSE audio

\* publish_vad(true) and the end publication of one pass, in that order.
publish_vad(started, ended) ==
  /\ triggers' = triggers \o (IF started THEN <<"start">> ELSE <<>>)
                          \o (IF ended THEN <<"end">> ELSE <<>>)
  /\ published' = IF ended THEN "end" ELSE IF started THEN "start" ELSE published

\* Mutant: the end is dropped, like the start, if MQTT is down at that moment.
MutantNodeLoopWithAudio(active) ==
  LET started == active /\ ~vadActive /\ mqttUp
      ended   == reported /\ ~active /\ mqttUp
  IN  /\ spoken < MaxSpoken
      /\ spoken' = spoken + 1
      /\ vadActive' = active
      /\ reported' = ((reported \/ started) /\ active)
      /\ publish_vad(started, ended)
      /\ IF active THEN ws_audio_send(spoken') ELSE UNCHANGED audio
      /\ UNCHANGED <<linkVars, coreMode, accVars, outVars>>

\* A pass in which the microphone delivered a chunk whose level makes VAD
\* `active'.  The start is published on the VAD transition only, and never
\* later if MQTT is down at that moment; the end waits for MQTT.
NodeLoopWithAudio(active) ==
  LET started == active /\ ~vadActive /\ mqttUp
      ended   == reported /\ ~active /\ mqttUp
  IN  /\ spoken < MaxSpoken
      /\ spoken' = spoken + 1
      /\ vadActive' = active
      /\ reported' = ((reported \/ started) /\ ~ended)
      /\ publish_vad(started, ended)
      /\ IF active THEN ws_audio_send(spoken') ELSE UNCHANGED audio
      /\ UNCHANGED <<linkVars, coreMode, accVars, outVars>>

\* A pass without a chunk: a pending end goes out once MQTT is back.
NodeLoopIdle ==
  /\ reported /\ ~vadActive /\ mqttUp
  /\ reported' = FALSE
  /\ publish_vad(FALSE, TRUE)
  /\ UNCHANGED <<vadActive, spoken, linkVars, audio, coreMode, accVars, outVars>>

\* The node restarts: its links and its VAD state are gone.
NodeReset ==
  /\ vadActive' = FALSE /\ reported' = FALSE
  /\ wsUp' = FALSE /\ mqttUp' = FALSE
  /\ Truncated(audio, audio')
  /\ published' = "none"
  /\ UNCHANGED <<spoken, triggers, coreMode, accVars, outVars>>

-----------------------------------------------------------------------------
\* The links.

WsConnect == ~wsUp /\ wsUp' = TRUE
             /\ UNCHANGED <<nodeVars, mqttUp, audio, triggers, coreMode, accVars, outVars>>

WsDisconnect == /\ wsUp /\ wsUp' = FALSE /\ Truncated(audio, audio')
                /\ UNCHANGED <<nodeVars, mqttUp, triggers, coreMode, accVars, outVars>>

MqttConnect == ~mqttUp /\ mqttUp' = TRUE
               /\ UNCHANGED <<nodeVars, wsUp, audio, triggers, coreMode, accVars, outVars>>

MqttDisconnect == /\ mqttUp /\ mqttUp' = FALSE
                  /\ Truncated(triggers, triggers')
                  /\ UNCHANGED <<nodeVars, wsUp, audio, coreMode, accVars, outVars>>

-----------------------------------------------------------------------------
\* Core.

\* Mode changes come from ModeManager at any time, and touch no audio.
CoreModeChange ==
  /\ coreMode' \in CoreModes \ {coreMode}
  /\ UNCHANGED <<nodeVars, linkVars, audio, triggers, accVars, outVars>>

\* Mutants: the flag stays on; the buffer is kept; the first chunk is not sent.
MutantFlushFlag(chunks) ==
  /\ toBrain' = <<[event |-> "voice_end", audio |-> chunks]>>
  /\ flushed' = chunks[Len(chunks)]
  /\ audioChunks' = <<>>
  /\ isAccumulating' = TRUE

MutantFlushKeeps(chunks) ==
  /\ toBrain' = <<[event |-> "voice_end", audio |-> chunks]>>
  /\ flushed' = chunks[Len(chunks)]
  /\ audioChunks' = chunks
  /\ isAccumulating' = TRUE

MutantFlushSkips(chunks) ==
  /\ toBrain' = <<[event |-> "voice_end", audio |-> Tail(chunks)]>>
  /\ flushed' = chunks[Len(chunks)]
  /\ audioChunks' = <<>>
  /\ isAccumulating' = FALSE

\* Send what is buffered in a voice_end notification and empty the buffer.
Flush(chunks) ==
  /\ toBrain' = <<[event |-> "voice_end", audio |-> chunks]>>
  /\ flushed' = chunks[Len(chunks)]
  /\ audioChunks' = <<>>
  /\ isAccumulating' = FALSE

\* audioServer.on("audioChunk"): the mode is read when the chunk arrives.
AudioChunk ==
  /\ audio # <<>>
  /\ audio' = Tail(audio)
  /\ IF coreMode \in {"active", "listen"}
     THEN LET chunks == Append(audioChunks, Head(audio))
          IN  IF Len(chunks) > MaxAudioChunks
              THEN Flush(chunks)
              ELSE /\ audioChunks' = chunks
                   /\ isAccumulating' = TRUE
                   /\ toBrain' = <<>>
                   /\ UNCHANGED flushed
     ELSE toBrain' = <<>> /\ UNCHANGED accVars
  /\ skillEvents' = <<>>
  /\ UNCHANGED <<nodeVars, linkVars, triggers, coreMode>>

\* What the listeners of triggerPipeline make of a message: publish_vad sends
\* a start without a stage, and only the stage "start" counts as a start.
Stage(trigger) == IF trigger = "end" THEN "end" ELSE "none"

\* mqtt.on("triggerPipeline"): wireMcpEvents, the accumulator, the skills.
TriggerPipeline ==
  /\ triggers # <<>>
  /\ triggers' = Tail(triggers)
  /\ LET stage == Stage(Head(triggers))
     IN  /\ IF stage = "end" /\ isAccumulating
            THEN Flush(audioChunks)
            ELSE /\ toBrain' = IF stage = "start" THEN <<[event |-> "voice_start"]>> ELSE <<>>
                 /\ UNCHANGED accVars
         /\ skillEvents' = IF stage = "start" THEN <<"voice_start">> ELSE <<"voice_end">>
  /\ UNCHANGED <<nodeVars, linkVars, audio, coreMode>>

Next ==
  \/ \E active \in BOOLEAN : NodeLoopWithAudio(active)
  \/ NodeLoopIdle \/ NodeReset
  \/ WsConnect \/ WsDisconnect \/ MqttConnect \/ MqttDisconnect
  \/ CoreModeChange \/ AudioChunk \/ TriggerPipeline

Spec == Init /\ [][Next]_vars

\* The node's loop and Core's event loop go on, and the firmware reconnects
\* to the broker for ever.
Fairness ==
  /\ SF_vars(NodeLoopIdle)
  /\ WF_vars(MqttConnect)
  /\ WF_vars(AudioChunk) /\ WF_vars(TriggerPipeline)

FairSpec == Spec /\ Fairness

-----------------------------------------------------------------------------
Increasing(s) == \A i, j \in 1..Len(s) : i < j => s[i] < s[j]

\* Type invariant: chunks and triggers are what the node can produce.
TypeOK ==
  /\ vadActive \in BOOLEAN /\ reported \in BOOLEAN
  /\ spoken \in 0..MaxSpoken /\ flushed \in 0..MaxSpoken
  /\ wsUp \in BOOLEAN /\ mqttUp \in BOOLEAN
  /\ audio \in Seq(1..MaxSpoken)
  /\ triggers \in Seq(Triggers)
  /\ coreMode \in CoreModes
  /\ audioChunks \in Seq(1..MaxSpoken)
  /\ isAccumulating \in BOOLEAN
  /\ published \in Triggers \cup {"none"}

\* The flag and the buffer of the accumulator agree in every interleaving of
\* chunks, triggers and mode changes: audio in the buffer with the flag off
\* would never be sent, and the flag on an empty buffer would send an empty
\* utterance.  The buffer never outgrows the cap.
AccumulatorConsistent ==
  /\ isAccumulating <=> audioChunks # <<>>
  /\ Len(audioChunks) <= MaxAudioChunks

\* No chunk reaches the Brain twice or out of order: what was sent, what is
\* buffered and what is still in flight are in the order they were spoken,
\* whatever is lost in between and whoever cuts the utterance, cap or VAD.
AudioInOrder ==
  /\ Increasing(audioChunks)
  /\ Increasing(audio)
  /\ flushed <= spoken
  /\ \A i \in 1..Len(audioChunks) : flushed < audioChunks[i] /\ audioChunks[i] <= spoken
  /\ \A j \in 1..Len(audio) : flushed < audio[j] /\ audio[j] <= spoken
  /\ \A i \in 1..Len(audioChunks), j \in 1..Len(audio) : audioChunks[i] < audio[j]

\* A voice_end is never empty and holds only chunks later than those of every
\* voice_end before it, in order.
VoiceEndFresh ==
  [][\A k \in 1..Len(toBrain') :
       (toBrain' # toBrain /\ toBrain'[k].event = "voice_end") =>
          LET utterance == toBrain'[k].audio
          IN  /\ utterance # <<>> /\ Increasing(utterance)
              /\ flushed < utterance[1] /\ utterance[Len(utterance)] = flushed']_vars

\* An utterance whose start was published gets its end published once the
\* voice is silent, however often MQTT drops meanwhile: the end waits for the
\* connection.  Only speaking on or a reset of the node takes its place.
StartGetsEnd ==
  (published = "start" /\ ~vadActive) ~> (published # "start" \/ vadActive)
=============================================================================
