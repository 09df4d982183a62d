----------------------------- MODULE BrainTurns -----------------------------
(***************************************************************************)
(* The turns of the basic Brain: an utterance is transcribed, the answer   *)
(* of the LLM is cut into sentences while it comes in, each sentence is    *)
(* synthesized, and the audio goes to Core by xentient_play_audio          *)
(* (harness/src/brain-basic/Pipeline.ts and the providers).                *)
(*                                                                         *)
(* A turn is two coroutines with a stream between them: the producer       *)
(* (synthesizeStreaming) reads tokens and pushes audio, the consumer       *)
(* (processUtterance) plays it.  brain-basic.ts starts a turn for every    *)
(* voice_end and waits for none, so turns overlap.  A token is its number  *)
(* in the answer, and the audio of a token is the same number; tokens that *)
(* are only white space, which make no sound, are left out.                *)
(***************************************************************************)
EXTENDS Naturals, Sequences

CONSTANTS
  Turns,      \* names of turns; one that is over may be used again
  MaxTokens   \* max_tokens of the LLM request

ASSUME TurnAssumption == MaxTokens \in Nat

VARIABLES
  turn,    \* the two coroutines of each turn and the stream between them
  calls,   \* xentient_play_audio calls in the pipe to Core
  played,  \* the audio of each turn that Core has handed to AudioServer
  coreUp   \* whether Core is at the other end of the pipe

vars == <<turn, calls, played, coreUp>>

States    == {"idle", "transcribing", "answering", "complete", "skipped", "failed"}
Producers == {"none", "reading", "sentence", "flush", "ended", "failed"}
Streams   == {"open", "ended", "destroyed"}
Calls     == {"none", "asked", "answered"}

NewTurn(state) ==
  [state    |-> state,   \* of processUtterance
   producer |-> "none",  \* of synthesizeStreaming: reading tokens, or
                         \* synthesizing a sentence or what is left over
   heard    |-> 0,       \* tokens the LLM has yielded
   buffer   |-> <<>>,    \* tokens waiting for the end of their sentence
   synth    |-> <<>>,    \* audio still to come from the running synthesis
   audio    |-> <<>>,    \* audio in the stream
   stream   |-> "open",  \* of the Readable
   call     |-> "none"]  \* the play_audio call that the consumer awaits

Init ==
  /\ turn = [t \in Turns |-> NewTurn("idle")]
  /\ calls = <<>>
  /\ played = [t \in Turns |-> <<>>]
  /\ coreUp = TRUE

-----------------------------------------------------------------------------
\* The utterance.

Producing(t) == turn[t].producer \in {"reading", "sentence", "flush"}

Active(t) == turn[t].state \in {"transcribing", "answering"} \/ Producing(t)

\* A voice_end notification with audio starts a turn.
VoiceEnd(t) ==
  /\ coreUp
  /\ ~Active(t)
  /\ \A i \in DOMAIN calls : calls[i].turn # t
  /\ turn' = [turn EXCEPT ![t] = NewTurn("transcribing")]
  /\ played' = [played EXCEPT ![t] = <<>>]
  /\ UNCHANGED <<calls, coreUp>>

\* What comes of transcribe: words, an empty transcript, or an error.
Transcripts == {"words", "nothing", "error"}

\* With words the producer starts; without, the turn is skipped; an error is
\* one of processUtterance.
Transcribed(t) ==
  /\ turn[t].state = "transcribing"
  /\ \E transcript \in Transcripts :
       turn' = CASE transcript = "words" ->
                      [turn EXCEPT ![t].state = "answering", ![t].producer = "reading"]
                 [] transcript = "nothing" -> [turn EXCEPT ![t].state = "skipped"]
                 [] transcript = "error"   -> [turn EXCEPT ![t].state = "failed"]
  /\ UNCHANGED <<calls, played, coreUp>>

-----------------------------------------------------------------------------
\* The producer.

MayGoOn(t) == turn[t].heard < MaxTokens

\* A token is read.  If it ends a sentence, the buffer is synthesized.
Token(t) ==
  /\ turn[t].producer = "reading" /\ MayGoOn(t)
  /\ LET buffer == Append(turn[t].buffer, turn[t].heard + 1)
         read   == [turn[t] EXCEPT !.heard = @ + 1, !.buffer = buffer]
     IN  \/ turn' = [turn EXCEPT ![t] = read]
         \/ turn' = [turn EXCEPT ![t] = [read EXCEPT !.producer = "sentence",
                                                     !.synth = buffer]]
  /\ UNCHANGED <<calls, played, coreUp>>

\* push: a stream that was destroyed takes nothing.
Push(t, audio) ==
  IF turn[t].stream = "open" THEN turn[t].audio \o audio ELSE turn[t].audio

\* push(null)
EndStream(t) == IF turn[t].stream = "open" THEN "ended" ELSE turn[t].stream

\* A chunk of the running synthesis comes in.
Chunk(t) ==
  /\ turn[t].synth # <<>>
  /\ turn' = [turn EXCEPT ![t].synth = Tail(@),
                          ![t].audio = Push(t, <<Head(turn[t].synth)>>)]
  /\ UNCHANGED <<calls, played, coreUp>>

\* Mutant: the sentence stays in the buffer.
MutantSentenceDone(t) ==
  /\ turn[t].producer = "sentence" /\ turn[t].synth = <<>>
  /\ turn' = [turn EXCEPT ![t].producer = "reading"]
  /\ UNCHANGED <<calls, played, coreUp>>

\* The sentence is synthesized: on to the next.
SentenceDone(t) ==
  /\ turn[t].producer = "sentence" /\ turn[t].synth = <<>>
  /\ turn' = [turn EXCEPT ![t].producer = "reading", ![t].buffer = <<>>]
  /\ UNCHANGED <<calls, played, coreUp>>

\* Mutant: what comes after the last sentence is not spoken.
MutantLastToken(t) ==
  /\ turn[t].producer = "reading"
  /\ turn' = [turn EXCEPT ![t].producer = "ended", ![t].stream = EndStream(t)]
  /\ UNCHANGED <<calls, played, coreUp>>

\* The LLM is done: what is left in the buffer is synthesized, or there is
\* nothing and the stream ends.
LastToken(t) ==
  /\ turn[t].producer = "reading"
  /\ turn' = IF turn[t].buffer = <<>>
             THEN [turn EXCEPT ![t].producer = "ended", ![t].stream = EndStream(t)]
             ELSE [turn EXCEPT ![t].producer = "flush", ![t].synth = turn[t].buffer]
  /\ UNCHANGED <<calls, played, coreUp>>

\* What was left is synthesized: the stream ends.
Flushed(t) ==
  /\ turn[t].producer = "flush" /\ turn[t].synth = <<>>
  /\ turn' = [turn EXCEPT ![t].producer = "ended", ![t].stream = EndStream(t)]
  /\ UNCHANGED <<calls, played, coreUp>>

\* Mutant: the error of the producer is caught and forgotten.
MutantProducerFails(t) ==
  /\ Producing(t)
  /\ turn' = [turn EXCEPT ![t].producer = "failed", ![t].synth = <<>>]
  /\ UNCHANGED <<calls, played, coreUp>>

\* The LLM or the synthesis fails: the stream is destroyed, with the audio in it.
ProducerFails(t) ==
  /\ Producing(t)
  /\ turn' = [turn EXCEPT ![t].producer = "failed", ![t].synth = <<>>,
                          ![t].stream = "destroyed", ![t].audio = <<>>]
  /\ UNCHANGED <<calls, played, coreUp>>

-----------------------------------------------------------------------------
\* The consumer.

\* processUtterance rejects, which leaves the loop and destroys the stream.
\* The producer is not told.
Abandoned(record) ==
  [record EXCEPT !.state = "failed", !.call = "none",
                 !.stream = "destroyed", !.audio = <<>>]

\* All the audio in the stream is read at once and sent to Core.
Play(t) ==
  /\ turn[t].state = "answering" /\ turn[t].call = "none"
  /\ turn[t].audio # <<>>
  /\ IF coreUp
     THEN /\ calls' = Append(calls, [turn |-> t, audio |-> turn[t].audio])
          /\ turn' = [turn EXCEPT ![t].call = "asked", ![t].audio = <<>>]
     ELSE turn' = [turn EXCEPT ![t] = Abandoned(@)] /\ UNCHANGED calls
  /\ UNCHANGED <<played, coreUp>>

\* Core handles xentient_play_audio and answers.  A caller that has given up
\* ignores the answer.
PlayAudio ==
  /\ calls # <<>>
  /\ LET call == Head(calls)
     IN  /\ played' = [played EXCEPT ![call.turn] = @ \o call.audio]
         /\ turn' = IF turn[call.turn].call = "asked"
                    THEN [turn EXCEPT ![call.turn].call = "answered"]
                    ELSE turn
  /\ calls' = Tail(calls)
  /\ UNCHANGED coreUp

\* The answer arrives: the consumer goes on.
Answered(t) ==
  /\ turn[t].call = "answered"
  /\ turn' = [turn EXCEPT ![t].call = "none"]
  /\ UNCHANGED <<calls, played, coreUp>>

\* The call rejects on the side of the caller, handled or not.
CallRejected(t) ==
  /\ turn[t].call # "none"
  /\ turn' = [turn EXCEPT ![t] = Abandoned(@)]
  /\ UNCHANGED <<calls, played, coreUp>>

\* The loop ends with the stream: turnComplete, or the error of the producer.
TurnOver(t) ==
  /\ turn[t].state = "answering" /\ turn[t].call = "none"
  /\ turn[t].audio = <<>> /\ turn[t].stream # "open"
  /\ turn' = [turn EXCEPT ![t].state =
                IF turn[t].stream = "ended" THEN "complete" ELSE "failed"]
  /\ UNCHANGED <<calls, played, coreUp>>

-----------------------------------------------------------------------------
\* The processes.

\* Core ends: its pipe is gone, and every call in it rejects.  Nothing in the
\* Brain starts it again.
CoreExits ==
  /\ coreUp
  /\ coreUp' = FALSE
  /\ calls' = <<>>
  /\ turn' = [t \in Turns |->
                IF turn[t].call = "none" THEN turn[t] ELSE Abandoned(turn[t])]
  /\ UNCHANGED played

\* The Brain ends, and a new one starts with a Core of its own.
Restart ==
  /\ turn' = [t \in Turns |-> NewTurn("idle")]
  /\ calls' = <<>>
  /\ played' = [t \in Turns |-> <<>>]
  /\ coreUp' = TRUE

Produce(t) ==
  \/ Token(t) \/ Chunk(t) \/ SentenceDone(t)
  \/ LastToken(t) \/ Flushed(t) \/ ProducerFails(t)

Consume(t) == Play(t) \/ Answered(t) \/ CallRejected(t) \/ TurnOver(t)

Next ==
  \/ \E t \in Turns : VoiceEnd(t) \/ Transcribed(t) \/ Produce(t) \/ Consume(t)
  \/ PlayAudio \/ CoreExits \/ Restart

Spec == Init /\ [][Next]_vars

\* Every service answers or fails, the event loop of the Brain runs, and so
\* does that of Core as long as Core is there.
Fairness ==
  /\ \A t \in Turns : WF_vars(Transcribed(t)) /\ WF_vars(Produce(t)) /\ WF_vars(Consume(t))
  /\ WF_vars(PlayAudio)

FairSpec == Spec /\ Fairness

-----------------------------------------------------------------------------
Tokens == 1..MaxTokens

TurnRecords ==
  [state : States, producer : Producers, heard : 0..MaxTokens,
   buffer : Seq(Tokens), synth : Seq(Tokens), audio : Seq(Tokens),
   stream : Streams, call : Calls]

\* Type invariant, with the limit on the length of an answer.
TypeOK ==
  /\ turn \in [Turns -> TurnRecords]
  /\ calls \in Seq([turn : Turns, audio : Seq(Tokens)])
  /\ played \in [Turns -> Seq(Tokens)]
  /\ coreUp \in BOOLEAN

\* What is spoken of an answer is a beginning of it: nothing is missing, said
\* twice or out of place, whatever failed in the turn or in another.
SpokenInOrder ==
  \A t \in Turns : \A i \in DOMAIN played[t] : played[t][i] = i

\* A turn that says it is complete has been handed to Core to the last token.
CompleteMeansSpoken ==
  \A t \in Turns :
    turn[t].state = "complete" => Len(played[t]) = turn[t].heard

\* Every turn ends, and so does the work for one that failed, if every service
\* answers or fails: no failure on one side leaves the other waiting.
EveryTurnEnds == \A t \in Turns : Active(t) ~> ~Active(t)
=============================================================================
