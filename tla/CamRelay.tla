------------------------------ MODULE CamRelay ------------------------------
(***************************************************************************)
(* Camera frames on their way to the harness.  The camera (firmware/       *)
(* validation/val_cam_uart_fwd.cpp) takes a JPEG every CAM_TIMER_INTERVAL_ *)
(* MS and sends it as numbered chunks over a UART; the node base           *)
(* (firmware/src/cam_relay.cpp) puts the chunks together and forwards the  *)
(* frame over the WebSocket.                                               *)
(*                                                                         *)
(* A frame id is 16 bits wide and starts again at 0 when it wraps and when *)
(* the camera resets, chunks get lost, and the node's loop is sometimes    *)
(* busy elsewhere; what keeps chunks of two captures apart is time.  The   *)
(* payload of a chunk is the capture it is of and its place in it.  Sync   *)
(* bytes and CRC-8 are reduced to what they do: a chunk arrives as sent or *)
(* not at all.                                                             *)
(***************************************************************************)
EXTENDS Integers, Sequences

CONSTANTS
  FrameIds,    \* 2^16: the ids there are
  MaxChunks,   \* the chunks of the largest JPEG
  BufChunks,   \* CAM_BUF_SIZE, in chunks
  Period,      \* CAM_TIMER_INTERVAL_MS
  Timeout,     \* CAM_REASSEMBLY_TIMEOUT_MS
  BootTime,    \* the least time from a reset of the camera to its first frame
  LoopTime,    \* the most time from one pass of cam_relay_loop to the next
  LastReset,   \* bound: the camera does not reset after this many captures
  MaxTime      \* bound: the length of a behaviour

\* chunk_total is an uint8: at 160x120 no JPEG has 256 chunks of 200 bytes.
\* The ids last longer than a partial frame may, by far.
ASSUME CamAssumption ==
  /\ FrameIds \in Nat \ {0} /\ MaxChunks \in 1..255 /\ BufChunks \in Nat \ {0}
  /\ Period \in Nat \ {0} /\ Timeout \in Nat /\ BootTime \in Nat
  /\ LoopTime \in Nat \ {0} /\ MaxTime \in Nat
  /\ LastReset \in Nat
  /\ (FrameIds - 1) * Period > Timeout + 2 * LoopTime

VARIABLES
  now,            \* the time
  capture,        \* how many captures there have been; the number of the last
  booted,         \* how many there had been when the camera started
  size, sent,     \* chunks of the last capture, and how many have been sent
  readyAt,        \* when the camera takes the next
  wire,           \* chunks in the UART
  loopAt,         \* when cam_relay_loop was last entered
  s_reassembling, s_curFrameId, s_curChunkTotal, s_nextChunkIdx,
  s_camBuf,       \* the pieces in the buffer
  s_reasmStartMs,
  forwarded       \* the frame last sent over the WebSocket

camera    == <<capture, booted, size, sent, readyAt>>
relay     == <<s_reassembling, s_curFrameId, s_curChunkTotal, s_nextChunkIdx,
            s_camBuf, s_reasmStartMs>>
relayVars == <<now, camera, wire, loopAt, relay, forwarded>>

\* The id of the last capture: frame_id of the sketch counts from its start.
FrameId == (capture - booted - 1) % FrameIds

RelayInit ==
  /\ now = 0
  /\ capture = 0 /\ booted = 0 /\ size = 0 /\ sent = 0
  /\ readyAt = 0
  /\ wire = <<>>
  /\ loopAt = 0
  /\ s_reassembling = FALSE /\ s_curFrameId = 0 /\ s_curChunkTotal = 0
  /\ s_nextChunkIdx = 0 /\ s_camBuf = <<>> /\ s_reasmStartMs = 0
  /\ forwarded = <<>>

-----------------------------------------------------------------------------
\* The camera: loop() of the sketch.

\* A good JPEG is captured.  One that fails is a capture that comes later.
Capture ==
  /\ sent = size
  /\ now >= readyAt
  /\ capture' = capture + 1
  /\ size' \in 1..MaxChunks
  /\ sent' = 0
  /\ readyAt' = now + Period
  /\ UNCHANGED <<now, booted, wire, loopAt, relay, forwarded>>

\* send_uart_chunk
SendChunk ==
  /\ sent < size
  /\ wire' = Append(wire, [frameId |-> FrameId, idx |-> sent, total |-> size,
                           data |-> [capture |-> capture, idx |-> sent, total |-> size]])
  /\ sent' = sent + 1
  /\ UNCHANGED <<now, capture, booted, size, readyAt, loopAt, relay, forwarded>>

\* The camera resets, whatever it was doing; its counter starts at 0 again.
CameraReset ==
  /\ capture <= LastReset
  /\ booted' = capture
  /\ sent' = size
  /\ readyAt' = now + BootTime
  /\ UNCHANGED <<now, capture, size, wire, loopAt, relay, forwarded>>

-----------------------------------------------------------------------------
\* The node base.

\* discard_reassembly
discard_reassembly ==
  /\ s_reassembling' = FALSE
  /\ s_curFrameId' = 0 /\ s_curChunkTotal' = 0 /\ s_nextChunkIdx' = 0
  /\ s_camBuf' = <<>>
  /\ UNCHANGED s_reasmStartMs

\* Mutant: a partial frame never gets too old.
MutantLoop ==
  /\ wire = <<>>
  /\ loopAt' = now
  /\ UNCHANGED <<now, camera, wire, relay, forwarded>>

\* cam_relay_loop is entered, after the last pass has read what there was: a
\* partial frame that is too old is dropped, before anything is read.
Loop ==
  /\ wire = <<>>
  /\ loopAt' = now
  /\ IF s_reassembling /\ now - s_reasmStartMs >= Timeout
     THEN discard_reassembly
     ELSE UNCHANGED relay
  /\ UNCHANGED <<now, camera, wire, forwarded>>

\* Sequence gap detection.
InSequence(chunk) ==
  chunk.idx = (IF chunk.idx = 0 THEN 0 ELSE s_nextChunkIdx)

\* Mutant: the next chunk is taken for one of the current frame.
MutantBelongs(chunk) == chunk.idx = 0 \/ s_reassembling

\* A chunk 0 starts a frame over, any other must be of the current one.
Belongs(chunk) ==
  chunk.idx = 0 \/ (s_reassembling /\ chunk.frameId = s_curFrameId)

\* Mutant: the bound is off by one.
MutantFits(chunk) ==
  \/ chunk.idx = 0
  \/ chunk.total = s_curChunkTotal /\ Len(s_camBuf) <= BufChunks

\* The chunk_total is the one the frame began with, and the buffer has room.
Fits(chunk) ==
  \/ chunk.idx = 0
  \/ chunk.total = s_curChunkTotal /\ Len(s_camBuf) < BufChunks

\* process_chunk for a chunk that belongs, is in sequence and fits: the frame
\* is complete with its last one, and sent if the WebSocket takes it.
Accept(chunk) ==
  LET buf == Append(IF chunk.idx = 0 THEN <<>> ELSE s_camBuf, chunk.data)
  IN  IF chunk.idx = chunk.total - 1
      THEN discard_reassembly /\ forwarded' \in {buf, forwarded}
      ELSE /\ s_reassembling' = TRUE
           /\ s_curFrameId' = chunk.frameId
           /\ s_curChunkTotal' = chunk.total
           /\ s_nextChunkIdx' = chunk.idx + 1
           /\ s_camBuf' = buf
           /\ s_reasmStartMs' = IF chunk.idx = 0 THEN now ELSE s_reasmStartMs
           /\ UNCHANGED forwarded

\* A whole chunk has been read: process_chunk.
ProcessChunk ==
  /\ wire # <<>>
  /\ wire' = Tail(wire)
  /\ LET chunk == Head(wire)
     IN  \/ /\ ~Belongs(chunk)
            /\ UNCHANGED <<relay, forwarded>>
         \/ /\ Belongs(chunk) /\ ~(InSequence(chunk) /\ Fits(chunk))
            /\ discard_reassembly
            /\ UNCHANGED forwarded
         \/ /\ Belongs(chunk) /\ InSequence(chunk) /\ Fits(chunk)
            /\ Accept(chunk)
  /\ UNCHANGED <<now, camera, loopAt>>

\* A chunk is damaged on the line: its CRC does not match, or it is not found.
LoseChunk ==
  /\ wire # <<>>
  /\ wire' = Tail(wire)
  /\ UNCHANGED <<now, camera, loopAt, relay, forwarded>>

\* The node base restarts.
NodeReset ==
  /\ wire' = <<>>
  /\ loopAt' = now
  /\ s_reassembling' = FALSE /\ s_curFrameId' = 0 /\ s_curChunkTotal' = 0
  /\ s_nextChunkIdx' = 0 /\ s_camBuf' = <<>> /\ s_reasmStartMs' = 0
  /\ UNCHANGED <<now, camera, forwarded>>

\* Time passes; the loop comes round within LoopTime.
RelayTick ==
  /\ now < MaxTime
  /\ now - loopAt < LoopTime
  /\ now' = now + 1
  /\ UNCHANGED <<camera, wire, loopAt, relay, forwarded>>

RelayNext ==
  \/ Capture \/ SendChunk \/ CameraReset
  \/ Loop \/ ProcessChunk \/ LoseChunk \/ NodeReset
  \/ RelayTick

RelaySpec == RelayInit /\ [][RelayNext]_relayVars

-----------------------------------------------------------------------------
Pieces == [capture : Nat, idx : Nat, total : 1..MaxChunks]
Chunks == [frameId : 0..(FrameIds - 1), idx : Nat, total : 1..MaxChunks, data : Pieces]

\* Type invariant, with the capacity of the buffer.
RelayTypeOK ==
  /\ now \in 0..MaxTime /\ loopAt \in 0..now /\ readyAt \in Nat
  /\ capture \in Nat /\ booted \in 0..capture
  /\ size \in 0..MaxChunks /\ sent \in 0..size
  /\ wire \in Seq(Chunks)
  /\ s_reassembling \in BOOLEAN /\ s_curFrameId \in 0..(FrameIds - 1)
  /\ s_curChunkTotal \in 0..MaxChunks /\ s_nextChunkIdx \in Nat
  /\ s_camBuf \in Seq(Pieces) /\ forwarded \in Seq(Pieces)
  /\ s_reasmStartMs \in 0..now
  /\ Len(s_camBuf) <= BufChunks /\ Len(forwarded) <= BufChunks

\* A frame that is forwarded has every piece in its place and none missing,
\* whatever was lost on the line, timed out or reset.
PiecesInPlace ==
  \A i \in 1..Len(forwarded) :
    forwarded[i].idx = i - 1 /\ forwarded[i].total = Len(forwarded)

OneCapture == \A i \in 1..Len(forwarded) : forwarded[i].capture = forwarded[1].capture

\* A forwarded frame has its pieces in place, and they are of one capture as long
\* as the camera has not reset and used an id again: the ids, the timeout and the
\* sequence check keep the chunks of two captures apart.
FramesWhole == PiecesInPlace /\ (booted = 0 => OneCapture)

\* Frames are delivered at most once and in the order of capture, and until the
\* camera resets they are whole: the relay implements FrameDelivery.
Delivered ==
  IF forwarded = <<>> THEN 0 ELSE forwarded[Len(forwarded)].capture

Delivery == INSTANCE FrameDelivery
  WITH captured <- capture, restarted <- booted > 0,
       delivered <- Delivered, whole <- PiecesInPlace /\ OneCapture

RelayImplementsDelivery == Delivery!Spec
=============================================================================
