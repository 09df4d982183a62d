---------------------------- MODULE CameraProofs ----------------------------
(***************************************************************************)
(* Proofs about the way of the camera's frames.  First CamRelay, for any   *)
(* frame size, buffer and timing that its assumption allows: frames are    *)
(* whole, and forwarded at most once and in order.  Then CameraServer, for *)
(* any number of dashboards, frames and units of timeout: connected        *)
(* dashboards have the latest frame, and the camera is online exactly      *)
(* while its last frame is recent, whatever the cap on the clients, which  *)
(* they keep to.                                                           *)
(***************************************************************************)
EXTENDS CamRelay, CameraServer, FiniteSetTheorems, TLAPS

-----------------------------------------------------------------------------
\* CamRelay.

\* The order in which the pieces of captures are sent.
Before(p, q) == p.capture < q.capture \/ (p.capture = q.capture /\ p.idx < q.idx)

\* A piece the camera has sent.
Taken(p) == p.capture \in 1..capture /\ (p.capture = capture => p.idx < sent)

\* One that the line has nothing older than.
Passed(p) == Taken(p) /\ \A i \in 1..Len(wire) : Before(p, wire[i].data)

\* The line has chunks of captures, in the order they were sent.
OnWire ==
  \A i \in 1..Len(wire) :
    /\ wire[i].data.idx = wire[i].idx /\ wire[i].data.total = wire[i].total
    /\ wire[i].idx < wire[i].total
    /\ Taken(wire[i].data)
    /\ \A j \in 1..Len(wire) : i < j => Before(wire[i].data, wire[j].data)

\* A partial frame has its first pieces in their places.
Partial ==
  /\ s_reassembling <=> s_camBuf # <<>>
  /\ s_reassembling =>
       /\ s_nextChunkIdx = Len(s_camBuf)
       /\ \A i \in 1..Len(s_camBuf) :
            s_camBuf[i].idx = i - 1 /\ s_camBuf[i].total = s_curChunkTotal
       /\ Passed(s_camBuf[Len(s_camBuf)])
       /\ s_camBuf[1].capture <= s_camBuf[Len(s_camBuf)].capture

\* What is on its way is later than the frame forwarded last.
Later ==
  forwarded # <<>> =>
    /\ Passed(forwarded[Len(forwarded)])
    /\ s_reassembling => forwarded[Len(forwarded)].capture < s_camBuf[1].capture

\* The loop comes round, and then a partial frame is not too old.
Prompt ==
  now - loopAt <= LoopTime /\ (s_reassembling => loopAt - s_reasmStartMs <= Timeout)

IdOf(k) == (k - 1) % FrameIds

\* The captures after number k took a period each since time t.
Spaced(k, t) == capture > k => readyAt >= t + (capture - k) * Period

\* Until the camera resets, the ids are those of the captures, and the captures
\* since a chunk was sent or a partial frame begun are as many periods apart:
\* the id does not come again before the partial frame is too old.
Spacing ==
  booted = 0 =>
    /\ capture > 0 => readyAt <= now + Period
    /\ \A i \in 1..Len(wire) : /\ wire[i].frameId = IdOf(wire[i].data.capture)
                               /\ Spaced(wire[i].data.capture, loopAt)
    /\ s_reassembling =>
         /\ s_curFrameId = IdOf(s_camBuf[1].capture)
         /\ Spaced(s_camBuf[1].capture, s_reasmStartMs - LoopTime)
         /\ \A i \in 1..Len(s_camBuf) : s_camBuf[i].capture = s_camBuf[1].capture
    /\ OneCapture

RelayIInv ==
  /\ RelayTypeOK /\ (capture = 0 => size = 0)
  /\ OnWire /\ Partial /\ Later /\ PiecesInPlace
  /\ Prompt /\ Spacing

-----------------------------------------------------------------------------
\* Ids and periods.

LEMMA IdsRepeat ==
  ASSUME NEW k \in Int, NEW l \in Int, k <= l, IdOf(k) = IdOf(l)
  PROVE  k = l \/ l - k >= FrameIds
<1> DEFINE m == k - 1  n == l - 1
<1>1. m \in Int /\ n \in Int /\ m <= n /\ m % FrameIds = n % FrameIds /\ FrameIds \in Nat \ {0}
  BY CamAssumption DEF IdOf
<1> SUFFICES m = n \/ n - m >= FrameIds
  OBVIOUS
<1> HIDE DEF m, n
<1>2. PICK a \in Int, q \in Int : m = FrameIds * a + q /\ q = m % FrameIds
  <2>1. /\ m = FrameIds * (m \div FrameIds) + (m % FrameIds)
        /\ m \div FrameIds \in Int /\ m % FrameIds \in Int
    BY <1>1
  <2> QED BY <2>1
<1>3. PICK b \in Int, r \in Int : n = FrameIds * b + r /\ r = n % FrameIds
  <2>1. /\ n = FrameIds * (n \div FrameIds) + (n % FrameIds)
        /\ n \div FrameIds \in Int /\ n % FrameIds \in Int
    BY <1>1
  <2> QED BY <2>1
<1>4. q = r /\ FrameIds \in Int
  BY <1>1, <1>2, <1>3
<1>5. n - m = FrameIds * (b - a)
  BY ONLY <1>1, <1>2, <1>3, <1>4
<1>6. CASE b - a <= 0
  BY <1>1, <1>5, <1>6
<1>7. CASE b - a >= 1
  BY <1>1, <1>5, <1>7
<1> QED BY <1>6, <1>7

LEMMA OnePeriodMore ==
  ASSUME NEW k \in Int, NEW t \in Int, NEW c \in Int, NEW ready \in Int, NEW time \in Int,
         t <= time, ready <= time, k <= c, c > k => ready >= t + (c - k) * Period
  PROVE  time + Period >= t + (c + 1 - k) * Period
<1>1. Period \in Int /\ (c + 1 - k) * Period = (c - k) * Period + Period /\ (c - k) * Period \in Int
  BY CamAssumption
<1>2. CASE c = k
  BY <1>1, <1>2
<1>3. CASE c > k
  BY <1>1, <1>3
<1> QED BY <1>2, <1>3

LEMMA ManyPeriods ==
  ASSUME NEW k \in Int, NEW c \in Int, c - k >= FrameIds
  PROVE  (c - k) * Period > Period + Timeout + 2 * LoopTime
<1>1. /\ FrameIds \in Int /\ Period \in Nat \ {0} /\ Timeout \in Int /\ LoopTime \in Int
      /\ (FrameIds - 1) * Period > Timeout + 2 * LoopTime
  BY CamAssumption
<1>2. (c - k) * Period >= FrameIds * Period
  BY <1>1
<1>3. FrameIds * Period = (FrameIds - 1) * Period + Period
  BY <1>1
<1> QED BY <1>1, <1>2, <1>3

-----------------------------------------------------------------------------
\* The steps.

\* The facts about the state that most steps use.
LEMMA CamConstants ==
  /\ FrameIds \in Nat \ {0} /\ MaxChunks \in Nat \ {0} /\ BufChunks \in Nat \ {0}
  /\ Period \in Nat \ {0} /\ LoopTime \in Nat \ {0} /\ MaxTime \in Nat
  /\ BootTime \in Nat
BY CamAssumption

LEMMA RelayNumbers ==
  ASSUME RelayIInv
  PROVE  /\ capture \in Nat /\ sent \in Nat /\ size \in Nat /\ booted \in Nat /\ readyAt \in Nat
         /\ sent <= size /\ booted <= capture
         /\ now \in Nat /\ loopAt \in Nat /\ s_reasmStartMs \in Nat
         /\ loopAt <= now /\ s_reasmStartMs <= now
         /\ LoopTime \in Nat /\ Period \in Nat /\ (capture = 0 => size = 0)
BY CamConstants DEF RelayIInv, RelayTypeOK

LEMMA RelayFacts ==
  ASSUME RelayIInv
  PROVE  /\ capture \in Nat /\ sent \in Nat /\ size \in Nat /\ booted \in Nat /\ readyAt \in Nat
         /\ sent <= size /\ booted <= capture
         /\ now \in Nat /\ loopAt \in Nat /\ s_reasmStartMs \in Nat
         /\ loopAt <= now /\ s_reasmStartMs <= now
         /\ LoopTime \in Nat /\ Timeout \in Nat /\ Period \in Nat
         /\ wire \in Seq(Chunks) /\ s_camBuf \in Seq(Pieces) /\ forwarded \in Seq(Pieces)
         /\ \A i \in 1..Len(wire) :
              /\ wire[i] \in Chunks /\ wire[i].data \in Pieces
              /\ wire[i].data.capture \in Nat /\ wire[i].data.idx \in Nat
         /\ \A i \in 1..Len(s_camBuf) : s_camBuf[i].capture \in Nat /\ s_camBuf[i].idx \in Nat
         /\ \A i \in 1..Len(forwarded) : forwarded[i].capture \in Nat /\ forwarded[i].idx \in Nat
         /\ s_reassembling => Len(s_camBuf) \in 1..Len(s_camBuf) /\ 1 \in 1..Len(s_camBuf)
         /\ forwarded # <<>> => Len(forwarded) \in 1..Len(forwarded)
<1>1. RelayTypeOK
  BY DEF RelayIInv
<1>2. /\ wire \in Seq(Chunks) /\ s_camBuf \in Seq(Pieces) /\ forwarded \in Seq(Pieces)
      /\ \A i \in 1..Len(wire) : wire[i] \in Chunks
      /\ \A i \in 1..Len(s_camBuf) : s_camBuf[i] \in Pieces
      /\ \A i \in 1..Len(forwarded) : forwarded[i] \in Pieces
  BY <1>1 DEF RelayTypeOK
<1>3. s_reassembling => s_camBuf # <<>>
  BY DEF RelayIInv, Partial
<1>4. /\ s_reassembling => Len(s_camBuf) \in 1..Len(s_camBuf) /\ 1 \in 1..Len(s_camBuf)
      /\ forwarded # <<>> => Len(forwarded) \in 1..Len(forwarded)
  BY <1>2, <1>3
<1>5. /\ \A c \in Chunks : c.data \in Pieces
      /\ \A p \in Pieces : p.capture \in Nat /\ p.idx \in Nat
  BY DEF Chunks, Pieces
<1> QED BY <1>1, <1>2, <1>4, <1>5, CamAssumption DEF RelayTypeOK

LEMMA CaptureOfPartial ==
  ASSUME RelayIInv, s_reassembling
  PROVE  s_camBuf[1].capture \in Nat /\ s_camBuf[1].capture <= capture /\ capture \in Nat \ {0}
<1>1. /\ s_camBuf[1].capture \in Nat /\ capture \in Nat
      /\ s_camBuf[Len(s_camBuf)].capture \in Nat
  BY RelayFacts
<1>2. /\ s_camBuf[Len(s_camBuf)].capture \in 1..capture
      /\ s_camBuf[1].capture <= s_camBuf[Len(s_camBuf)].capture
  BY DEF RelayIInv, Partial, Passed, Taken
<1> QED BY <1>1, <1>2

\* What the line loses is its first chunk, or all.
LEMMA WireShrinks ==
  ASSUME RelayIInv, UNCHANGED camera, (wire # <<>> /\ wire' = Tail(wire)) \/ wire' = <<>>
  PROVE  /\ wire' \in Seq(Chunks) /\ OnWire'
         /\ \A p : Passed(p) => Passed(p)'
         /\ \A i \in 1..Len(wire') : \E j \in 1..Len(wire) : wire'[i] = wire[j] /\ (wire # <<>> => j > 1)
<1>1. wire \in Seq(Chunks)
  BY RelayFacts
<1>2. CASE wire' = <<>>
  <2>1. wire' \in Seq(Chunks) /\ Len(wire') = 0
    BY <1>2
  <2> QED BY <2>1 DEF OnWire, Passed, Taken, camera
<1>3. CASE wire # <<>> /\ wire' = Tail(wire)
  <2>1. /\ wire' \in Seq(Chunks) /\ Len(wire') = Len(wire) - 1 /\ Len(wire) \in Nat
        /\ \A i \in 1..Len(wire') : wire'[i] = wire[i + 1] /\ i + 1 \in 1..Len(wire)
    BY <1>1, <1>3
  <2>2. capture' = capture /\ sent' = sent
    BY DEF camera
  <2>3. OnWire'
    <3> SUFFICES ASSUME NEW i \in 1..Len(wire')
                 PROVE  /\ wire'[i].data.idx = wire'[i].idx /\ wire'[i].data.total = wire'[i].total
                        /\ wire'[i].idx < wire'[i].total
                        /\ Taken(wire[i].data)'
                        /\ \A j \in 1..Len(wire') : i < j => Before(wire'[i].data, wire'[j].data)
      BY DEF OnWire
    <3>1. wire'[i] = wire[i + 1] /\ i + 1 \in 1..Len(wire)
      BY <2>1
    <3>2. \A j \in 1..Len(wire') : i < j => Before(wire[i + 1].data, wire[j + 1].data)
      BY <2>1, <3>1 DEF RelayIInv, OnWire
    <3> QED BY <2>1, <2>2, <3>1, <3>2 DEF RelayIInv, OnWire, Taken
  <2>4. \A p : Passed(p) => Passed(p)'
    BY <2>1, <2>2 DEF Passed, Taken
  <2>5. \A i \in 1..Len(wire') : \E j \in 1..Len(wire) : wire'[i] = wire[j] /\ (wire # <<>> => j > 1)
    BY <2>1
  <2> QED BY <2>1, <2>3, <2>4, <2>5
<1> QED BY <1>2, <1>3

\* The partial frame when there is none.
NoFrame ==
  /\ s_reassembling = FALSE /\ s_curFrameId = 0 /\ s_curChunkTotal = 0
  /\ s_nextChunkIdx = 0 /\ s_camBuf = <<>>

LEMMA NoFrameTypes ==
  ASSUME RelayIInv, UNCHANGED <<now, camera>>, NoFrame',
         wire' \in Seq(Chunks), loopAt' \in 0..now, s_reasmStartMs' \in 0..now,
         forwarded' \in Seq(Pieces), Len(forwarded') <= BufChunks
  PROVE  RelayTypeOK'
<1>1. s_reassembling' \in BOOLEAN
  BY Zenon DEF NoFrame
<1>2. /\ s_curFrameId' \in 0..(FrameIds - 1) /\ s_curChunkTotal' \in 0..MaxChunks
      /\ s_nextChunkIdx' \in Nat
  BY CamConstants DEF NoFrame
<1>3. s_camBuf' \in Seq(Pieces) /\ Len(s_camBuf') <= BufChunks
  BY CamConstants DEF NoFrame
<1> QED BY <1>1, <1>2, <1>3 DEF RelayIInv, RelayTypeOK, camera

\* A step that takes chunks off the line and keeps, or gives up, the partial frame.
LEMMA RelayKept ==
  ASSUME RelayIInv, UNCHANGED <<now, camera, forwarded>>,
         (wire # <<>> /\ wire' = Tail(wire)) \/ wire' = <<>>,
         UNCHANGED relay \/ NoFrame',
         RelayTypeOK', Prompt',
         UNCHANGED loopAt \/ wire' = <<>>
  PROVE  RelayIInv'
<1>1. /\ wire' \in Seq(Chunks) /\ OnWire'
      /\ \A p : Passed(p) => Passed(p)'
      /\ \A i \in 1..Len(wire') : \E j \in 1..Len(wire) : wire'[i] = wire[j]
  BY WireShrinks
<1>2. \/ UNCHANGED relay
      \/ ~s_reassembling' /\ s_camBuf' = <<>>
  BY DEF NoFrame
<1>3. Partial'
  BY <1>1, <1>2 DEF RelayIInv, Partial, relay
<1>4. Later'
  BY <1>1, <1>2 DEF RelayIInv, Later, relay
<1>5. PiecesInPlace' /\ (capture' = 0 => size' = 0)
  BY DEF RelayIInv, PiecesInPlace, camera
<1>6. Spacing'
  <2> SUFFICES ASSUME booted = 0
               PROVE  /\ capture > 0 => readyAt <= now + Period
                      /\ \A i \in 1..Len(wire') :
                           /\ wire'[i].frameId = IdOf(wire'[i].data.capture)
                           /\ Spaced(wire'[i].data.capture, loopAt')
                      /\ s_reassembling' =>
                           /\ s_curFrameId' = IdOf(s_camBuf'[1].capture)
                           /\ Spaced(s_camBuf'[1].capture, s_reasmStartMs' - LoopTime)
                           /\ \A i \in 1..Len(s_camBuf') : s_camBuf'[i].capture = s_camBuf'[1].capture
                      /\ OneCapture
    BY DEF Spacing, Spaced, OneCapture, camera
  <2>1. \A i \in 1..Len(wire') : /\ wire'[i].frameId = IdOf(wire'[i].data.capture)
                                /\ Spaced(wire'[i].data.capture, loopAt')
    <3>1. CASE UNCHANGED loopAt
      BY <1>1, <3>1 DEF RelayIInv, Spacing
    <3>2. CASE wire' = <<>>
      BY <3>2
    <3> QED BY <3>1, <3>2
  <2>2. s_reassembling' =>
          /\ s_curFrameId' = IdOf(s_camBuf'[1].capture)
          /\ Spaced(s_camBuf'[1].capture, s_reasmStartMs' - LoopTime)
          /\ \A i \in 1..Len(s_camBuf') : s_camBuf'[i].capture = s_camBuf'[1].capture
    BY <1>2 DEF RelayIInv, Spacing, relay
  <2> QED BY <2>1, <2>2 DEF RelayIInv, Spacing
<1> QED BY <1>1, <1>3, <1>4, <1>5, <1>6 DEF RelayIInv

LEMMA LoopStep ==
  ASSUME RelayIInv, Loop
  PROVE  RelayIInv'
<1>1. /\ wire' = <<>> /\ wire = <<>> /\ UNCHANGED <<now, camera, forwarded>> /\ loopAt' = now
      /\ s_reasmStartMs' = s_reasmStartMs
      /\ \/ UNCHANGED relay /\ ~(s_reassembling /\ now - s_reasmStartMs >= Timeout)
         \/ NoFrame'
  BY DEF Loop, relay, discard_reassembly, NoFrame
<1>2. RelayTypeOK'
  <2>1. /\ loopAt' \in 0..now /\ s_reasmStartMs' \in 0..now /\ wire' \in Seq(Chunks)
        /\ forwarded' \in Seq(Pieces) /\ Len(forwarded') <= BufChunks
    BY <1>1, RelayFacts DEF RelayIInv, RelayTypeOK
  <2>2. CASE NoFrame'
    BY <1>1, <2>1, <2>2, NoFrameTypes
  <2>3. CASE UNCHANGED relay
    BY <1>1, <2>1, <2>3 DEF RelayIInv, RelayTypeOK, camera, relay
  <2> QED BY <1>1, <2>2, <2>3
<1>3. Prompt'
  BY <1>1, RelayFacts DEF Prompt, relay, NoFrame
<1> QED BY <1>1, <1>2, <1>3, RelayKept

LEMMA LoseChunkStep ==
  ASSUME RelayIInv, LoseChunk
  PROVE  RelayIInv'
<1>1. /\ wire # <<>> /\ wire' = Tail(wire) /\ UNCHANGED <<now, camera, forwarded>>
      /\ UNCHANGED loopAt /\ UNCHANGED relay
  BY DEF LoseChunk
<1>2. wire' \in Seq(Chunks)
  BY <1>1, WireShrinks
<1>3. RelayTypeOK'
  BY <1>1, <1>2 DEF RelayIInv, RelayTypeOK, camera, relay
<1>4. Prompt'
  BY <1>1 DEF RelayIInv, Prompt, relay
<1> QED BY <1>1, <1>3, <1>4, RelayKept

LEMMA NodeResetStep ==
  ASSUME RelayIInv, NodeReset
  PROVE  RelayIInv'
<1>1. /\ wire' = <<>> /\ NoFrame' /\ UNCHANGED <<now, camera, forwarded>>
      /\ loopAt' = now /\ s_reasmStartMs' = 0
  BY DEF NodeReset, NoFrame
<1>2. RelayTypeOK'
  <2>1. /\ loopAt' \in 0..now /\ s_reasmStartMs' \in 0..now /\ wire' \in Seq(Chunks)
        /\ forwarded' \in Seq(Pieces) /\ Len(forwarded') <= BufChunks
    BY <1>1, RelayFacts DEF RelayIInv, RelayTypeOK
  <2> QED BY <1>1, <2>1, NoFrameTypes
<1>3. Prompt'
  BY <1>1, RelayFacts DEF Prompt, NoFrame
<1> QED BY <1>1, <1>2, <1>3, RelayKept

LEMMA RelayTickStep ==
  ASSUME RelayIInv, RelayTick
  PROVE  RelayIInv'
<1>1. now' = now + 1 /\ now' <= MaxTime /\ now' - loopAt <= LoopTime
      /\ UNCHANGED <<camera, wire, loopAt, relay, forwarded>>
  BY RelayNumbers, CamConstants DEF RelayTick
<1>2. RelayTypeOK'
  <2>1. /\ now \in Nat /\ loopAt \in 0..now /\ s_reasmStartMs \in 0..now
        /\ MaxTime \in Nat
    BY RelayFacts, CamConstants DEF RelayIInv, RelayTypeOK
  <2>2. now' \in 0..MaxTime /\ loopAt \in 0..now' /\ s_reasmStartMs \in 0..now'
    <3>1. now' = now + 1 /\ now' <= MaxTime
      BY <1>1
    <3> QED BY ONLY <2>1, <3>1
  <2> QED BY <1>1, <2>2 DEF RelayIInv, RelayTypeOK, camera, relay
<1>3. Prompt'
  BY <1>1 DEF RelayIInv, Prompt, relay
<1>4. OnWire' /\ Partial' /\ Later' /\ PiecesInPlace' /\ (capture' = 0 => size' = 0)
  BY <1>1 DEF RelayIInv, OnWire, Partial, Later, PiecesInPlace, Passed, Taken, camera, relay
<1>5. Spacing'
  <2>1. now \in Nat /\ readyAt \in Nat /\ Period \in Nat
    BY RelayNumbers
  <2>2. readyAt <= now + Period => readyAt <= (now + 1) + Period
    BY ONLY <2>1
  <2> QED BY <1>1, <2>2 DEF RelayIInv, Spacing, Spaced, OneCapture, camera, relay
<1> QED BY <1>2, <1>3, <1>4, <1>5 DEF RelayIInv

\* A further capture makes what was taken no less so, ...
LEMMA CaptureStep ==
  ASSUME RelayIInv, Capture
  PROVE  RelayIInv'
<1>1. /\ sent = size /\ now >= readyAt /\ capture' = capture + 1
      /\ size' \in 1..MaxChunks /\ sent' = 0 /\ readyAt' = now + Period
      /\ UNCHANGED <<now, booted, wire, loopAt, forwarded>> /\ UNCHANGED relay
  BY DEF Capture
<1>2. RelayTypeOK'
  BY <1>1, RelayFacts, CamConstants DEF RelayIInv, RelayTypeOK, relay
<1>3. \A k : k \in 1..capture => k \in 1..capture' /\ k # capture'
  BY <1>1, RelayNumbers
<1>4. OnWire' /\ Partial' /\ Later'
  BY <1>1, <1>3 DEF RelayIInv, OnWire, Partial, Later, Passed, Taken, relay
<1>5. PiecesInPlace' /\ Prompt' /\ (capture' = 0 => size' = 0)
  BY <1>1, RelayFacts DEF RelayIInv, PiecesInPlace, Prompt, relay
<1>6. ASSUME NEW k \in Nat, NEW t \in Int, k <= capture, t <= now, Spaced(k, t)
      PROVE  readyAt' >= t + (capture' - k) * Period
  <2>1. /\ k \in Int /\ t \in Int /\ capture \in Int /\ readyAt \in Int /\ now \in Int
        /\ t <= now /\ readyAt <= now /\ k <= capture
        /\ capture > k => readyAt >= t + (capture - k) * Period
    BY <1>1, <1>6, RelayFacts DEF Spaced
  <2>2. now + Period >= t + (capture + 1 - k) * Period
    BY <2>1, OnePeriodMore
  <2>3. readyAt' = now + Period /\ capture' = capture + 1 /\ Period \in Int
    BY <1>1, CamAssumption
  <2> QED BY ONLY <2>1, <2>2, <2>3
<1>7. Spacing'
  <2> SUFFICES ASSUME booted = 0
               PROVE  /\ \A i \in 1..Len(wire) :
                           /\ wire[i].frameId = IdOf(wire[i].data.capture)
                           /\ readyAt' >= loopAt + (capture' - wire[i].data.capture) * Period
                      /\ s_reassembling =>
                           /\ s_curFrameId = IdOf(s_camBuf[1].capture)
                           /\ readyAt' >= (s_reasmStartMs - LoopTime)
                                            + (capture' - s_camBuf[1].capture) * Period
                           /\ \A i \in 1..Len(s_camBuf) : s_camBuf[i].capture = s_camBuf[1].capture
                      /\ OneCapture
    <3>1. now \in Nat /\ Period \in Nat
      BY RelayNumbers
    <3>2. readyAt' <= now' + Period
      BY ONLY <1>1, <3>1
    <3> QED BY <1>1, <3>2 DEF Spacing, Spaced, OneCapture, relay
  <2>1. ASSUME NEW i \in 1..Len(wire)
        PROVE  readyAt' >= loopAt + (capture' - wire[i].data.capture) * Period
    <3>1. wire[i].data.capture \in Nat /\ wire[i].data.capture <= capture
      <4>1. Taken(wire[i].data)
        BY DEF RelayIInv, OnWire
      <4>2. wire[i].data.capture \in Nat /\ capture \in Nat
        BY RelayFacts
      <4> QED BY ONLY <4>1, <4>2 DEF Taken
    <3>2. Spaced(wire[i].data.capture, loopAt)
      BY DEF RelayIInv, Spacing
    <3>3. loopAt \in Int /\ loopAt <= now
      BY RelayNumbers
    <3> QED BY <1>6, <3>1, <3>2, <3>3
  <2>2. ASSUME s_reassembling
        PROVE  readyAt' >= (s_reasmStartMs - LoopTime) + (capture' - s_camBuf[1].capture) * Period
    <3>1. s_camBuf[1].capture \in Nat /\ s_camBuf[1].capture <= capture
      BY <2>2, CaptureOfPartial
    <3>2. /\ Spaced(s_camBuf[1].capture, s_reasmStartMs - LoopTime)
          /\ s_reasmStartMs - LoopTime \in Int /\ s_reasmStartMs - LoopTime <= now
      <4>1. Spaced(s_camBuf[1].capture, s_reasmStartMs - LoopTime)
        BY <2>2 DEF RelayIInv, Spacing
      <4>2. /\ s_reasmStartMs \in Nat /\ LoopTime \in Nat /\ now \in Nat
            /\ s_reasmStartMs <= now
        BY RelayNumbers
      <4>3. s_reasmStartMs - LoopTime \in Int /\ s_reasmStartMs - LoopTime <= now
        BY ONLY <4>2
      <4> QED BY <4>1, <4>3
    <3> QED BY <1>6, <3>1, <3>2
  <2> QED BY <2>1, <2>2 DEF RelayIInv, Spacing
<1> QED BY <1>2, <1>4, <1>5, <1>7 DEF RelayIInv

\* ... and a chunk that is sent comes after it.
LEMMA SendChunkStep ==
  ASSUME RelayIInv, SendChunk
  PROVE  RelayIInv'
<1> DEFINE piece == [capture |-> capture, idx |-> sent, total |-> size]
           chunk == [frameId |-> FrameId, idx |-> sent, total |-> size, data |-> piece]
<1>1. /\ sent < size /\ wire' = Append(wire, chunk) /\ sent' = sent + 1
      /\ UNCHANGED <<now, capture, booted, size, readyAt, loopAt, forwarded>> /\ UNCHANGED relay
  BY DEF SendChunk
<1>2. chunk \in Chunks
  <2>1. FrameId \in 0..(FrameIds - 1)
    <3>1. capture - booted - 1 \in Int /\ FrameIds \in Nat \ {0}
      <4>1. capture \in Nat /\ booted \in Nat
        BY RelayFacts
      <4>2. capture - booted - 1 \in Int
        BY ONLY <4>1
      <4> QED BY <4>2, CamConstants
    <3>2. \A x \in Int : x % FrameIds \in 0..(FrameIds - 1)
      BY <3>1
    <3> QED BY <3>1, <3>2 DEF FrameId
  <2>2. size \in 1..MaxChunks /\ sent \in Nat /\ capture \in Nat
    BY <1>1, RelayFacts DEF RelayIInv, RelayTypeOK
  <2> QED BY <2>1, <2>2 DEF Chunks, Pieces
<1>3. /\ chunk.idx = sent /\ chunk.total = size /\ chunk.data = piece /\ chunk.frameId = FrameId
      /\ piece.idx = sent /\ piece.total = size /\ piece.capture = capture
  OBVIOUS
<1> HIDE DEF piece, chunk
<1>4. /\ wire' \in Seq(Chunks) /\ Len(wire') = Len(wire) + 1 /\ Len(wire) \in Nat
      /\ wire'[Len(wire) + 1] = chunk
      /\ \A i \in 1..Len(wire') : i = Len(wire) + 1 \/ (i \in 1..Len(wire) /\ wire'[i] = wire[i])
  <2>1. wire \in Seq(Chunks) /\ wire' = Append(wire, chunk)
    BY <1>1, RelayFacts
  <2> QED BY ONLY <1>2, <2>1
<1>5. RelayTypeOK'
  BY <1>1, <1>4, RelayFacts DEF RelayIInv, RelayTypeOK, relay
<1>6. capture \in 1..capture
  BY <1>1, RelayNumbers
<1>7. \A p : Taken(p) /\ p.idx \in Nat => Taken(p)' /\ Before(p, piece)
  <2>1. capture' = capture /\ sent' = sent + 1 /\ capture \in Nat /\ sent \in Nat
    BY <1>1, RelayFacts
  <2> QED BY ONLY <1>3, <2>1 DEF Taken, Before
<1>8. \A p : Passed(p) /\ p.idx \in Nat => Passed(p)'
  BY <1>3, <1>4, <1>7 DEF Passed
<1>9. OnWire'
  <2> SUFFICES ASSUME NEW i \in 1..Len(wire')
               PROVE  /\ wire'[i].data.idx = wire'[i].idx /\ wire'[i].data.total = wire'[i].total
                      /\ wire'[i].idx < wire'[i].total
                      /\ Taken(wire[i].data)'
                      /\ \A j \in 1..Len(wire') : i < j => Before(wire'[i].data, wire'[j].data)
    BY DEF OnWire
  <2>1. CASE i = Len(wire) + 1
    <3>1. Taken(wire[i].data)'
      <4>1. /\ capture \in 1..capture /\ sent < sent + 1
        BY <1>6, RelayNumbers
      <4> QED BY <1>1, <1>3, <1>4, <2>1, <4>1 DEF Taken
    <3> QED BY <1>1, <1>3, <1>4, <2>1, <3>1
  <2>2. CASE i \in 1..Len(wire) /\ wire'[i] = wire[i]
    <3>1. Taken(wire[i].data) /\ wire[i].data.idx \in Nat
      BY <2>2, RelayFacts DEF RelayIInv, OnWire
    <3>2. Taken(wire[i].data)' /\ Before(wire'[i].data, piece)
      BY <1>1, <1>7, <2>2, <3>1 DEF Taken
    <3>3. \A j \in 1..Len(wire') : i < j => Before(wire'[i].data, wire'[j].data)
      BY <1>3, <1>4, <2>2, <3>2 DEF RelayIInv, OnWire
    <3> QED BY <2>2, <3>2, <3>3 DEF RelayIInv, OnWire
  <2> QED BY <1>4, <2>1, <2>2
<1>10. Partial'
  BY <1>1, <1>8, RelayFacts DEF RelayIInv, Partial, relay
<1>11. Later'
  BY <1>1, <1>8, RelayFacts DEF RelayIInv, Later, relay
<1>12. PiecesInPlace' /\ Prompt' /\ (capture' = 0 => size' = 0)
  BY <1>1 DEF RelayIInv, PiecesInPlace, Prompt, relay
<1>13. Spacing'
  <2> SUFFICES ASSUME booted = 0
               PROVE  /\ capture > 0 => readyAt <= now + Period
                      /\ \A i \in 1..Len(wire') :
                           /\ wire'[i].frameId = IdOf(wire'[i].data.capture)
                           /\ Spaced(wire'[i].data.capture, loopAt)
                      /\ s_reassembling =>
                           /\ s_curFrameId = IdOf(s_camBuf[1].capture)
                           /\ Spaced(s_camBuf[1].capture, s_reasmStartMs - LoopTime)
                           /\ \A i \in 1..Len(s_camBuf) : s_camBuf[i].capture = s_camBuf[1].capture
                      /\ OneCapture
    BY <1>1 DEF Spacing, Spaced, OneCapture, relay
  <2>1. chunk.frameId = IdOf(capture)
    <3>1. capture - booted - 1 = capture - 1
      BY RelayFacts
    <3> QED BY <1>3, <3>1 DEF FrameId, IdOf
  <2>2. Spaced(capture, loopAt)
    BY RelayFacts DEF Spaced
  <2> QED BY <1>3, <1>4, <2>1, <2>2 DEF RelayIInv, Spacing
<1> QED BY <1>5, <1>9, <1>10, <1>11, <1>12, <1>13 DEF RelayIInv

LEMMA CameraResetStep ==
  ASSUME RelayIInv, CameraReset
  PROVE  RelayIInv'
<1>1. /\ booted' = capture /\ sent' = size /\ readyAt' = now + BootTime
      /\ UNCHANGED <<now, capture, size, wire, loopAt, forwarded>> /\ UNCHANGED relay
  BY DEF CameraReset
<1>2. RelayTypeOK'
  BY <1>1, RelayFacts, CamConstants DEF RelayIInv, RelayTypeOK, relay
<1>3. \A p : Taken(p) /\ p.idx \in Nat => Taken(p)'
  <2>1. \A n \in Nat : n < sent => n < size
    BY RelayNumbers
  <2> QED BY <1>1, <2>1 DEF Taken
<1>4. OnWire'
  BY <1>1, <1>3, RelayFacts DEF RelayIInv, OnWire
<1>5. Partial' /\ Later'
  BY <1>1, <1>3, RelayFacts DEF RelayIInv, Partial, Later, Passed, relay
<1>6. PiecesInPlace' /\ Prompt' /\ (capture' = 0 => size' = 0)
  BY <1>1 DEF RelayIInv, PiecesInPlace, Prompt, relay
<1>7. Spacing'
  <2>1. CASE capture = 0
    <3>1. Len(wire) = 0
      BY <2>1, RelayFacts DEF RelayIInv, OnWire, Taken
    <3>2. ~s_reassembling
      BY <2>1, CaptureOfPartial
    <3>3. OneCapture
      BY <2>1, RelayFacts DEF RelayIInv, Spacing
    <3> QED BY <1>1, <2>1, <3>1, <3>2, <3>3 DEF Spacing, OneCapture, relay
  <2>2. CASE capture # 0
    BY <1>1, <2>2 DEF Spacing
  <2> QED BY <2>1, <2>2
<1> QED BY <1>2, <1>4, <1>5, <1>6, <1>7 DEF RelayIInv

\* Until the camera resets, a chunk with the id of the partial frame is of the
\* same capture: a later one with that id comes when the frame is too old.
LEMMA SameCapture ==
  ASSUME RelayIInv, booted = 0, wire # <<>>, s_reassembling, wire[1].frameId = s_curFrameId
  PROVE  wire[1].data.capture = s_camBuf[1].capture
<1> DEFINE c == s_camBuf[1].capture
           d == wire[1].data.capture
           last == s_camBuf[Len(s_camBuf)]
<1>1. 1 \in 1..Len(wire)
  <2>1. wire \in Seq(Chunks)
    BY RelayFacts
  <2> QED BY <2>1
<1>2. c \in Int /\ d \in Int /\ last.capture \in Int /\ capture \in Int
  <2>1. 1 \in 1..Len(s_camBuf) /\ Len(s_camBuf) \in 1..Len(s_camBuf) /\ capture \in Nat
    BY RelayFacts
  <2>2. d \in Nat
    BY <1>1, RelayFacts
  <2>3. c \in Nat /\ last.capture \in Nat
    BY <2>1, RelayFacts
  <2> QED BY <2>1, <2>2, <2>3
<1>3. c <= last.capture /\ Before(last, wire[1].data)
  BY <1>1 DEF RelayIInv, Partial, Passed
<1>4. c <= d
  BY <1>2, <1>3 DEF Before
<1>5. d <= capture
  BY <1>1, <1>2 DEF RelayIInv, OnWire, Taken
<1>6. IdOf(c) = IdOf(d)
  BY <1>1 DEF RelayIInv, Spacing
<1>7. Spaced(c, s_reasmStartMs - LoopTime)
  BY DEF RelayIInv, Spacing
<1> HIDE DEF c, d, last
<1>8. c = d \/ d - c >= FrameIds
  BY <1>2, <1>4, <1>6, IdsRepeat
<1>9. ASSUME d - c >= FrameIds
      PROVE  FALSE
  <2>1. capture - c >= FrameIds /\ capture > c
    BY <1>2, <1>5, <1>9, CamAssumption
  <2>2. (capture - c) * Period > Period + Timeout + 2 * LoopTime
    BY <1>2, <2>1, ManyPeriods
  <2>3. readyAt >= (s_reasmStartMs - LoopTime) + (capture - c) * Period
    BY <1>7, <2>1 DEF Spaced
  <2>4. /\ readyAt \in Int /\ s_reasmStartMs \in Int /\ LoopTime \in Int /\ now \in Int
        /\ loopAt \in Int /\ Timeout \in Int /\ Period \in Int /\ (capture - c) * Period \in Int
    BY <1>2, RelayFacts
  <2>5. capture > 0
    BY CaptureOfPartial
  <2>6. readyAt <= now + Period
    BY <2>5 DEF RelayIInv, Spacing
  <2>7. now - loopAt <= LoopTime /\ loopAt - s_reasmStartMs <= Timeout
    BY DEF RelayIInv, Prompt
  <2> QED BY ONLY <2>2, <2>3, <2>4, <2>6, <2>7
<1> QED BY <1>8, <1>9 DEF c, d

Collected(chunk) == Append(IF chunk.idx = 0 THEN <<>> ELSE s_camBuf, chunk.data)

\* What the buffer holds when a chunk has been accepted.
LEMMA Accepted ==
  ASSUME RelayIInv, wire # <<>>, NEW chunk, chunk = Head(wire),
         Belongs(chunk), InSequence(chunk), Fits(chunk),
         NEW buf, buf = Collected(chunk)
  PROVE  /\ chunk \in Chunks /\ 1 \in 1..Len(wire) /\ chunk = wire[1]
         /\ buf \in Seq(Pieces) /\ Len(buf) = chunk.idx + 1 /\ Len(buf) <= BufChunks
         /\ \A i \in 1..Len(buf) : buf[i].idx = i - 1 /\ buf[i].total = chunk.total
         /\ buf[Len(buf)] = chunk.data /\ buf[1].capture <= chunk.data.capture
         /\ forwarded # <<>> => forwarded[Len(forwarded)].capture < buf[1].capture
         /\ booted = 0 => \A i \in 1..Len(buf) : buf[i].capture = chunk.data.capture
<1>1. 1 \in 1..Len(wire) /\ chunk = wire[1] /\ chunk \in Chunks
  <2>1. wire \in Seq(Chunks)
    BY RelayFacts
  <2> QED BY <2>1
<1>2. /\ chunk.data \in Pieces /\ chunk.data.idx = chunk.idx /\ chunk.data.total = chunk.total
      /\ chunk.data.capture \in Nat /\ chunk.idx \in Nat
  BY <1>1 DEF RelayIInv, OnWire, Chunks, Pieces
<1>3. CASE chunk.idx = 0
  <2>1. buf = <<chunk.data>>
    BY <1>3 DEF Collected
  <2>2. /\ buf \in Seq(Pieces) /\ Len(buf) = 1 /\ buf[1] = chunk.data
        /\ \A i \in 1..Len(buf) : i = 1
    <3>1. chunk.data \in Pieces
      BY <1>2
    <3> QED BY ONLY <2>1, <3>1
  <2>3. BufChunks >= 1
    BY CamAssumption
  <2>4. forwarded # <<>> => forwarded[Len(forwarded)].capture < chunk.data.capture
    <3> SUFFICES ASSUME forwarded # <<>>
                 PROVE  forwarded[Len(forwarded)].capture < chunk.data.capture
      OBVIOUS
    <3>1. Before(forwarded[Len(forwarded)], chunk.data)
      BY <1>1 DEF RelayIInv, Later, Passed
    <3>2. forwarded[Len(forwarded)].capture \in Nat /\ forwarded[Len(forwarded)].idx \in Nat
      BY RelayFacts
    <3> QED BY ONLY <1>2, <1>3, <3>1, <3>2 DEF Before
  <2>5. chunk.data.idx = 0 /\ chunk.data.total = chunk.total
    BY <1>2, <1>3
  <2>6. \A i \in 1..Len(buf) : buf[i].idx = i - 1 /\ buf[i].total = chunk.total
    BY ONLY <2>2, <2>5
  <2>7. /\ buf \in Seq(Pieces) /\ Len(buf) = chunk.idx + 1 /\ Len(buf) <= BufChunks
        /\ buf[Len(buf)] = chunk.data /\ buf[1].capture <= chunk.data.capture
    BY <1>2, <1>3, <2>2, <2>3
  <2>8. forwarded # <<>> => forwarded[Len(forwarded)].capture < buf[1].capture
    BY <2>2, <2>4
  <2>9. \A i \in 1..Len(buf) : buf[i].capture = chunk.data.capture
    BY <2>2
  <2> QED BY ONLY <1>1, <2>6, <2>7, <2>8, <2>9
<1>4. CASE chunk.idx # 0
  <2>1. /\ s_reassembling /\ chunk.frameId = s_curFrameId /\ chunk.idx = s_nextChunkIdx
        /\ chunk.total = s_curChunkTotal /\ Len(s_camBuf) < BufChunks
    BY <1>4 DEF Belongs, InSequence, Fits
  <2>2. /\ s_camBuf \in Seq(Pieces) /\ Len(s_camBuf) \in 1..Len(s_camBuf) /\ 1 \in 1..Len(s_camBuf)
        /\ BufChunks \in Nat
    BY <2>1, RelayFacts, CamAssumption
  <2>3. buf = Append(s_camBuf, chunk.data)
    BY <1>4 DEF Collected
  <2>4. /\ buf \in Seq(Pieces) /\ Len(buf) = Len(s_camBuf) + 1 /\ Len(buf) <= BufChunks
        /\ buf[Len(buf)] = chunk.data /\ buf[1] = s_camBuf[1] /\ 1 \in 1..Len(buf)
        /\ \A i \in 1..Len(buf) : (i \in 1..Len(s_camBuf) /\ buf[i] = s_camBuf[i])
                                  \/ (i = Len(s_camBuf) + 1 /\ buf[i] = chunk.data)
    <3>1. /\ s_camBuf \in Seq(Pieces) /\ chunk.data \in Pieces /\ Len(s_camBuf) \in Nat \ {0}
          /\ Len(s_camBuf) < BufChunks
      BY <1>2, <2>1, <2>2
    <3> QED BY ONLY <2>2, <2>3, <3>1
  <2>5. /\ Len(s_camBuf) = chunk.idx
        /\ \A i \in 1..Len(s_camBuf) : s_camBuf[i].idx = i - 1 /\ s_camBuf[i].total = chunk.total
        /\ s_camBuf[1].capture <= s_camBuf[Len(s_camBuf)].capture
        /\ Before(s_camBuf[Len(s_camBuf)], chunk.data)
    BY <1>1, <2>1 DEF RelayIInv, Partial, Passed
  <2>6. Len(buf) = chunk.idx + 1 /\ \A i \in 1..Len(buf) : buf[i].idx = i - 1 /\ buf[i].total = chunk.total
    <3>1. chunk.data.idx = Len(s_camBuf) /\ chunk.data.total = chunk.total /\ Len(s_camBuf) \in Nat
      BY <1>2, <2>2, <2>5
    <3>2. ASSUME NEW i \in 1..Len(buf)
          PROVE  buf[i].idx = i - 1 /\ buf[i].total = chunk.total
      <4>1. CASE i \in 1..Len(s_camBuf) /\ buf[i] = s_camBuf[i]
        BY <2>5, <4>1
      <4>2. CASE i = Len(s_camBuf) + 1 /\ buf[i] = chunk.data
        BY ONLY <3>1, <4>2
      <4> QED BY <2>4, <4>1, <4>2
    <3> QED BY <2>4, <2>5, <3>2
  <2>7. buf[1].capture <= chunk.data.capture
    <3>1. s_camBuf[1].capture \in Nat /\ s_camBuf[Len(s_camBuf)].capture \in Nat
      BY <2>2, RelayFacts
    <3>2. buf[1] = s_camBuf[1] /\ chunk.data.capture \in Nat
      BY <1>2, <2>4
    <3> QED BY ONLY <2>5, <3>1, <3>2 DEF Before
  <2>8. forwarded # <<>> => forwarded[Len(forwarded)].capture < buf[1].capture
    BY <2>1, <2>4 DEF RelayIInv, Later
  <2>9. ASSUME booted = 0
        PROVE  \A i \in 1..Len(buf) : buf[i].capture = chunk.data.capture
    <3>1. chunk.data.capture = s_camBuf[1].capture
      BY <1>1, <2>1, <2>9, SameCapture
    <3>2. \A i \in 1..Len(s_camBuf) : s_camBuf[i].capture = s_camBuf[1].capture
      BY <2>1, <2>9 DEF RelayIInv, Spacing
    <3> QED BY <2>4, <3>1, <3>2
  <2> QED BY <1>1, <2>4, <2>6, <2>7, <2>8, <2>9
<1> QED BY <1>3, <1>4

\* A chunk that has been read is passed by what is behind it.
LEMMA ReadIsPassed ==
  ASSUME RelayIInv, UNCHANGED camera, wire # <<>>, wire' = Tail(wire), 1 \in 1..Len(wire),
         NEW p, p = wire[1].data
  PROVE  Passed(p)'
<1>1. Taken(wire[1].data) /\ \A j \in 1..Len(wire) : j > 1 => Before(wire[1].data, wire[j].data)
  BY DEF RelayIInv, OnWire
<1>2. wire \in Seq(Chunks)
  BY RelayFacts
<1>3. \A i \in 1..Len(wire') : wire'[i] = wire[i + 1] /\ i + 1 \in 1..Len(wire) /\ i + 1 > 1
  BY <1>2
<1>4. \A i \in 1..Len(wire') : Before(p, wire'[i].data)
  BY <1>1, <1>3
<1>5. Taken(p) /\ capture' = capture /\ sent' = sent
  BY <1>1 DEF camera
<1> QED BY <1>4, <1>5 DEF Passed, Taken

LEMMA ProcessChunkStep ==
  ASSUME RelayIInv, ProcessChunk
  PROVE  RelayIInv'
<1>1. /\ wire # <<>> /\ wire' = Tail(wire) /\ UNCHANGED <<now, camera>> /\ UNCHANGED loopAt
  BY DEF ProcessChunk
<1>2. PICK chunk : chunk = Head(wire)
  OBVIOUS
<1>3. \/ UNCHANGED relay /\ UNCHANGED forwarded
      \/ discard_reassembly /\ UNCHANGED forwarded
      \/ Belongs(chunk) /\ InSequence(chunk) /\ Fits(chunk) /\ Accept(chunk)
  BY <1>2 DEF ProcessChunk
<1>4. /\ wire' \in Seq(Chunks) /\ OnWire'
      /\ \A p : Passed(p) => Passed(p)'
  BY <1>1, WireShrinks
<1>5. \A i \in 1..Len(wire') : \E j \in 1..Len(wire) : wire'[i] = wire[j]
  BY <1>1, WireShrinks
<1>6. CASE UNCHANGED relay /\ UNCHANGED forwarded
  <2>1. RelayTypeOK' /\ Prompt'
    BY <1>1, <1>4, <1>6 DEF RelayIInv, RelayTypeOK, Prompt, relay, camera
  <2> QED BY <1>1, <1>6, <2>1, RelayKept
<1>7. CASE discard_reassembly /\ UNCHANGED forwarded
  <2>1. NoFrame' /\ s_reasmStartMs' = s_reasmStartMs
    BY <1>7 DEF discard_reassembly, NoFrame
  <2>2. /\ loopAt' \in 0..now /\ s_reasmStartMs' \in 0..now
        /\ forwarded' \in Seq(Pieces) /\ Len(forwarded') <= BufChunks
    BY <1>1, <1>7, <2>1 DEF RelayIInv, RelayTypeOK
  <2>3. RelayTypeOK'
    BY <1>1, <1>4, <2>1, <2>2, NoFrameTypes
  <2>4. Prompt'
    BY <1>1, <2>1 DEF RelayIInv, Prompt, NoFrame
  <2> QED BY <1>1, <1>7, <2>1, <2>3, <2>4, RelayKept
<1>8. CASE Belongs(chunk) /\ InSequence(chunk) /\ Fits(chunk) /\ Accept(chunk)
  <2>1. PICK buf : buf = Collected(chunk)
    OBVIOUS
  <2>2. /\ chunk \in Chunks /\ 1 \in 1..Len(wire) /\ chunk = wire[1]
        /\ buf \in Seq(Pieces) /\ Len(buf) = chunk.idx + 1 /\ Len(buf) <= BufChunks
        /\ \A i \in 1..Len(buf) : buf[i].idx = i - 1 /\ buf[i].total = chunk.total
        /\ buf[Len(buf)] = chunk.data /\ buf[1].capture <= chunk.data.capture
        /\ forwarded # <<>> => forwarded[Len(forwarded)].capture < buf[1].capture
        /\ booted = 0 => \A i \in 1..Len(buf) : buf[i].capture = chunk.data.capture
    BY <1>1, <1>2, <1>8, <2>1, Accepted
  <2>3. chunk.idx \in Nat /\ chunk.total \in 1..MaxChunks /\ chunk.frameId \in 0..(FrameIds - 1)
    BY <2>2 DEF Chunks
  <2>4. Passed(chunk.data)'
    BY <1>1, <2>2, ReadIsPassed
  <2>5. buf # <<>> /\ 1 \in 1..Len(buf) /\ Len(buf) \in 1..Len(buf)
    BY <2>2, <2>3
  <2>6. capture' = capture /\ size' = size /\ booted' = booted /\ readyAt' = readyAt /\ now' = now
    BY <1>1 DEF camera
  <2>7. \A i \in 1..Len(wire') : booted = 0 =>
          wire'[i].frameId = IdOf(wire'[i].data.capture) /\ Spaced(wire'[i].data.capture, loopAt)
    BY <1>5 DEF RelayIInv, Spacing
  <2>8. CASE chunk.idx = chunk.total - 1
    <3>1. NoFrame' /\ s_reasmStartMs' = s_reasmStartMs /\ (forwarded' = buf \/ forwarded' = forwarded)
      BY <1>8, <2>1, <2>8 DEF Accept, Collected, discard_reassembly, NoFrame
    <3>2. /\ loopAt' \in 0..now /\ s_reasmStartMs' \in 0..now
          /\ forwarded' \in Seq(Pieces) /\ Len(forwarded') <= BufChunks
      BY <1>1, <2>2, <3>1 DEF RelayIInv, RelayTypeOK
    <3>3. RelayTypeOK'
      BY <1>1, <1>4, <3>1, <3>2, NoFrameTypes
    <3>4. Prompt'
      BY <1>1, <3>1 DEF RelayIInv, Prompt, NoFrame
    <3>5. CASE forwarded' = forwarded
      BY <1>1, <3>1, <3>3, <3>4, <3>5, RelayKept
    <3>6. CASE forwarded' = buf
      <4>1. Partial'
        BY <3>1 DEF Partial, NoFrame
      <4>2. Later'
        BY <2>2, <2>4, <3>1, <3>6 DEF Later, NoFrame
      <4>3. PiecesInPlace'
        BY <2>2, <2>3, <2>8, <3>6 DEF PiecesInPlace
      <4>4. booted = 0 => OneCapture'
        BY <2>2, <2>5, <3>6 DEF OneCapture
      <4>5. Spacing'
        BY <1>1, <2>6, <2>7, <3>1, <4>4 DEF RelayIInv, Spacing, Spaced, NoFrame
      <4>6. capture' = 0 => size' = 0
        BY <2>6 DEF RelayIInv
      <4> QED BY <1>4, <3>3, <3>4, <4>1, <4>2, <4>3, <4>5, <4>6 DEF RelayIInv
    <3> QED BY <3>1, <3>5, <3>6
  <2>9. CASE chunk.idx # chunk.total - 1
    <3>1. /\ s_reassembling' = TRUE /\ s_curFrameId' = chunk.frameId
          /\ s_curChunkTotal' = chunk.total /\ s_nextChunkIdx' = chunk.idx + 1
          /\ s_camBuf' = buf /\ forwarded' = forwarded
          /\ s_reasmStartMs' = IF chunk.idx = 0 THEN now ELSE s_reasmStartMs
      BY <1>8, <2>1, <2>9 DEF Accept, Collected
    <3>2. /\ loopAt \in Nat /\ now \in Nat /\ loopAt <= now /\ s_reasmStartMs \in Nat
          /\ s_reasmStartMs <= now /\ LoopTime \in Nat /\ Timeout \in Nat /\ now - loopAt <= LoopTime
      BY RelayFacts DEF RelayIInv, Prompt
    <3>3. chunk.idx # 0 => s_reassembling /\ chunk.frameId = s_curFrameId
      BY <1>8 DEF Belongs
    <3>4. RelayTypeOK'
      <4>1. s_reassembling' \in BOOLEAN
        BY <3>1, Zenon
      <4>2. s_curChunkTotal' \in 0..MaxChunks /\ s_nextChunkIdx' \in Nat /\ s_reasmStartMs' \in 0..now
        BY <2>3, <3>1, <3>2, CamAssumption
      <4> QED BY <1>1, <1>4, <2>2, <2>3, <3>1, <4>1, <4>2 DEF RelayIInv, RelayTypeOK, camera
    <3>5. Prompt'
      <4>1. chunk.idx # 0 => loopAt - s_reasmStartMs <= Timeout
        BY <3>3 DEF RelayIInv, Prompt
      <4> QED BY <1>1, <3>1, <3>2, <4>1 DEF Prompt
    <3>6. Partial'
      BY <2>2, <2>4, <2>5, <3>1 DEF Partial
    <3>7. Later'
      BY <1>4, <2>2, <3>1 DEF RelayIInv, Later
    <3>8. PiecesInPlace' /\ (capture' = 0 => size' = 0)
      BY <2>6, <3>1 DEF RelayIInv, PiecesInPlace
    <3>9. Spacing'
      <4> SUFFICES ASSUME booted = 0
                   PROVE  /\ s_curFrameId' = IdOf(buf[1].capture)
                          /\ Spaced(buf[1].capture, s_reasmStartMs' - LoopTime)
                          /\ \A i \in 1..Len(buf) : buf[i].capture = buf[1].capture
        BY <1>1, <2>6, <2>7, <3>1 DEF RelayIInv, Spacing, Spaced, OneCapture
      <4>1. buf[1].capture = chunk.data.capture
        BY <2>2, <2>5
      <4>2. chunk.frameId = IdOf(chunk.data.capture) /\ Spaced(chunk.data.capture, loopAt)
        BY <2>2 DEF RelayIInv, Spacing
      <4>3. Spaced(chunk.data.capture, s_reasmStartMs' - LoopTime)
        <5>1. CASE chunk.idx = 0
          <6>1. s_reasmStartMs' = now /\ now - LoopTime <= loopAt
            BY <3>1, <3>2, <5>1
          <6>2. (capture - chunk.data.capture) * Period \in Int /\ readyAt \in Int
            <7>1. /\ capture \in Int /\ chunk.data.capture \in Int /\ Period \in Int
                  /\ readyAt \in Int
              <8>1. wire[1].data.capture \in Nat /\ capture \in Nat /\ readyAt \in Nat /\ Period \in Nat
                BY <2>2, RelayFacts
              <8> QED BY <2>2, <8>1
            <7> QED BY ONLY <7>1
          <6> QED BY ONLY <3>2, <4>2, <6>1, <6>2 DEF Spaced
        <5>2. CASE chunk.idx # 0
          <6>1. s_reasmStartMs' = s_reasmStartMs /\ s_reassembling
            BY <3>1, <3>3, <5>2
          <6>2. chunk.data.capture = s_camBuf[1].capture
            BY <1>1, <2>2, <3>3, <5>2, SameCapture
          <6> QED BY <6>1, <6>2 DEF RelayIInv, Spacing
        <5> QED BY <5>1, <5>2
      <4> QED BY <2>2, <3>1, <4>1, <4>2, <4>3
    <3> QED BY <1>4, <3>4, <3>5, <3>6, <3>7, <3>8, <3>9 DEF RelayIInv
  <2> QED BY <2>8, <2>9
<1> QED BY <1>3, <1>6, <1>7, <1>8

-----------------------------------------------------------------------------
\* The relay.

LEMMA RelayInitially == RelayInit => RelayIInv
<1> SUFFICES ASSUME RelayInit
             PROVE  RelayIInv
  OBVIOUS
<1>1. Len(wire) = 0 /\ Len(forwarded) = 0 /\ s_camBuf = <<>> /\ ~s_reassembling
  BY DEF RelayInit
<1>2. s_reassembling \in BOOLEAN
  BY Zenon DEF RelayInit
<1>3. RelayTypeOK
  BY <1>2, CamConstants DEF RelayInit, RelayTypeOK
<1>4. OnWire /\ Partial /\ Later /\ PiecesInPlace /\ (capture = 0 => size = 0)
  BY <1>1 DEF RelayInit, OnWire, Partial, Later, PiecesInPlace
<1>5. Prompt
  BY CamAssumption DEF RelayInit, Prompt
<1>6. Spacing
  BY <1>1 DEF RelayInit, Spacing, OneCapture
<1> QED BY <1>3, <1>4, <1>5, <1>6 DEF RelayIInv

LEMMA RelayInductive == RelayIInv /\ [RelayNext]_relayVars => RelayIInv'
<1> SUFFICES ASSUME RelayIInv, [RelayNext]_relayVars
             PROVE  RelayIInv'
  OBVIOUS
<1>1. CASE Capture
  BY <1>1, CaptureStep
<1>2. CASE SendChunk
  BY <1>2, SendChunkStep
<1>3. CASE CameraReset
  BY <1>3, CameraResetStep
<1>4. CASE Loop
  BY <1>4, LoopStep
<1>5. CASE ProcessChunk
  BY <1>5, ProcessChunkStep
<1>6. CASE LoseChunk
  BY <1>6, LoseChunkStep
<1>7. CASE NodeReset
  BY <1>7, NodeResetStep
<1>8. CASE RelayTick
  BY <1>8, RelayTickStep
<1>9. CASE UNCHANGED relayVars
  BY <1>9 DEF relayVars, camera, relay, RelayIInv, RelayTypeOK, OnWire, Partial, Later,
              PiecesInPlace, Prompt, Spacing, Spaced, OneCapture, Passed, Taken
<1> QED BY <1>1, <1>2, <1>3, <1>4, <1>5, <1>6, <1>7, <1>8, <1>9 DEF RelayNext

LEMMA RelayInvariant == RelaySpec => []RelayIInv
BY RelayInitially, RelayInductive, PTL DEF RelaySpec

\* The buffer is never written past its end (process_chunk, CAM_BUF_SIZE), and
\* what the relay keeps has its type.
THEOREM RelayTypeCorrect == RelaySpec => []RelayTypeOK
<1>1. RelayIInv => RelayTypeOK
  BY DEF RelayIInv
<1> QED BY <1>1, RelayInvariant, PTL

\* A frame that is forwarded has every piece in its place and, until the camera
\* resets, is of one capture, for ids of any width that lasts longer than a
\* partial frame may (process_chunk, cam_relay_loop).
THEOREM FramesAreWhole == RelaySpec => []FramesWhole
<1>1. RelayIInv => FramesWhole
  BY DEF RelayIInv, FramesWhole, Spacing
<1> QED BY <1>1, RelayInvariant, PTL

\* The node base forwards only what is later than all it forwarded before.
LEMMA ForwardsLater ==
  ASSUME RelayIInv, ProcessChunk, forwarded' # forwarded
  PROVE  Delivered' \in (Delivered + 1)..capture
<1>1. wire # <<>>
  BY DEF ProcessChunk
<1>2. PICK chunk : chunk = Head(wire)
  OBVIOUS
<1>3. PICK buf : buf = Collected(chunk)
  OBVIOUS
<1>4. Belongs(chunk) /\ InSequence(chunk) /\ Fits(chunk) /\ forwarded' = buf
  BY <1>2, <1>3 DEF ProcessChunk, Accept, Collected
<1>5. /\ 1 \in 1..Len(wire) /\ chunk = wire[1] /\ chunk \in Chunks /\ Len(buf) = chunk.idx + 1
      /\ buf \in Seq(Pieces) /\ buf[Len(buf)] = chunk.data /\ buf[1].capture <= chunk.data.capture
      /\ forwarded # <<>> => forwarded[Len(forwarded)].capture < buf[1].capture
  BY <1>1, <1>2, <1>3, <1>4, Accepted
<1>6. chunk.data.capture \in 1..capture
  BY <1>5 DEF RelayIInv, OnWire, Taken
<1>7. Len(buf) # 0
  BY <1>5 DEF Chunks
<1>8. Delivered' = chunk.data.capture
  BY <1>4, <1>5, <1>7 DEF Delivered
<1>9. capture \in Int /\ chunk.data.capture \in Int /\ buf[1].capture \in Int
  <2>1. capture \in Nat /\ wire[1].data.capture \in Nat
    BY <1>5, RelayFacts
  <2>2. buf[1] \in Pieces
    BY <1>5, <1>7
  <2> QED BY <1>5, <2>1, <2>2 DEF Pieces
<1>10. CASE forwarded = <<>>
  BY <1>6, <1>8, <1>9, <1>10 DEF Delivered
<1>11. CASE forwarded # <<>>
  <2>1. Delivered = forwarded[Len(forwarded)].capture /\ Delivered \in Int
    BY <1>11, RelayFacts DEF Delivered
  <2>2. Delivered < buf[1].capture
    BY <1>5, <1>11, <2>1
  <2>3. buf[1].capture <= chunk.data.capture
    BY <1>5
  <2> QED BY ONLY <1>6, <1>8, <1>9, <2>1, <2>2, <2>3
<1> QED BY <1>10, <1>11

LEMMA RelayStepDelivers ==
  RelayIInv /\ RelayIInv' /\ [RelayNext]_relayVars => [Delivery!Next]_(Delivery!vars)
<1> SUFFICES ASSUME RelayIInv, RelayIInv', [RelayNext]_relayVars
             PROVE  [Delivery!Next]_(Delivery!vars)
  OBVIOUS
<1> USE DEF Delivery!Next, Delivery!vars
<1>1. ASSUME forwarded' = forwarded
      PROVE  /\ Delivered' = Delivered
             /\ (PiecesInPlace /\ OneCapture)' = (PiecesInPlace /\ OneCapture)
  BY <1>1 DEF Delivered, PiecesInPlace, OneCapture
<1>2. CASE Capture
  <2>1. forwarded' = forwarded /\ capture' = capture + 1 /\ booted' = booted
    BY <1>2 DEF Capture
  <2> QED BY <1>1, <2>1 DEF Delivery!Capture
<1>3. CASE CameraReset
  <2>1. forwarded' = forwarded /\ capture' = capture /\ booted' = capture
    BY <1>3 DEF CameraReset
  <2>2. booted \in Nat /\ capture \in Nat /\ booted <= capture
    BY RelayFacts
  <2>3. CASE capture > 0
    <3>1. (booted > 0)' = TRUE
      BY <2>1, <2>3
    <3> QED BY <1>1, <2>1, <3>1 DEF Delivery!Restart
  <2>4. CASE capture = 0
    <3>1. booted' = booted
      BY <2>1, <2>2, <2>4
    <3> QED BY <1>1, <2>1, <3>1
  <2> QED BY <2>2, <2>3, <2>4
<1>4. CASE ProcessChunk
  <2>1. capture' = capture /\ booted' = booted
    BY <1>4 DEF ProcessChunk, camera
  <2>2. CASE forwarded' = forwarded
    BY <1>1, <2>1, <2>2
  <2>3. CASE forwarded' # forwarded
    <3>1. Delivered' \in (Delivered + 1)..capture
      BY <1>4, <2>3, ForwardsLater
    <3>2. (PiecesInPlace /\ OneCapture)' \in BOOLEAN
      BY Zenon
    <3>3. (PiecesInPlace /\ OneCapture)' \/ booted > 0
      BY <2>1, RelayFacts DEF RelayIInv, Spacing
    <3> QED BY <2>1, <3>1, <3>2, <3>3 DEF Delivery!Deliver
  <2> QED BY <2>2, <2>3
<1>5. CASE SendChunk \/ Loop \/ LoseChunk \/ NodeReset \/ RelayTick \/ UNCHANGED relayVars
  <2>1. capture' = capture /\ booted' = booted /\ forwarded' = forwarded
    BY <1>5 DEF SendChunk, Loop, LoseChunk, NodeReset, RelayTick, relayVars, camera
  <2> QED BY <1>1, <2>1
<1> QED BY <1>2, <1>3, <1>4, <1>5 DEF RelayNext

\* The relay implements FrameDelivery: frames arrive at most once, in the order
\* of capture, and whole unless the camera has reset.
THEOREM RelayDelivers == RelaySpec => RelayImplementsDelivery
<1>1. RelayInit => Delivery!Init
  BY DEF RelayInit, Delivery!Init, Delivered, PiecesInPlace, OneCapture
<1> QED
  BY <1>1, RelayInvariant, RelayStepDelivers, PTL
     DEF RelaySpec, RelayImplementsDelivery, Delivery!Spec

-----------------------------------------------------------------------------
\* CameraServer.

\* The types of the variables, the part of TypeOK without the cap.
Types ==
  /\ running \in BOOLEAN
  /\ sock \in [Sockets -> SocketStates]
  /\ clients \subseteq Sockets
  /\ got \in [Sockets -> Frames \cup {None}]
  /\ latest \in Frames \cup {None}
  /\ online \in BOOLEAN
  /\ idleTimer \in 0..Off
  /\ since \in 0..IdleTimeout

\* Only a connection that was taken is in the set.
ClientsTaken == \A c \in clients : sock[c] \in {"open", "closing"}

\* Before a new Core listens, nothing is left of the old one.
DownIsEmpty == ~running => idleTimer = Off /\ latest = None

IInv ==
  /\ Types /\ ClientsTaken /\ DownIsEmpty
  /\ DashboardsCurrent /\ OnlineIffRecent

LEMMA InitIInv == Init => IInv
<1>. SUFFICES ASSUME Init PROVE IInv
  OBVIOUS
<1>1. Types
  <2>1. running \in BOOLEAN /\ online \in BOOLEAN
    BY Zenon DEF Init
  <2>2. idleTimer \in 0..Off /\ since \in 0..IdleTimeout
    BY CameraAssumption DEF Init, Off
  <2>3. sock \in [Sockets -> SocketStates] /\ got \in [Sockets -> Frames \cup {None}]
    BY DEF Init, SocketStates
  <2>4. clients \subseteq Sockets /\ latest \in Frames \cup {None}
    BY DEF Init
  <2>. QED  BY ONLY <2>1, <2>2, <2>3, <2>4 DEF Types
<1>2. ClientsTaken /\ DashboardsCurrent
  BY DEF Init, ClientsTaken, DashboardsCurrent
<1>3. DownIsEmpty
  BY DEF Init, DownIsEmpty
<1>4. OnlineIffRecent
  BY DEF Init, OnlineIffRecent
<1>. QED  BY <1>1, <1>2, <1>3, <1>4 DEF IInv

\* The part of the state that connections change.
Connections == Types /\ ClientsTaken /\ DashboardsCurrent

\* The part of the state that time changes.
Timing == Types /\ DownIsEmpty /\ OnlineIffRecent

-----------------------------------------------------------------------------
\* What keeps the timer and the online state as they are keeps Timing.
LEMMA TimingKept ==
  ASSUME Timing, Types',
         UNCHANGED <<running, latest, online, idleTimer, since>>
  PROVE  Timing'
BY DEF Timing, DownIsEmpty, OnlineIffRecent, Off

\* The step of one connection.
LEMMA ConnectionStep ==
  ASSUME IInv, NEW c \in Sockets,
         Connection(c) \/ GoesDown(c) \/ Error(c) \/ Close(c)
  PROVE  IInv'
<1>. USE DEF IInv, Types, ClientsTaken, DashboardsCurrent, SocketStates
<1>1. UNCHANGED <<running, latest, online, idleTimer, since>>
  BY DEF Connection, GoesDown, Error, Close
<1>2. Connections'
  <2>1. CASE Connection(c)
    BY <2>1 DEF Connection, Admit, Connections
  <2>2. CASE GoesDown(c)
    BY <2>2 DEF GoesDown, Connections
  <2>3. CASE Error(c)
    BY <2>3 DEF Error, Connections
  <2>4. CASE Close(c)
    BY <2>4 DEF Close, Connections
  <2>. QED  BY <2>1, <2>2, <2>3, <2>4
<1>3. Timing'
  BY <1>1, <1>2, TimingKept DEF Timing, Connections
<1>. QED  BY <1>2, <1>3 DEF Connections, Timing

\* A frame: the timer starts over and every open client gets it.
LEMMA FrameStep ==
  ASSUME IInv, NEW frame \in Frames, HandleFrame(frame)
  PROVE  IInv'
<1>. USE CameraAssumption DEF IInv, Types
<1>1. Connections'
  BY DEF HandleFrame, resetIdleTimer, Off, Connections, ClientsTaken, DashboardsCurrent
<1>2. Timing'
  BY <1>1 DEF HandleFrame, resetIdleTimer, Off, Timing, Connections, DownIsEmpty, OnlineIffRecent
<1>. QED  BY <1>1, <1>2 DEF Connections, Timing

\* Time: the timer and the age of the last frame move together.
LEMMA TimeStep ==
  ASSUME IInv, Idle \/ Tick
  PROVE  IInv'
<1>. USE CameraAssumption DEF IInv, Types, Off
<1>1. UNCHANGED <<running, sock, clients, got, latest>>
  BY DEF Idle, Tick
<1>2. Types'
  <2>1. online' \in BOOLEAN
    BY Zenon DEF Idle, Tick
  <2>2. idleTimer' \in 0..Off /\ since' \in 0..IdleTimeout
    <3>1. CASE Idle
      BY <3>1 DEF Idle
    <3>2. CASE Tick
      BY <3>2 DEF Tick
    <3>. QED  BY <3>1, <3>2
  <2>. QED  BY <1>1, <2>1, <2>2
<1>3. Connections'
  BY <1>1, <1>2 DEF Connections, ClientsTaken, DashboardsCurrent
<1>4. Timing'
  <2>1. CASE Idle
    BY <2>1, <1>2 DEF Idle, Timing, DownIsEmpty, OnlineIffRecent
  <2>2. CASE Tick
    BY <2>2, <1>2 DEF Tick, Timing, DownIsEmpty, OnlineIffRecent
  <2>. QED  BY <2>1, <2>2
<1>. QED  BY <1>3, <1>4 DEF Connections, Timing

\* The process ends and starts.
LEMMA ProcessStep ==
  ASSUME IInv, Shutdown \/ Start
  PROVE  IInv'
<1>. USE DEF IInv, Types
<1>1. CASE Shutdown
  <2>1. running' \in BOOLEAN /\ online' \in BOOLEAN
    BY <1>1, Zenon DEF Shutdown
  <2>2. idleTimer' \in 0..Off /\ since' \in 0..IdleTimeout
    BY <1>1, CameraAssumption DEF Shutdown, Off
  <2>3. /\ sock' \in [Sockets -> SocketStates] /\ got' \in [Sockets -> Frames \cup {None}]
        /\ clients' \subseteq Sockets /\ latest' \in Frames \cup {None}
    BY <1>1 DEF Shutdown, SocketStates
  <2>4. ClientsTaken' /\ DashboardsCurrent'
    BY <1>1 DEF Shutdown, ClientsTaken, DashboardsCurrent
  <2>5. DownIsEmpty'
    BY <1>1 DEF Shutdown, DownIsEmpty, Off
  <2>6. OnlineIffRecent'
    BY <1>1 DEF Shutdown, OnlineIffRecent, Off
  <2>. QED  BY ONLY <2>1, <2>2, <2>3, <2>4, <2>5, <2>6 DEF IInv, Types
<1>2. CASE Start
  <2>1. running' \in BOOLEAN
    BY <1>2, Zenon DEF Start
  <2>2. UNCHANGED <<sock, clients, got, latest, online, idleTimer, since>>
    BY <1>2 DEF Start
  <2>3. Types' /\ ClientsTaken' /\ DashboardsCurrent' /\ OnlineIffRecent'
    BY <2>1, <2>2 DEF Off, ClientsTaken, DashboardsCurrent, OnlineIffRecent
  <2>4. DownIsEmpty'
    BY <1>2 DEF Start, DownIsEmpty
  <2>. QED  BY ONLY <2>3, <2>4 DEF IInv
<1>. QED  BY <1>1, <1>2

LEMMA IInvStep == IInv /\ [Next]_vars => IInv'
<1>. SUFFICES ASSUME IInv, [Next]_vars PROVE IInv'
  OBVIOUS
<1>1. CASE \E c \in Sockets : Connection(c) \/ GoesDown(c) \/ Error(c) \/ Close(c)
  BY <1>1, ConnectionStep
<1>2. CASE \E frame \in Frames : HandleFrame(frame)
  BY <1>2, FrameStep
<1>3. CASE Idle \/ Tick
  BY <1>3, TimeStep
<1>4. CASE Shutdown \/ Start
  BY <1>4, ProcessStep
<1>5. CASE UNCHANGED vars
  BY <1>5 DEF vars, IInv, Types, ClientsTaken, DownIsEmpty, DashboardsCurrent, OnlineIffRecent, Off
<1>. QED  BY <1>1, <1>2, <1>3, <1>4, <1>5 DEF Next

\* Connected dashboards have the latest frame, whatever the order of frames,
\* connections, failures and restarts (wss.on("connection"), handleFrame).
THEOREM DashboardsAreCurrent == Spec => []DashboardsCurrent
<1>1. IInv => DashboardsCurrent
  BY DEF IInv
<1>. QED  BY <1>1, InitIInv, IInvStep, PTL DEF Spec

\* The camera is online exactly while its last frame is recent, and the timer
\* that will say otherwise is the one of that frame (resetIdleTimer).
THEOREM OnlineIsRecent == Spec => []OnlineIffRecent
<1>1. IInv => OnlineIffRecent
  BY DEF IInv
<1>. QED  BY <1>1, InitIInv, IInvStep, PTL DEF Spec

\* The cap of TypeOK, which the size of the set is only of use for if it is finite.
WithinCap == IsFiniteSet(clients) /\ Cardinality(clients) <= MAX_DASHBOARD_CLIENTS

LEMMA CapStep ==
  ASSUME WithinCap, [Next]_vars
  PROVE  WithinCap'
<1>. USE CameraAssumption DEF WithinCap
<1>0. Cardinality(clients) \in Nat
  BY FS_CardinalityType
<1>1. ASSUME clients' \subseteq clients
      PROVE  WithinCap'
  <2>1. IsFiniteSet(clients') /\ Cardinality(clients') <= Cardinality(clients)
    BY <1>1, FS_Subset
  <2>2. Cardinality(clients') \in Nat
    BY <2>1, FS_CardinalityType
  <2>. QED  BY <1>0, <2>1, <2>2
<1>2. ASSUME NEW c \in Sockets, Connection(c)
      PROVE  WithinCap'
  <2>1. CASE Full
    BY <1>1, <1>2, <2>1 DEF Connection
  <2>2. CASE ~Full
    <3>1. clients' = clients \cup {c}
      BY <1>2, <2>2 DEF Connection, Admit
    <3>2. /\ IsFiniteSet(clients \cup {c})
          /\ Cardinality(clients \cup {c}) <= Cardinality(clients) + 1
      BY <1>0, FS_AddElement
    <3>3. Cardinality(clients \cup {c}) \in Nat
      BY <3>2, FS_CardinalityType
    <3>. QED  BY <1>0, <2>2, <3>1, <3>2, <3>3 DEF Full
  <2>. QED  BY <2>1, <2>2
<1>3. ASSUME NEW c \in Sockets, GoesDown(c) \/ Error(c) \/ Close(c)
      PROVE  WithinCap'
  <2>1. clients' \subseteq clients
    BY <1>3 DEF GoesDown, Error, Close
  <2>. QED  BY <1>1, <2>1
<1>4. ASSUME \/ \E frame \in Frames : HandleFrame(frame)
             \/ Idle \/ Tick \/ Shutdown \/ Start \/ UNCHANGED vars
      PROVE  WithinCap'
  <2>1. clients' \subseteq clients
    BY <1>4 DEF HandleFrame, Idle, Tick, Shutdown, Start, vars
  <2>. QED  BY <1>1, <2>1
<1>. QED  BY <1>2, <1>3, <1>4 DEF Next

\* Types are correct, and there are never more clients than the cap, which
\* wss.on("connection") tests before it adds one.
THEOREM CameraTypeCorrect == Spec => []TypeOK
<1>1. Init => WithinCap
  BY FS_EmptySet, CameraAssumption DEF Init, WithinCap
<1>2. WithinCap /\ [Next]_vars => WithinCap'
  BY CapStep
<1>3. IInv /\ WithinCap => TypeOK
  BY DEF IInv, Types, WithinCap, TypeOK
<1>. QED  BY <1>1, <1>2, <1>3, InitIInv, IInvStep, PTL DEF Spec

\* Connections that were taken and are not gone.
TakenSockets == {d \in Sockets : sock[d] \in {"open", "closing"}}

\* There are finitely many at a time, however many dashboards there may be.
LEMMA FinitelyManyTaken ==
  ASSUME IInv, IsFiniteSet(TakenSockets), [Next]_vars
  PROVE  IsFiniteSet(TakenSockets')
<1>. USE DEF IInv, Types, TakenSockets
<1>1. ASSUME NEW c \in Sockets, sock' = [sock EXCEPT ![c] = sock'[c]]
      PROVE  IsFiniteSet(TakenSockets')
  <2>1. TakenSockets' \subseteq TakenSockets \cup {c}
    BY <1>1
  <2>2. IsFiniteSet(TakenSockets \cup {c})
    BY FS_AddElement
  <2>. QED  BY <2>1, <2>2, FS_Subset
<1>2. ASSUME NEW c \in Sockets, Connection(c) \/ GoesDown(c) \/ Error(c) \/ Close(c)
      PROVE  IsFiniteSet(TakenSockets')
  <2>1. sock' = [sock EXCEPT ![c] = sock'[c]]
    BY <1>2 DEF Connection, Admit, GoesDown, Error, Close
  <2>. QED  BY <1>1, <2>1
<1>3. ASSUME NEW frame \in Frames, HandleFrame(frame)
      PROVE  IsFiniteSet(TakenSockets')
  BY <1>3 DEF HandleFrame
<1>4. CASE Idle \/ Tick \/ Start \/ UNCHANGED vars
  BY <1>4 DEF Idle, Tick, Start, vars
<1>5. CASE Shutdown
  <2>1. TakenSockets' \subseteq TakenSockets
    BY <1>5 DEF Shutdown
  <2>. QED  BY <2>1, FS_Subset
<1>. QED  BY <1>2, <1>3, <1>4, <1>5 DEF Next

\* A dashboard is turned away only if every place is taken by a connection that
\* is there or going down: those that are gone hold none, after any failures.
THEOREM TurnedAwayIfFull == Spec => TurnedAwayOnlyIfFull
<1>. DEFINE Turned == \A c \in Sockets : (sock[c] # "rejected" /\ sock'[c] = "rejected") =>
                        Cardinality(TakenSockets) >= MAX_DASHBOARD_CLIENTS
<1>1. ASSUME IInv, IsFiniteSet(TakenSockets), Next
      PROVE  Turned
  <2>. SUFFICES ASSUME NEW c \in Sockets, sock[c] # "rejected", sock'[c] = "rejected"
                PROVE  Cardinality(TakenSockets) >= MAX_DASHBOARD_CLIENTS
    OBVIOUS
  <2>1. PICK d \in Sockets : Connection(d) /\ Full
    BY <1>1 DEF Next, Connection, Admit, GoesDown, Error, Close, HandleFrame, Idle, Tick,
                Shutdown, Start, IInv, Types
  <2>2. clients \subseteq TakenSockets
    BY <1>1 DEF IInv, Types, ClientsTaken, TakenSockets
  <2>3. /\ Cardinality(clients) <= Cardinality(TakenSockets)
        /\ Cardinality(clients) \in Nat /\ Cardinality(TakenSockets) \in Nat
    BY <1>1, <2>2, FS_Subset, FS_CardinalityType
  <2>. QED  BY <2>1, <2>3, CameraAssumption DEF Full
<1>2. IsFiniteSet(TakenSockets) /\ IInv /\ [Next]_vars => [Turned]_vars
  BY <1>1
<1>3. Init => IsFiniteSet(TakenSockets)
  <2>1. Init => TakenSockets = {}
    BY DEF Init, TakenSockets
  <2>. QED  BY <2>1, FS_EmptySet
<1>4. IsFiniteSet(TakenSockets) /\ IInv /\ [Next]_vars => IsFiniteSet(TakenSockets)'
  BY FinitelyManyTaken
<1>5. [][Turned]_vars => TurnedAwayOnlyIfFull
  BY PTL DEF TurnedAwayOnlyIfFull, TakenSockets
<1>. QED  BY <1>2, <1>3, <1>4, <1>5, InitIInv, IInvStep, PTL DEF Spec
=============================================================================
