--------------------------- MODULE FrameDelivery ---------------------------
(***************************************************************************)
(* What the harness may expect of the camera's way through the node base   *)
(* (firmware/src/cam_relay.cpp): of the captures, some are delivered, each *)
(* at most once and in the order they were taken, and whole as long as the *)
(* camera has not reset, which makes it count its frames from 0 again.     *)
(***************************************************************************)
EXTENDS Integers

VARIABLES
  captured,   \* how many frames the camera has captured
  restarted,  \* the camera has reset after its first capture
  delivered,  \* the capture delivered last, 0 before the first
  whole       \* all of that frame is of that capture

vars == <<captured, restarted, delivered, whole>>

Init == captured = 0 /\ restarted = FALSE /\ delivered = 0 /\ whole = TRUE

\* Camera: one more frame exists.
Capture == captured' = captured + 1 /\ UNCHANGED <<restarted, delivered, whole>>

\* Camera: it starts over.
Restart == restarted' = TRUE /\ UNCHANGED <<captured, delivered, whole>>

\* Node base: a capture later than the last delivered one arrives.
Deliver ==
  /\ delivered' \in (delivered + 1)..captured
  /\ whole' \in BOOLEAN
  /\ whole' \/ restarted
  /\ UNCHANGED <<captured, restarted>>

Next == Capture \/ Restart \/ Deliver

Spec == Init /\ [][Next]_vars
=============================================================================
