--------------------------- MODULE SessionReports ---------------------------
(***************************************************************************)
(* What a subscriber of xentient/pipeline/state and xentient/session/#     *)
(* may expect of a Brain (tasks/TRACK-B-CORE-HW.md, harness/sim/brain.ts): *)
(* it hears of a session in the order of its states, some of which it may  *)
(* miss, then of its end, once; and a session that is reported complete    *)
(* has its artifacts in the store for good.                                *)
(***************************************************************************)
EXTENDS Integers

CONSTANTS Sessions, LastState

VARIABLES
  heard,   \* per session the number of its state last heard, 0 before
  end,     \* per session how it was said to end, "none" before
  stored   \* the sessions whose artifacts are in the store

vars == <<heard, end, stored>>

Init ==
  /\ heard = [s \in Sessions |-> 0]
  /\ end = [s \in Sessions |-> "none"]
  /\ stored = {}

\* The Brain: the artifacts of a session are in the store.
Store(s) == stored' = stored \cup {s} /\ UNCHANGED <<heard, end>>

\* A later state of a session that has not ended.
HearState(s) ==
  /\ end[s] = "none"
  /\ \E n \in (heard[s] + 1)..LastState : heard' = [heard EXCEPT ![s] = n]
  /\ UNCHANGED <<end, stored>>

HearError(s) ==
  /\ end[s] = "none"
  /\ end' = [end EXCEPT ![s] = "error"]
  /\ UNCHANGED <<heard, stored>>

HearComplete(s) ==
  /\ end[s] = "none" /\ s \in stored
  /\ end' = [end EXCEPT ![s] = "complete"]
  /\ UNCHANGED <<heard, stored>>

Next ==
  \E s \in Sessions : Store(s) \/ HearState(s) \/ HearError(s) \/ HearComplete(s)

Spec == Init /\ [][Next]_vars
=============================================================================
