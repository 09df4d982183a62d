-------------------------- MODULE MCSkillExecutor --------------------------
(***************************************************************************)
(* SkillExecutor for TLC: a builtin on a timer, like _idle-sleep, with a   *)
(* sensor skill of the Brain and three more that wait for motion, motion   *)
(* and a voice, all four in one conflict group; or the builtin with a      *)
(* sensor skill and a reminder on a timer.                                 *)
(***************************************************************************)
EXTENDS SkillExecutor, TLC

CONSTANTS idleSleep, reminder, tooHot, sounds, default, student,
          greet, alarm, listenUp, motion, voice

MCTriggerOf ==
  [s \in Skills |-> CASE s \in {idleSleep, reminder}    -> "interval"
                     [] s \in {greet, alarm, listenUp} -> "event"
                     [] s = tooHot                     -> "sensor"]
MCEventOf ==
  [s \in Skills |-> CASE s \in {greet, alarm} -> motion
                     [] s = listenUp          -> voice
                     [] OTHER                 -> None]
MCGroupOf ==
  [s \in Skills |-> IF sounds \in Groups /\ s \in {tooHot, greet, alarm, listenUp}
                   THEN sounds ELSE None]
MCPriorityOf == [s \in Skills |-> IF s = alarm THEN 1 ELSE 10]

ObjectSymmetry == Permutations(Objects) \cup Permutations(Timers)
=============================================================================
