------------------------------- MODULE Spaces -------------------------------
(***************************************************************************)
(* SpaceManager (harness/src/engine/SpaceManager.ts): spaces come, are     *)
(* replaced and go, each with a SkillExecutor of its own; the Brain's      *)
(* tools and the events are routed to one of them or to all; and all write *)
(* to one SkillLog (harness/src/engine/SkillLog.ts).                       *)
(*                                                                         *)
(* core.ts adds the space `default'; tests/space-manager.test.ts adds      *)
(* further ones.  Of an executor, which SkillExecutor has in detail, this  *)
(* module keeps what outlives its space: stop() ends its timers and not    *)
(* the timeouts of its conflicts.  All skills here wait for the same event *)
(* and are rivals of one conflict group, without a cooldown.  What         *)
(* xentient_update_skill may change is not modelled, and stopAll is the    *)
(* end: exit follows.                                                      *)
(***************************************************************************)
EXTENDS Integers, Sequences, FiniteSets, SequencesExt

CONSTANTS
  SpaceIds, DefaultSpace,
  Skills,          \* ids of dynamic skills
  Modes, DefaultMode,
  Capacity,        \* SKILL_LOG_CAPACITY
  Executors,       \* bound: executors alive at a time
  MaxConflicts,    \* bound: conflicts waiting when an event comes
  MaxFirings,      \* bound: skills fired by one Core
  None

\* enabled and disabled: the skills of its map; conflicts: how many timeouts
\* run; answerable: pendingConflicts has an entry, that of the last conflict.
SkillExecutor ==
  [space : SpaceIds, running : BOOLEAN, mode : Modes,
   enabled : SUBSET Skills, disabled : SUBSET Skills,
   conflicts : Nat, answerable : BOOLEAN]

ASSUME SpacesAssumption ==
  /\ IsFiniteSet(Executors)
  /\ DefaultSpace \in SpaceIds /\ DefaultMode \in Modes
  /\ Capacity \in Nat \ {0} /\ MaxConflicts \in Nat /\ MaxFirings \in Nat
  /\ None \notin SpaceIds \cup Modes \cup Executors \cup SkillExecutor

VARIABLES
  spaces,      \* this.spaces: the activeMode of each
  executors,   \* this.executors
  executor,    \* the SkillExecutor objects
  foreign,     \* history: the spaces added with another mode than an executor
               \* starts in, and not switched since
  log,         \* SkillLog.entries
  total        \* history: skills fired since Core started

vars == <<spaces, executors, executor, foreign, log, total>>

\* Of an entry: whose skill it is, and the place of its firing among all.
Entry == [space : SpaceIds, number : 1..MaxFirings]

NewExecutor(id) ==
  [space |-> id, running |-> TRUE, mode |-> DefaultMode,
   enabled |-> {}, disabled |-> {}, conflicts |-> 0, answerable |-> FALSE]

\* The program after main.
Init ==
  /\ spaces = [id \in SpaceIds |-> IF id = DefaultSpace THEN DefaultMode ELSE None]
  /\ \E first \in Executors :
       /\ executors = [id \in SpaceIds |-> IF id = DefaultSpace THEN first ELSE None]
       /\ executor = [e \in Executors |->
                        IF e = first THEN NewExecutor(DefaultSpace) ELSE None]
  /\ foreign = {} /\ log = <<>> /\ total = 0

-----------------------------------------------------------------------------
Alive == {e \in Executors : executor[e] # None}
Mapped == {executors[id] : id \in SpaceIds} \ {None}

\* A tool or an event goes to the executor of its space, or without one to all.
Targets(id) == IF id = None THEN Mapped ELSE {executors[id]} \ {None}

\* What stop() leaves of an executor: nothing reads its skills any more.
Stopped(e) ==
  IF executor[e].conflicts = 0 THEN None
  ELSE [executor[e] EXCEPT !.running = FALSE, !.enabled = {}, !.disabled = {}]

\* The mode of the space that is added is not passed on to its executor.
Added(id, mode) ==
  /\ spaces' = [spaces EXCEPT ![id] = mode]
  /\ foreign' = IF mode = DefaultMode THEN foreign \ {id} ELSE foreign \cup {id}

\* Mutant: the executor of the space that is replaced is not stopped.
MutantAddSpace(id, mode) ==
  \E e \in Executors \ Alive :
    /\ Added(id, mode)
    /\ executors' = [executors EXCEPT ![id] = e]
    /\ executor' = [executor EXCEPT ![e] = NewExecutor(id)]
    /\ UNCHANGED <<log, total>>

\* addSpace, of a space in any activeMode.
AddSpace(id, mode) ==
  \E e \in Executors \ Alive :
    /\ Added(id, mode)
    /\ executors' = [executors EXCEPT ![id] = e]
    /\ executor' = [f \in Executors |-> IF f = e THEN NewExecutor(id)
                                        ELSE IF f = executors[id] THEN Stopped(f)
                                        ELSE executor[f]]
    /\ UNCHANGED <<log, total>>

\* Mutant: the executor stays in the map.
MutantRemoveSpace(id) ==
  /\ spaces' = [spaces EXCEPT ![id] = None] /\ foreign' = foreign \ {id}
  /\ executor' = [e \in Executors |-> IF e = executors[id]
                                      THEN [executor[e] EXCEPT !.running = FALSE]
                                      ELSE executor[e]]
  /\ UNCHANGED <<executors, log, total>>

RemoveSpace(id) ==
  /\ spaces' = [spaces EXCEPT ![id] = None] /\ foreign' = foreign \ {id}
  /\ executors' = [executors EXCEPT ![id] = None]
  /\ executor' = [e \in Executors |-> IF e = executors[id] THEN Stopped(e) ELSE executor[e]]
  /\ UNCHANGED <<log, total>>

-----------------------------------------------------------------------------
\* The tools of the Brain.

\* xentient_register_skill; `*' is every space there is now.
RegisterSkill(id, s) ==
  /\ executor' = [e \in Executors |->
       IF e \in Targets(id)
       THEN [executor[e] EXCEPT !.enabled = @ \cup {s}, !.disabled = @ \ {s}]
       ELSE executor[e]]
  /\ UNCHANGED <<spaces, executors, foreign, log, total>>

\* xentient_disable_skill
DisableSkill(id, s, on) ==
  /\ executor' = [e \in Executors |->
       IF e \in Targets(id) /\ s \in executor[e].enabled \cup executor[e].disabled
       THEN [executor[e] EXCEPT !.enabled  = IF on THEN @ \cup {s} ELSE @ \ {s},
                                !.disabled = IF on THEN @ \ {s} ELSE @ \cup {s}]
       ELSE executor[e]]
  /\ UNCHANGED <<spaces, executors, foreign, log, total>>

\* xentient_remove_skill
RemoveSkill(id, s) ==
  /\ executor' = [e \in Executors |->
       IF e \in Targets(id)
       THEN [executor[e] EXCEPT !.enabled = @ \ {s}, !.disabled = @ \ {s}]
       ELSE executor[e]]
  /\ UNCHANGED <<spaces, executors, foreign, log, total>>

\* xentient_switch_mode, and a change of ModeManager's mode for `default'.
SwitchMode(id, mode) ==
  /\ executors[id] # None
  /\ spaces' = [spaces EXCEPT ![id] = mode] /\ foreign' = foreign \ {id}
  /\ executor' = [executor EXCEPT ![executors[id]].mode = mode]
  /\ UNCHANGED <<executors, log, total>>

\* xentient_resolve_conflict: the answer carries the group and not the space,
\* so it settles the last conflict of every space.  The skills it names run
\* without an entry in the log.
ResolveConflict ==
  /\ executor' = [e \in Executors |->
       IF e \in Mapped /\ executor[e].answerable
       THEN [executor[e] EXCEPT !.answerable = FALSE, !.conflicts = @ - 1]
       ELSE executor[e]]
  /\ UNCHANGED <<spaces, executors, foreign, log, total>>

-----------------------------------------------------------------------------
\* Firing.

\* Mutant: a full log drops the new entry.
MutantAppend(entries, new) ==
  SubSeq(entries \o new, 1, IF Len(entries \o new) > Capacity THEN Capacity ELSE Len(entries \o new))

\* SkillLog.append, of one entry after the other.
LogAppend(entries, new) ==
  LET all == entries \o new
  IN  SubSeq(all, IF Len(all) > Capacity THEN Len(all) - Capacity + 1 ELSE 1, Len(all))

\* fireSkill, for one skill of each of these executors.
Fire(firing) ==
  \E order \in SetToSeqs(firing) :
    /\ total' = total + Len(order) /\ total' <= MaxFirings
    /\ log' = LogAppend(log, [i \in 1..Len(order) |->
                                [space |-> executor[order[i]].space, number |-> total + i]])

Waiting == FoldSet(LAMBDA e, n : n + executor[e].conflicts, 0, Alive)

\* handleEvent, of one space or all: a skill alone fires, rivals raise a
\* conflict, whose entry replaces the one of a conflict that still waits.
HandleEvent(id) ==
  LET alone == {e \in Targets(id) : \E s \in Skills : executor[e].enabled = {s}}
      rivals == {e \in Targets(id) : executor[e].enabled # {}} \ alone
  IN  /\ Fire(alone)
      /\ rivals = {} \/ Waiting < MaxConflicts
      /\ executor' = [e \in Executors |->
           IF e \in rivals
           THEN [executor[e] EXCEPT !.conflicts = @ + 1, !.answerable = TRUE]
           ELSE executor[e]]
      /\ UNCHANGED <<spaces, executors, foreign>>

\* A timeout fires: the entry is deleted, whosever it is, and the first of the
\* rivals fires, in a stopped executor as well.
ConflictTimeout(e) ==
  /\ e \in Alive /\ executor[e].conflicts # 0
  /\ executor' = [executor EXCEPT ![e] =
       IF e \in Mapped \/ executor[e].conflicts > 1
       THEN [executor[e] EXCEPT !.conflicts = @ - 1, !.answerable = FALSE]
       ELSE None]
  /\ Fire({e})
  /\ UNCHANGED <<spaces, executors, foreign>>

Next ==
  \/ \E id \in SpaceIds : RemoveSpace(id) \/ \E mode \in Modes : AddSpace(id, mode)
  \/ \E id \in SpaceIds \cup {None} :
       \/ HandleEvent(id)
       \/ \E s \in Skills : \/ RegisterSkill(id, s) \/ RemoveSkill(id, s)
                            \/ \E on \in BOOLEAN : DisableSkill(id, s, on)
  \/ \E id \in SpaceIds, mode \in Modes : SwitchMode(id, mode)
  \/ ResolveConflict
  \/ \E e \in Executors : ConflictTimeout(e)

Spec == Init /\ [][Next]_vars

-----------------------------------------------------------------------------
\* Type invariant.
TypeOK ==
  /\ spaces \in [SpaceIds -> Modes \cup {None}]
  /\ executors \in [SpaceIds -> Executors \cup {None}]
  /\ executor \in [Executors -> SkillExecutor \cup {None}]
  /\ foreign \subseteq SpaceIds
  /\ log \in Seq(Entry) /\ total \in 0..MaxFirings

\* The mode the executor of a space should be in: what addSpace does not pass
\* on, only the next switchMode makes up for.
ModeOf(id) == IF id \in foreign THEN DefaultMode ELSE spaces[id]

\* The two maps agree: a space has an executor of its own that runs in its
\* mode, but for one that was added in another mode than `default'; nothing
\* else runs, however spaces are replaced, removed and switched; and a conflict
\* that can be answered has a timeout that runs.
SpacesRun ==
  /\ \A id \in SpaceIds :
       IF spaces[id] = None THEN executors[id] = None
       ELSE /\ executors[id] \in Alive
            /\ executor[executors[id]].space = id
            /\ executor[executors[id]].mode = ModeOf(id)
  /\ \A e \in Alive : /\ executor[e].running <=> e \in Mapped
                      /\ executor[e].answerable => executor[e].conflicts # 0

\* The log has the last firings of all spaces, those of removed ones included,
\* in the order in which they happened and without a gap.
LogIsRecent ==
  /\ Len(log) = IF total < Capacity THEN total ELSE Capacity
  /\ \A i \in 1..Len(log) : log[i].number = total - Len(log) + i

\* A stopped executor only finishes what it has begun: no event and no answer
\* reaches it, and each of its conflicts falls to its own timeout.
StoppedOnlyFinishes ==
  [][\A e \in Alive :
       ~executor[e].running /\ executor'[e] # executor[e] =>
         /\ executor'[e] = IF executor[e].conflicts = 1 THEN None
                           ELSE [executor[e] EXCEPT !.conflicts = @ - 1, !.answerable = FALSE]
         /\ total' = total + 1]_vars
=============================================================================
