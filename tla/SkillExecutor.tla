--------------------------- MODULE SkillExecutor ---------------------------
(***************************************************************************)
(* The skill engine of one space (harness/src/engine/SkillExecutor.ts):    *)
(* skills are registered, updated, disabled and removed by the Brain's     *)
(* tools, and fire on events, on the sensor tick, on timers of their own   *)
(* and when the Brain leaves a conflict between them unanswered.           *)
(*                                                                         *)
(* What a skill does when it fires depends on which CoreSkill object a     *)
(* timer holds, and registerSkill keeps two: the copy in the map and the   *)
(* original under the timer.  The objects are therefore explicit, and an   *)
(* object nothing refers to any more is None again.                        *)
(*                                                                         *)
(* Everything runs on the one thread of Node.js, so every call is a step.  *)
(***************************************************************************)
EXTENDS Integers, FiniteSets

CONSTANTS
  Skills, Builtins,   \* skill ids; BUILTIN_SKILL_IDS
  Groups,             \* escalation.conflictGroup
  Events,             \* the events core.ts reports, as motion_detected
  TriggerOf,          \* trigger.type of each skill; an id keeps its trigger
  EventOf,            \* the event it waits for, or None
  GroupOf,            \* its conflict group, or None
  PriorityOf,         \* its priority: the smallest goes first
  Cooling,            \* skills with a cooldownMs
  Escalating,         \* skills with an escalation, and a cooldown for it
  Modes,              \* BehavioralMode: names the Brain may switch to
  DefaultMode,        \* the one it starts in
  Objects,            \* bound: CoreSkill objects alive at a time
  Timers,             \* bound: conflict timeouts running at a time
  None

\* cron and interval triggers differ in when they tick only, and an id has but
\* one of them, so cronHandles and intervalHandles are one here; the types mode,
\* internal and composite are never evaluated.
TriggerTypes == {"event", "sensor", "interval", "never"}

\* hot: lastFiredAt is less than cooldownMs ago; quiet: lastEscalatedAt is
\* less than escalation.cooldownMs ago.
CoreSkill == [skill : Skills, enabled : BOOLEAN, hot : BOOLEAN, quiet : BOOLEAN]
Conflict  == [group : Groups, objects : SUBSET Objects]

ASSUME SkillAssumption ==
  /\ Builtins \subseteq Skills
  /\ TriggerOf \in [Skills -> TriggerTypes]
  /\ EventOf \in [Skills -> Events \cup {None}]
  /\ \A s \in Skills : TriggerOf[s] # "event" => EventOf[s] = None
  /\ GroupOf \in [Skills -> Groups \cup {None}]
  /\ PriorityOf \in [Skills -> Int]
  /\ DefaultMode \in Modes
  /\ Cooling \subseteq Skills /\ Escalating \subseteq Skills
  /\ None \notin Objects \cup Timers \cup Groups
  /\ None \notin CoreSkill /\ None \notin Conflict

VARIABLES
  object,      \* the CoreSkill objects
  skills,      \* this.skills: the object in the map for each id
  ticking,     \* objects whose interval or cron timer runs
  handle,      \* intervalHandles and cronHandles: the object whose timer they hold
  conflict,    \* running conflict timeouts, with what their callback captured
  pending,     \* pendingConflicts: the timeout each group's entry holds
  activeMode,  \* the behavioral mode
  running,     \* between start() and stop()
  fired,       \* skills fireSkill ran in the last step
  granted,     \* skills whose actions the last step ran on the Brain's word
  registered,  \* history: ids registered, and neither updated nor removed since
  orphaned,    \* history: ids registered again while they had a timer
  overlapped   \* history: conflicts with another one of their group at the same time

vars == <<object, skills, ticking, handle, conflict, pending, activeMode, running,
          fired, granted, registered, orphaned, overlapped>>

Live == {c \in Timers : conflict[c] # None}

\* What the map, a timer or a conflict refers to; the rest is collected.
Referenced ==
  ({skills[s] : s \in Skills} \ {None}) \cup ticking
    \cup UNION {conflict[c].objects : c \in Live}

Fresh == Objects \ Referenced

Heap(contents) ==
  object' = [o \in Objects |-> IF o \in Referenced' THEN contents[o] ELSE None]

\* What xentient_register_skill makes of its parameters; a builtin is the same.
NewSkill(s) == [skill |-> s, enabled |-> TRUE, hot |-> FALSE, quiet |-> FALSE]

Scheduled(s) == TriggerOf[s] = "interval"

\* The constructor copies the builtins into the map and start() schedules
\* those very objects.
Init ==
  \E first \in [Builtins -> Objects] :
    /\ \A b, c \in Builtins : b # c => first[b] # first[c]
    /\ skills = [s \in Skills |-> IF s \in Builtins THEN first[s] ELSE None]
    /\ ticking = {first[b] : b \in {d \in Builtins : Scheduled(d)}}
    /\ handle = [s \in Skills |-> IF s \in Builtins /\ Scheduled(s) THEN first[s] ELSE None]
    /\ object = [o \in Objects |-> IF \E b \in Builtins : first[b] = o
                                   THEN NewSkill(CHOOSE b \in Builtins : first[b] = o)
                                   ELSE None]
    /\ conflict = [c \in Timers |-> None]
    /\ pending = [g \in Groups |-> None]
    /\ running = TRUE
    /\ activeMode = DefaultMode
    /\ fired = {} /\ granted = {}
    /\ registered = {} /\ orphaned = {} /\ overlapped = {}

-----------------------------------------------------------------------------
\* The tools of the Brain.

noConflict == <<conflict, pending, overlapped>>

control == <<activeMode, running>>

history == <<registered, orphaned>>

Silent == fired' = {} /\ granted' = {}

\* Mutant: the old schedule is not torn down.
MutantTeardown(s) == ticking

\* teardownSkillSchedule: it stops the timer the handle holds, and no other.
Teardown(s) == ticking \ {handle[s]}

\* xentient_register_skill: a copy goes into the map, the original under the
\* timer, and an earlier timer of the same id loses its handle only.
RegisterSkill(s) ==
  /\ running
  /\ \E copy, original \in Fresh :
       /\ copy # original
       /\ skills' = [skills EXCEPT ![s] = copy]
       /\ ticking' = IF Scheduled(s) THEN ticking \cup {original} ELSE ticking
       /\ handle' = IF Scheduled(s) THEN [handle EXCEPT ![s] = original] ELSE handle
       /\ UNCHANGED noConflict
       /\ Heap([o \in Objects |-> IF o \in {copy, original} THEN NewSkill(s) ELSE object[o]])
  /\ registered' = registered \cup {s}
  /\ orphaned' = IF handle[s] # None THEN orphaned \cup {s} ELSE orphaned
  /\ Silent
  /\ UNCHANGED control

\* xentient_update_skill: the patched copy goes into the map and under a timer.
UpdateSkill(s) ==
  /\ running
  /\ skills[s] # None
  /\ \E updated \in Fresh :
       /\ skills' = [skills EXCEPT ![s] = updated]
       /\ ticking' = IF Scheduled(s) THEN Teardown(s) \cup {updated} ELSE Teardown(s)
       /\ handle' = [handle EXCEPT ![s] = IF Scheduled(s) THEN updated ELSE None]
       /\ UNCHANGED noConflict
       /\ Heap([object EXCEPT ![updated] = object[skills[s]]])
  /\ registered' = registered \ {s}
  /\ Silent
  /\ UNCHANGED <<control, orphaned>>

\* xentient_disable_skill: the object in the map is changed in place.
DisableSkill(s, enabled) ==
  /\ running
  /\ skills[s] # None
  /\ object' = [object EXCEPT ![skills[s]].enabled = enabled]
  /\ Silent
  /\ UNCHANGED <<skills, ticking, handle, noConflict, control, history>>

\* removeSkill refuses the builtins.
Removable(s) == s \notin Builtins /\ skills[s] # None

\* xentient_remove_skill
RemoveSkill(s) ==
  /\ running
  /\ Removable(s)
  /\ skills' = [skills EXCEPT ![s] = None]
  /\ ticking' = Teardown(s)
  /\ handle' = [handle EXCEPT ![s] = None]
  /\ UNCHANGED noConflict
  /\ Heap(object)
  /\ registered' = registered \ {s}
  /\ Silent
  /\ UNCHANGED <<control, orphaned>>

\* switchMode, by xentient_switch_mode or after a change of ModeManager's mode;
\* the mode goes into the log and the contexts, and decides nothing.
SwitchMode(mode) ==
  /\ running
  /\ activeMode' = mode
  /\ Silent
  /\ UNCHANGED <<object, skills, ticking, handle, noConflict, running, history>>

-----------------------------------------------------------------------------
\* Firing.

\* The contents of the heap after fireSkill ran on each of `objs': those in
\* their cooldown are skipped, and some of the others, whose escalation
\* conditions hold and whose escalation cooldown is over, escalate.
Ready(objs) == {o \in objs : ~object[o].hot}

AfterFiring(objs, escalated) ==
  [o \in Objects |->
     IF o \in Ready(objs)
     THEN [object[o] EXCEPT !.hot = object[o].skill \in Cooling,
                            !.quiet = @ \/ o \in escalated]
     ELSE object[o]]

FireSkills(objs) ==
  /\ \E escalated \in SUBSET {o \in Ready(objs) : /\ object[o].skill \in Escalating
                                                  /\ ~object[o].quiet} :
       Heap(AfterFiring(objs, escalated))
  /\ fired' = {object[o].skill : o \in Ready(objs)}
  /\ granted' = {}

Rivals(objs, g) == {o \in objs : GroupOf[object[o].skill] = g}

Contested(objs) == {g \in Groups : Cardinality(Rivals(objs, g)) > 1}

\* handleConflict for each contested group: a new timeout, which takes the
\* place of the group's entry and leaves an earlier timeout running.
RaiseConflicts(objs, timerOf) ==
  LET contested == Contested(objs)
      new == {timerOf[g] : g \in contested}
      held == {c \in Live : conflict[c].group \in contested}
  IN  /\ conflict' = [c \in Timers |->
           IF c \in new
           THEN LET g == CHOOSE h \in contested : timerOf[h] = c
                IN  [group |-> g, objects |-> Rivals(objs, g)]
           ELSE conflict[c]]
      /\ pending' = [g \in Groups |-> IF g \in contested THEN timerOf[g] ELSE pending[g]]
      /\ overlapped' = overlapped \cup held
                         \cup {timerOf[g] : g \in {conflict[c].group : c \in held}}

\* executeSkillSet: a skill alone in its group fires, rivals raise a conflict.
ExecuteSkillSet(objs) ==
  /\ \E timerOf \in [Contested(objs) -> Timers \ Live] :
       /\ \A g, h \in Contested(objs) : g # h => timerOf[g] # timerOf[h]
       /\ RaiseConflicts(objs, timerOf)
  /\ FireSkills(objs \ UNION {Rivals(objs, g) : g \in Contested(objs)})

\* Mutant: `enabled' is not looked at.
MutantCandidates(trigger) ==
  {skills[s] : s \in {t \in Skills : skills[t] # None /\ TriggerOf[t] = trigger}}

\* The enabled skills of the map with a trigger of this type.
Candidates(trigger) ==
  {skills[s] : s \in {t \in Skills : /\ skills[t] # None
                                     /\ object[skills[t]].enabled
                                     /\ TriggerOf[t] = trigger}}

\* Mutant: the event is not looked at.
MutantWaiting(event) == Candidates("event")

\* Those of them that wait for the event.
Waiting(event) == {o \in Candidates("event") : EventOf[object[o].skill] = event}

\* handleEvent
HandleEvent(event) ==
  /\ running
  /\ UNCHANGED <<skills, ticking, handle, control, history>>
  /\ ExecuteSkillSet(Waiting(event))

\* tick: those whose condition the sensor values meet fire.
SensorTick ==
  /\ running
  /\ UNCHANGED <<skills, ticking, handle, control, history>>
  /\ \E met \in SUBSET Candidates("sensor") : ExecuteSkillSet(met)

\* The callback of a schedule tests the object it captured.
ScheduleTick(o) ==
  /\ o \in ticking
  /\ object[o].enabled /\ ~object[o].hot
  /\ UNCHANGED <<skills, ticking, handle, noConflict, control, history>>
  /\ FireSkills({o})

\* Mutant: the entry is cleared, the timeout is not.
MutantSettle(g, c) ==
  /\ pending' = [pending EXCEPT ![g] = None]
  /\ UNCHANGED <<conflict, overlapped>>

\* Timeout c is over, by firing or by clearTimeout, and the entry of its group
\* is deleted, whosever it is.
Settle(g, c) ==
  /\ pending' = [pending EXCEPT ![g] = None]
  /\ conflict' = [conflict EXCEPT ![c] = None]
  /\ overlapped' = overlapped \ {c}

\* xentient_resolve_conflict: the actions of the skills the Brain names run,
\* past cooldown, fireCount and log.
ResolveConflict(g, execute) ==
  /\ running
  /\ pending[g] # None
  /\ Settle(g, pending[g])
  /\ granted' = {s \in execute : skills[s] # None}
  /\ fired' = {}
  /\ UNCHANGED <<skills, ticking, handle, control, history>>
  /\ Heap(object)

\* The callback of the timeout: the first by priority of those it captured.
ConflictTimeout(c) ==
  /\ c \in Live
  /\ Settle(conflict[c].group, c)
  /\ UNCHANGED <<skills, ticking, handle, control, history>>
  /\ \E o \in conflict[c].objects :
       /\ \A p \in conflict[c].objects :
            PriorityOf[object[o].skill] <= PriorityOf[object[p].skill]
       /\ FireSkills({o})

\* A cooldown passes.
CooldownOver(o) ==
  /\ object[o] # None
  /\ \/ object[o].hot /\ object' = [object EXCEPT ![o].hot = FALSE]
     \/ object[o].quiet /\ object' = [object EXCEPT ![o].quiet = FALSE]
  /\ Silent
  /\ UNCHANGED <<skills, ticking, handle, noConflict, control, history>>

\* Mutant: the handles are not cleared.
MutantStop ==
  /\ running
  /\ running' = FALSE
  /\ ticking' = ticking \ {handle[s] : s \in Skills}
  /\ UNCHANGED <<skills, handle, noConflict, activeMode, history>>
  /\ Heap(object)
  /\ Silent

\* stop(), when the space is replaced, removed or Core shuts down: the tick and
\* the timers that have a handle; nothing calls the executor any more.
Stop ==
  /\ running
  /\ running' = FALSE
  /\ ticking' = ticking \ {handle[s] : s \in Skills}
  /\ handle' = [s \in Skills |-> None]
  /\ UNCHANGED <<skills, noConflict, activeMode, history>>
  /\ Heap(object)
  /\ Silent

Next ==
  \/ \E s \in Skills : RegisterSkill(s) \/ UpdateSkill(s) \/ RemoveSkill(s)
  \/ \E s \in Skills, enabled \in BOOLEAN : DisableSkill(s, enabled)
  \/ \E mode \in Modes : SwitchMode(mode)
  \/ \E event \in Events : HandleEvent(event)
  \/ SensorTick
  \/ \E o \in Objects : ScheduleTick(o) \/ CooldownOver(o)
  \/ \E g \in Groups, execute \in SUBSET Skills : ResolveConflict(g, execute)
  \/ \E c \in Timers : ConflictTimeout(c)
  \/ Stop

Spec == Init /\ [][Next]_vars

-----------------------------------------------------------------------------
\* Type invariant, with the heap: an object exists exactly while something
\* refers to it.
TypeOK ==
  /\ object \in [Objects -> CoreSkill \cup {None}]
  /\ skills \in [Skills -> Objects \cup {None}]
  /\ ticking \subseteq Objects
  /\ handle \in [Skills -> Objects \cup {None}]
  /\ conflict \in [Timers -> Conflict \cup {None}]
  /\ pending \in [Groups -> Timers \cup {None}]
  /\ running \in BOOLEAN /\ activeMode \in Modes
  /\ fired \subseteq Skills /\ granted \subseteq Skills
  /\ registered \subseteq Skills /\ orphaned \subseteq Skills
  /\ overlapped \subseteq Live
  /\ \A o \in Objects : object[o] = None <=> o \in Fresh

\* A handle is the way to stop a timer that runs, of the same skill: update,
\* removal and stop never act on a timer of another skill or on none.
HandleStopsTimer ==
  \A s \in Skills : handle[s] # None =>
    handle[s] \in ticking /\ object[handle[s]].skill = s

\* The timers are those the map calls for: a skill has at most the one its
\* handle stops, unless it was registered again over its own timer; while the
\* engine runs every skill on a schedule has one, and a removed one none; and the
\* timer asks the very object the tools change and list, from the start of a
\* builtin, and from the first update of a skill that was registered.
ScheduleFollowsMap ==
  \A s \in Skills :
    /\ s \notin orphaned => {o \in ticking : object[o].skill = s} = {handle[s]} \ {None}
    /\ running => (handle[s] # None <=> Scheduled(s) /\ skills[s] # None)
    /\ s \notin registered /\ handle[s] # None => handle[s] = skills[s]

\* A conflict alone in its group can be answered until it is settled: its entry
\* is there exactly as long as its timeout, through updates and removals of the
\* rivals and conflicts of other groups.
LoneConflictAnswerable ==
  /\ \A c \in Live \ overlapped : pending[conflict[c].group] = c
  /\ \A g \in Groups : pending[g] # None =>
       pending[g] \in Live /\ conflict[pending[g]].group = g

\* The Brain is asked to choose between different skills that one event, or one
\* sensor tick, woke together: never between the skills of two events, nor
\* between a skill and a stale copy of it.
RivalsOfOneEvent ==
  \A c \in Live : \A o, p \in conflict[c].objects : o # p =>
    LET s == object[o].skill
        t == object[p].skill
    IN  s # t /\ TriggerOf[s] = TriggerOf[t] /\ EventOf[s] = EventOf[t]

\* A skill that fires is in the map and enabled there, whichever timer, event or
\* tick woke it, through updates, disabling and removal: but for one that was
\* registered and not updated since, whose timer asks another object, one that
\* was registered over its own timer, and the first of a conflict, which was
\* captured when the conflict was raised.
FiresWhatIsEnabled ==
  [][\A s \in fired' \ (registered \cup orphaned) :
       \/ skills[s] # None /\ object[skills[s]].enabled
       \/ \E c \in Live : conflict'[c] = None
                         /\ s \in {object[o].skill : o \in conflict[c].objects}]_vars

\* skill-executor.test.ts:76, "does not fire disabled skills".  The timer of a
\* registered skill asks the original object, disableSkill changes the copy; the
\* timeout of a conflict asks none of those it captured.
DisabledIsSilent ==
  [][\A s \in fired' : skills[s] # None => object[skills[s]].enabled]_vars
=============================================================================
