------------------------ MODULE SkillExecutorProofs ------------------------
(***************************************************************************)
(* Proofs about the skill engine, for any skills, groups, priorities and   *)
(* numbers of objects and timeouts: which timer a handle stops, whose      *)
(* object a timer holds, and which conflicts can be answered.              *)
(***************************************************************************)
EXTENDS SkillExecutor, TLAPS

\* The inductive invariant adds to the invariants of the run that the map holds
\* a skill under its own id, ...
MapOwn == \A s \in Skills : skills[s] # None => object[skills[s]].skill = s

\* ... that a timer of a skill that was not registered again over it is the one
\* its handle stops, ...
OneTimer == \A o \in ticking : object[o].skill \notin orphaned => handle[object[o].skill] = o

\* ... that handles are those of the skills on a schedule, ...
HandlesScheduled ==
  running => \A s \in Skills : handle[s] # None <=> Scheduled(s) /\ skills[s] # None

\* ... and hold the object of the map unless registerSkill made two, ...
HandlesMap == \A s \in Skills : s \notin registered /\ handle[s] # None => handle[s] = skills[s]

\* ... and that conflicts of one group at the same time are known to overlap.
OverlapKnown ==
  \A c, d \in Live : c # d /\ conflict[c].group = conflict[d].group => c \in overlapped

Schedules == MapOwn /\ HandleStopsTimer /\ OneTimer /\ HandlesScheduled /\ HandlesMap

Conflicts == LoneConflictAnswerable /\ OverlapKnown

IInv == TypeOK /\ Schedules /\ Conflicts

-----------------------------------------------------------------------------
\* The heap.

\* What refers to an object.
Links ==
  /\ skills \in [Skills -> Objects \cup {None}] /\ ticking \subseteq Objects
  /\ handle \in [Skills -> Objects \cup {None}]
  /\ conflict \in [Timers -> Conflict \cup {None}]

HeapOK ==
  /\ object \in [Objects -> CoreSkill \cup {None}]
  /\ \A o \in Objects : object[o] = None <=> o \in Fresh

\* Every object in use is referred to, and every referred object is in use.
UseIsReference ==
  /\ Referenced \subseteq Objects /\ ticking \subseteq Referenced
  /\ \A s \in Skills : skills[s] # None => skills[s] \in Referenced
  /\ \A c \in Live : /\ conflict[c] \in Conflict /\ conflict[c].group \in Groups
                     /\ conflict[c].objects \subseteq Referenced
  /\ \A o \in Referenced : \/ \E s \in Skills : skills[s] = o /\ skills[s] # None
                           \/ o \in ticking
                           \/ \E c \in Live : o \in conflict[c].objects

LEMMA LinksUse == Links => UseIsReference
<1> SUFFICES ASSUME Links
             PROVE  UseIsReference
  OBVIOUS
<1>1. \A c \in Live : /\ conflict[c] \in Conflict /\ conflict[c].group \in Groups
                      /\ conflict[c].objects \subseteq Objects
  BY DEF Links, Live, Conflict
<1>2. \A c \in Live : conflict[c].objects \subseteq Referenced
  BY DEF Referenced
<1>3. ticking \subseteq Referenced /\ \A s \in Skills : skills[s] # None => skills[s] \in Referenced
  BY DEF Referenced
<1>4. \A o \in Referenced : \/ \E s \in Skills : skills[s] = o /\ skills[s] # None
                            \/ o \in ticking
                            \/ \E c \in Live : o \in conflict[c].objects
  BY DEF Referenced
<1>5. Referenced \subseteq Objects
  BY <1>1, <1>4 DEF Links
<1> QED BY <1>1, <1>2, <1>3, <1>4, <1>5 DEF UseIsReference

LEMMA LinksUseNext == Links' => UseIsReference'
BY LinksUse, PTL

\* The object of what is referred to is one, and no other is.
LEMMA Contents ==
  ASSUME TypeOK
  PROVE  /\ Links /\ HeapOK
         /\ \A o \in Referenced : object[o] \in CoreSkill /\ object[o].skill \in Skills
         /\ \A o \in Fresh : o \in Objects /\ o \notin Referenced
<1>1. Links /\ HeapOK
  BY DEF TypeOK, Links, HeapOK
<1>2. \A o \in Referenced : o \in Objects /\ o \notin Fresh
  BY <1>1, LinksUse DEF Fresh, UseIsReference
<1> QED BY <1>1, <1>2 DEF HeapOK, Fresh, CoreSkill

\* A step that says what every object referred to afterwards is.
LEMMA HeapStep ==
  ASSUME Links', NEW contents, Heap(contents),
         \A o \in Referenced' : contents[o] \in CoreSkill
  PROVE  HeapOK' /\ \A o \in Referenced' : object'[o] = contents[o]
<1>1. object' = [o \in Objects |-> IF o \in Referenced' THEN contents[o] ELSE None]
  BY DEF Heap
<1>2. Referenced' \subseteq Objects
  BY LinksUseNext DEF UseIsReference
<1>3. \A o \in Objects : o \in Fresh' <=> o \notin Referenced'
  BY DEF Fresh
<1>4. \A o \in Objects : object'[o] = None <=> o \in Fresh'
  BY <1>1, <1>2, <1>3, SkillAssumption
<1>5. object' \in [Objects -> CoreSkill \cup {None}]
  BY <1>1
<1> QED BY <1>1, <1>2, <1>4, <1>5 DEF HeapOK

\* A step that changes objects where they are.
LEMMA InPlace ==
  ASSUME TypeOK, UNCHANGED <<skills, ticking, handle, conflict>>,
         object' \in [Objects -> CoreSkill \cup {None}],
         \A o \in Objects : object'[o] = None <=> object[o] = None
  PROVE  Links' /\ HeapOK' /\ Referenced' = Referenced
<1>1. Links'
  BY DEF TypeOK, Links
<1>2. Live' = Live
  BY DEF Live
<1>3. Referenced' = Referenced
  BY <1>2 DEF Referenced
<1>4. Fresh' = Fresh
  BY <1>3 DEF Fresh
<1>5. HeapOK'
  BY <1>4 DEF HeapOK, TypeOK
<1> QED BY <1>1, <1>3, <1>5

\* fireSkill changes what is hot and quiet, of no object the skill.
LEMMA FiringKeeps ==
  ASSUME TypeOK, NEW objs, NEW escalated
  PROVE  \A o \in Referenced : /\ AfterFiring(objs, escalated)[o] \in CoreSkill
                               /\ AfterFiring(objs, escalated)[o].skill = object[o].skill
<1> SUFFICES ASSUME NEW o \in Referenced
             PROVE  /\ AfterFiring(objs, escalated)[o] \in CoreSkill
                    /\ AfterFiring(objs, escalated)[o].skill = object[o].skill
  OBVIOUS
<1> DEFINE hot == object[o].skill \in Cooling
           quiet == object[o].quiet \/ o \in escalated
           fired_o == [object[o] EXCEPT !.hot = hot, !.quiet = quiet]
<1>1. object[o] \in CoreSkill /\ o \in Objects
  BY Contents, LinksUse DEF UseIsReference
<1>2. AfterFiring(objs, escalated)[o] = fired_o \/ AfterFiring(objs, escalated)[o] = object[o]
  BY <1>1 DEF AfterFiring
<1>3. hot \in BOOLEAN
  OBVIOUS
<1>5. quiet \in BOOLEAN
  BY Zenon
<1> HIDE DEF hot, quiet
<1>4. fired_o \in CoreSkill /\ fired_o.skill = object[o].skill
  BY <1>1, <1>3, <1>5 DEF CoreSkill
<1> QED BY <1>1, <1>2, <1>4

LEMMA FireStep ==
  ASSUME TypeOK, NEW objs, objs \subseteq Referenced, FireSkills(objs),
         Links', Referenced' \subseteq Referenced
  PROVE  /\ HeapOK' /\ fired' \subseteq Skills /\ granted' \subseteq Skills
         /\ \A o \in Referenced' : object'[o].skill = object[o].skill
<1>1. PICK escalated : Heap(AfterFiring(objs, escalated))
  BY DEF FireSkills
<1>2. \A o \in Referenced' : /\ AfterFiring(objs, escalated)[o] \in CoreSkill
                             /\ AfterFiring(objs, escalated)[o].skill = object[o].skill
  BY FiringKeeps
<1>3. HeapOK' /\ \A o \in Referenced' : object'[o] = AfterFiring(objs, escalated)[o]
  <2> DEFINE contents == AfterFiring(objs, escalated)
  <2>1. Heap(contents) /\ \A o \in Referenced' : contents[o] \in CoreSkill
    BY <1>1, <1>2
  <2> HIDE DEF contents
  <2>2. HeapOK' /\ \A o \in Referenced' : object'[o] = contents[o]
    BY <2>1, HeapStep
  <2> QED BY <2>2 DEF contents
<1>4. fired' \subseteq Skills /\ granted' \subseteq Skills
  BY Contents DEF FireSkills, Ready
<1> QED BY <1>2, <1>3, <1>4

-----------------------------------------------------------------------------
\* The parts of a step.

HistoryTyped == registered \subseteq Skills /\ orphaned \subseteq Skills

LEMMA TypesNext ==
  ASSUME Links', HeapOK', pending' \in [Groups -> Timers \cup {None}],
         running' \in BOOLEAN, activeMode' \in Modes, fired' \subseteq Skills,
         granted' \subseteq Skills, HistoryTyped', overlapped' \subseteq Live'
  PROVE  TypeOK'
BY DEF TypeOK, Links, HeapOK, HistoryTyped

LEMMA SchedulesKept ==
  ASSUME IInv, Links', UNCHANGED <<skills, ticking, handle, running, history>>,
         \A o \in Referenced' : object'[o].skill = object[o].skill
  PROVE  Schedules'
<1>1. ticking' \subseteq Referenced' /\ \A s \in Skills : skills'[s] # None => skills'[s] \in Referenced'
  BY LinksUseNext DEF UseIsReference
<1>2. MapOwn'
  BY <1>1 DEF IInv, Schedules, MapOwn
<1>3. HandleStopsTimer'
  BY <1>1 DEF IInv, Schedules, HandleStopsTimer
<1>4. OneTimer'
  BY <1>1 DEF IInv, Schedules, OneTimer, history
<1>5. HandlesScheduled' /\ HandlesMap'
  BY DEF IInv, Schedules, HandlesScheduled, HandlesMap, history
<1> QED BY <1>2, <1>3, <1>4, <1>5 DEF Schedules

LEMMA ConflictsKept ==
  ASSUME IInv, UNCHANGED noConflict
  PROVE  /\ pending' \in [Groups -> Timers \cup {None}] /\ Live' = Live
         /\ overlapped' \subseteq Live' /\ Conflicts'
<1>1. Live' = Live
  BY DEF Live, noConflict
<1>2. pending' \in [Groups -> Timers \cup {None}] /\ overlapped' \subseteq Live'
  BY <1>1 DEF IInv, TypeOK, noConflict
<1>3. Conflicts'
  BY <1>1 DEF IInv, Conflicts, LoneConflictAnswerable, OverlapKnown, noConflict
<1> QED BY <1>1, <1>2, <1>3

\* Contested groups: their timeouts are new and told apart, what they captured
\* was in use before.
LEMMA RaiseStep ==
  ASSUME IInv, NEW objs, objs \subseteq Referenced,
         NEW timerOf \in [Contested(objs) -> Timers \ Live],
         \A g, h \in Contested(objs) : g # h => timerOf[g] # timerOf[h],
         RaiseConflicts(objs, timerOf), UNCHANGED <<skills, ticking, handle>>
  PROVE  /\ Links' /\ Referenced' \subseteq Referenced
         /\ pending' \in [Groups -> Timers \cup {None}]
         /\ overlapped' \subseteq Live' /\ Conflicts'
<1> DEFINE contested == Contested(objs)
           new == {timerOf[g] : g \in contested}
           held == {c \in Live : conflict[c].group \in contested}
           raised(g) == [group |-> g, objects |-> Rivals(objs, g)]
<1>1. Links /\ UseIsReference
  BY Contents, LinksUse DEF IInv
<1>2. contested \subseteq Groups
  BY DEF Contested
<1>3. \A g \in contested : timerOf[g] \in Timers /\ timerOf[g] \notin Live
  OBVIOUS
<1>4. \A g, h \in contested : timerOf[g] = timerOf[h] => g = h
  OBVIOUS
<1>5. \A g \in contested : raised(g) \in Conflict /\ raised(g) # None
                           /\ raised(g).group = g /\ raised(g).objects \subseteq Referenced
  BY <1>1, <1>2, SkillAssumption DEF Rivals, Conflict, UseIsReference
<1> HIDE DEF raised
<1>6. conflict' = [c \in Timers |->
           IF c \in new THEN raised(CHOOSE h \in contested : timerOf[h] = c) ELSE conflict[c]]
  BY DEF RaiseConflicts, raised
<1>7. pending' = [g \in Groups |-> IF g \in contested THEN timerOf[g] ELSE pending[g]]
  BY DEF RaiseConflicts
<1>8. overlapped' = overlapped \cup held \cup {timerOf[g] : g \in {conflict[c].group : c \in held}}
  BY DEF RaiseConflicts
<1> HIDE DEF contested
<1>9. \A g \in contested : conflict'[timerOf[g]] = raised(g)
  <2> TAKE g \in contested
  <2>1. (CHOOSE h \in contested : timerOf[h] = timerOf[g]) = g
    BY <1>4
  <2> QED BY <1>3, <1>6, <2>1
<1>10. \A c \in Timers \ new : conflict'[c] = conflict[c]
  BY <1>6
<1>11. Live' = Live \cup new /\ Live \cap new = {}
  BY <1>3, <1>5, <1>9, <1>10 DEF Live
<1>12. \A c \in Live : conflict'[c] = conflict[c] /\ c \in Timers
  BY <1>10, <1>11 DEF Live
<1>13. conflict' \in [Timers -> Conflict \cup {None}]
  <2>1. \A c \in Timers : conflict'[c] \in Conflict \cup {None}
    BY <1>1, <1>5, <1>9, <1>10 DEF Links
  <2> QED BY <1>6, <2>1
<1>14. Links'
  BY <1>1, <1>13 DEF Links
<1>15. Referenced' \subseteq Referenced
  <2>1. \A c \in Live' : conflict'[c].objects \subseteq Referenced
    BY <1>1, <1>5, <1>9, <1>11, <1>12 DEF UseIsReference
  <2> QED BY <1>1, <1>14, <2>1, LinksUseNext DEF UseIsReference
<1>16. pending' \in [Groups -> Timers \cup {None}]
  BY <1>3, <1>7 DEF IInv, TypeOK
<1>17. \A c \in held : timerOf[conflict[c].group] \in new
  OBVIOUS
<1>18. overlapped' \subseteq Live'
  BY <1>8, <1>11, <1>17 DEF IInv, TypeOK
<1>19. LoneConflictAnswerable'
  <2>1. ASSUME NEW c \in Live', c \notin overlapped'
        PROVE  pending'[conflict'[c].group] = c
    <3>1. CASE c \in new
      BY <1>2, <1>5, <1>7, <1>9, <3>1
    <3>2. CASE c \in Live
      <4>1. conflict[c].group \notin contested /\ pending[conflict[c].group] = c
        BY <1>8, <2>1, <3>2 DEF IInv, Conflicts, LoneConflictAnswerable
      <4>2. conflict[c].group \in Groups
        BY <1>1, <3>2 DEF UseIsReference
      <4> QED BY <1>7, <1>12, <3>2, <4>1, <4>2
    <3> QED BY <1>11, <3>1, <3>2
  <2>2. ASSUME NEW g \in Groups, pending'[g] # None
        PROVE  pending'[g] \in Live' /\ conflict'[pending'[g]].group = g
    <3>1. CASE g \in contested
      BY <1>5, <1>7, <1>9, <1>11, <3>1
    <3>2. CASE g \notin contested
      <4>1. pending'[g] = pending[g]
        BY <1>7, <3>2
      <4>2. pending[g] \in Live /\ conflict[pending[g]].group = g
        BY <2>2, <4>1 DEF IInv, Conflicts, LoneConflictAnswerable
      <4> QED BY <1>11, <1>12, <4>1, <4>2
    <3> QED BY <3>1, <3>2
  <2> QED BY <2>1, <2>2 DEF LoneConflictAnswerable
<1>20. OverlapKnown'
  <2> SUFFICES ASSUME NEW c \in Live', NEW d \in Live', c # d,
                      conflict'[c].group = conflict'[d].group
               PROVE  c \in overlapped'
    BY DEF OverlapKnown
  <2>1. CASE c \in Live /\ d \in Live
    BY <1>8, <1>12, <2>1 DEF IInv, Conflicts, OverlapKnown
  <2>2. CASE c \in Live /\ d \in new
    BY <1>5, <1>8, <1>9, <1>12, <2>2
  <2>3. CASE c \in new /\ d \in Live
    <3>1. PICK g \in contested : c = timerOf[g]
      BY <2>3
    <3>2. conflict[d].group = g /\ d \in held
      BY <1>5, <1>9, <1>12, <2>3, <3>1
    <3> QED BY <1>8, <3>1, <3>2
  <2>4. CASE c \in new /\ d \in new
    BY <1>5, <1>9, <2>4
  <2> QED BY <1>11, <2>1, <2>2, <2>3, <2>4
<1> QED BY <1>14, <1>15, <1>16, <1>18, <1>19, <1>20 DEF Conflicts

\* A conflict that is over takes only the entry that was its own.
LEMMA SettleStep ==
  ASSUME IInv, NEW c \in Live, Settle(conflict[c].group, c), UNCHANGED <<skills, ticking, handle>>
  PROVE  /\ Links' /\ Referenced' \subseteq Referenced
         /\ pending' \in [Groups -> Timers \cup {None}]
         /\ overlapped' \subseteq Live' /\ Conflicts'
<1> DEFINE g == conflict[c].group
<1>1. Links /\ UseIsReference
  BY Contents, LinksUse DEF IInv
<1>2. c \in Timers /\ g \in Groups
  BY <1>1 DEF Live, UseIsReference
<1>3. /\ pending' = [pending EXCEPT ![g] = None]
      /\ conflict' = [conflict EXCEPT ![c] = None]
      /\ overlapped' = overlapped \ {c}
  BY DEF Settle
<1>4. Live' = Live \ {c} /\ \A d \in Live' : conflict'[d] = conflict[d]
  BY <1>1, <1>2, <1>3 DEF Live, Links
<1>5. Links'
  BY <1>1, <1>3 DEF Links
<1>6. Referenced' \subseteq Referenced
  BY <1>1, <1>4, <1>5, LinksUseNext DEF UseIsReference
<1>7. pending' \in [Groups -> Timers \cup {None}] /\ overlapped' \subseteq Live'
  BY <1>3, <1>4 DEF IInv, TypeOK
<1>8. OverlapKnown'
  BY <1>3, <1>4 DEF IInv, Conflicts, OverlapKnown
<1>9. LoneConflictAnswerable'
  <2>1. ASSUME NEW d \in Live', d \notin overlapped'
        PROVE  pending'[conflict'[d].group] = d
    <3>1. d \in Live /\ d # c /\ d \notin overlapped
      BY <1>3, <1>4, <2>1
    <3>2. conflict[d].group # g /\ pending[conflict[d].group] = d
      BY <3>1 DEF IInv, Conflicts, OverlapKnown, LoneConflictAnswerable
    <3>3. conflict[d].group \in Groups /\ pending \in [Groups -> Timers \cup {None}]
      BY <1>1, <3>1 DEF UseIsReference, IInv, TypeOK
    <3> QED BY <1>3, <1>4, <3>1, <3>2, <3>3
  <2>2. ASSUME NEW h \in Groups, pending'[h] # None
        PROVE  pending'[h] \in Live' /\ conflict'[pending'[h]].group = h
    <3>1. h # g /\ pending'[h] = pending[h]
      BY <1>2, <1>3, <2>2 DEF IInv, TypeOK
    <3>2. pending[h] \in Live /\ conflict[pending[h]].group = h
      BY <2>2, <3>1 DEF IInv, Conflicts, LoneConflictAnswerable
    <3> QED BY <1>4, <3>1, <3>2
  <2> QED BY <2>1, <2>2 DEF LoneConflictAnswerable
<1> QED BY <1>5, <1>6, <1>7, <1>8, <1>9 DEF Conflicts

-----------------------------------------------------------------------------
\* The tools.

\* What most steps leave alone.
LEMMA StillTyped ==
  ASSUME IInv, UNCHANGED <<activeMode, running, history>>
  PROVE  running' \in BOOLEAN /\ activeMode' \in Modes /\ HistoryTyped'
BY DEF IInv, TypeOK, history, HistoryTyped

LEMMA RegisterSkillStep ==
  ASSUME IInv, NEW s \in Skills, RegisterSkill(s)
  PROVE  IInv'
<1>1. PICK copy \in Fresh, original \in Fresh :
        /\ copy # original
        /\ skills' = [skills EXCEPT ![s] = copy]
        /\ ticking' = IF Scheduled(s) THEN ticking \cup {original} ELSE ticking
        /\ handle' = IF Scheduled(s) THEN [handle EXCEPT ![s] = original] ELSE handle
        /\ UNCHANGED noConflict
        /\ Heap([o \in Objects |-> IF o \in {copy, original} THEN NewSkill(s) ELSE object[o]])
  BY DEF RegisterSkill
<1> DEFINE contents == [o \in Objects |-> IF o \in {copy, original} THEN NewSkill(s) ELSE object[o]]
<1>2. Links /\ UseIsReference /\ TypeOK
  BY Contents, LinksUse DEF IInv
<1>3. /\ copy \in Objects /\ copy \notin Referenced
      /\ original \in Objects /\ original \notin Referenced
  BY DEF Fresh
<1>4. Links'
  BY <1>1, <1>2, <1>3 DEF Links, noConflict
<1>5. Live' = Live /\ conflict' = conflict
  BY <1>1 DEF Live, noConflict
<1>6. Referenced' \subseteq Referenced \cup {copy, original}
  <2>1. \A o \in Referenced' : \/ \E t \in Skills : skills'[t] = o /\ skills'[t] # None
                               \/ o \in ticking'
                               \/ \E c \in Live' : o \in conflict'[c].objects
    BY <1>4, LinksUseNext DEF UseIsReference
  <2>2. \A t \in Skills : skills'[t] = copy \/ skills'[t] = skills[t]
    BY <1>1, <1>2 DEF Links
  <2> QED BY <1>1, <1>2, <1>5, <2>1, <2>2 DEF UseIsReference
<1>7. \A o \in Objects : contents[o] = IF o \in {copy, original} THEN NewSkill(s) ELSE object[o]
  OBVIOUS
<1>8. NewSkill(s) \in CoreSkill /\ NewSkill(s).skill = s
  BY DEF NewSkill, CoreSkill
<1>9. \A o \in Referenced' : contents[o] \in CoreSkill
  BY <1>2, <1>3, <1>6, <1>8, Contents DEF UseIsReference
<1>10. Heap(contents)
  BY <1>1
<1> HIDE DEF contents
<1>11. HeapOK' /\ \A o \in Referenced' : object'[o] = contents[o]
  BY <1>4, <1>9, <1>10, HeapStep
<1>12. UseIsReference'
  BY <1>4, LinksUseNext
<1>13. \A o \in Referenced' : o \in Referenced => object'[o] = object[o]
  BY <1>2, <1>3, <1>7, <1>11 DEF UseIsReference
<1>14. skills'[s] = copy /\ \A t \in Skills \ {s} : skills'[t] = skills[t] /\ handle'[t] = handle[t]
  BY <1>1, <1>2 DEF Links
<1>15. copy \in Referenced' /\ object'[copy].skill = s
  BY <1>3, <1>7, <1>8, <1>11, <1>12, <1>14, SkillAssumption DEF UseIsReference
<1>16. MapOwn'
  <2> SUFFICES ASSUME NEW t \in Skills, skills'[t] # None
               PROVE  object'[skills'[t]].skill = t
    BY DEF MapOwn
  <2>1. CASE t = s
    BY <1>14, <1>15, <2>1
  <2>2. CASE t # s
    BY <1>2, <1>12, <1>13, <1>14, <2>2 DEF UseIsReference, IInv, Schedules, MapOwn
  <2> QED BY <2>1, <2>2
<1>17. ticking \subseteq ticking' /\ \A o \in ticking : object'[o] = object[o]
  BY <1>1, <1>2, <1>12, <1>13 DEF UseIsReference
<1>18. Scheduled(s) => original \in ticking' /\ object'[original].skill = s
  BY <1>1, <1>3, <1>7, <1>8, <1>11, <1>12 DEF UseIsReference
<1>19. HandleStopsTimer'
  <2> SUFFICES ASSUME NEW t \in Skills, handle'[t] # None
               PROVE  handle'[t] \in ticking' /\ object'[handle'[t]].skill = t
    BY DEF HandleStopsTimer
  <2>1. CASE t = s /\ Scheduled(s)
    BY <1>1, <1>2, <1>18, <2>1 DEF Links
  <2>2. CASE ~(t = s /\ Scheduled(s))
    <3>1. handle'[t] = handle[t]
      BY <1>1, <1>14, <2>2
    <3> QED BY <1>17, <3>1 DEF IInv, Schedules, HandleStopsTimer
  <2> QED BY <2>1, <2>2
<1>20. /\ registered' = registered \cup {s} /\ running /\ running' = running
       /\ orphaned' = IF handle[s] # None THEN orphaned \cup {s} ELSE orphaned
  BY DEF RegisterSkill, control
<1>21. OneTimer'
  <2> SUFFICES ASSUME NEW o \in ticking', object'[o].skill \notin orphaned'
               PROVE  handle'[object'[o].skill] = o
    BY DEF OneTimer
  <2>1. CASE o \in ticking
    <3>1. object'[o] = object[o] /\ object[o].skill \in Skills /\ o # None
      BY <1>2, <1>17, <2>1, Contents, SkillAssumption DEF UseIsReference
    <3>2. handle[object[o].skill] = o
      BY <1>20, <2>1, <3>1 DEF IInv, Schedules, OneTimer
    <3>3. object[o].skill # s
      BY <1>20, <3>1, <3>2
    <3> QED BY <1>14, <3>1, <3>2, <3>3
  <2>2. CASE o \notin ticking
    <3>1. Scheduled(s) /\ o = original
      BY <1>1, <2>2
    <3> QED BY <1>1, <1>2, <1>18, <3>1 DEF Links
  <2> QED BY <2>1, <2>2
<1>25. HandlesScheduled'
  <2> SUFFICES ASSUME NEW t \in Skills
               PROVE  handle'[t] # None <=> Scheduled(t) /\ skills'[t] # None
    BY DEF HandlesScheduled, Scheduled
  <2>1. handle[t] # None <=> Scheduled(t) /\ skills[t] # None
    BY <1>20 DEF IInv, Schedules, HandlesScheduled
  <2>2. CASE t = s
    BY <1>1, <1>2, <1>3, <1>14, <2>1, <2>2, SkillAssumption DEF Links
  <2>3. CASE t # s
    BY <1>14, <2>1, <2>3
  <2> QED BY <2>2, <2>3
<1>26. HandlesMap'
  BY <1>14, <1>20 DEF IInv, Schedules, HandlesMap
<1>22. /\ running' \in BOOLEAN /\ activeMode' \in Modes /\ HistoryTyped'
       /\ fired' \subseteq Skills /\ granted' \subseteq Skills
  BY <1>2, <1>20 DEF TypeOK, RegisterSkill, control, Silent, HistoryTyped
<1>23. /\ pending' \in [Groups -> Timers \cup {None}] /\ overlapped' \subseteq Live' /\ Conflicts'
  BY <1>1, ConflictsKept
<1>24. TypeOK'
  BY <1>4, <1>11, <1>22, <1>23, TypesNext
<1> QED BY <1>16, <1>19, <1>21, <1>23, <1>24, <1>25, <1>26 DEF IInv, Schedules

LEMMA UpdateSkillStep ==
  ASSUME IInv, NEW s \in Skills, UpdateSkill(s)
  PROVE  IInv'
<1>1. PICK updated \in Fresh :
        /\ skills' = [skills EXCEPT ![s] = updated]
        /\ ticking' = IF Scheduled(s) THEN Teardown(s) \cup {updated} ELSE Teardown(s)
        /\ handle' = [handle EXCEPT ![s] = IF Scheduled(s) THEN updated ELSE None]
        /\ UNCHANGED noConflict
        /\ Heap([object EXCEPT ![updated] = object[skills[s]]])
  BY DEF UpdateSkill
<1> DEFINE contents == [object EXCEPT ![updated] = object[skills[s]]]
<1>2. Links /\ UseIsReference /\ TypeOK
  BY Contents, LinksUse DEF IInv
<1>3. updated \in Objects /\ updated \notin Referenced
  BY DEF Fresh
<1>4. Links'
  BY <1>1, <1>2, <1>3 DEF Links, noConflict, Teardown
<1>5. Live' = Live /\ conflict' = conflict
  BY <1>1 DEF Live, noConflict
<1>6. Referenced' \subseteq Referenced \cup {updated}
  <2>1. \A o \in Referenced' : \/ \E t \in Skills : skills'[t] = o /\ skills'[t] # None
                               \/ o \in ticking'
                               \/ \E c \in Live' : o \in conflict'[c].objects
    BY <1>4, LinksUseNext DEF UseIsReference
  <2>2. \A t \in Skills : skills'[t] = updated \/ skills'[t] = skills[t]
    BY <1>1, <1>2 DEF Links
  <2> QED BY <1>1, <1>2, <1>5, <2>1, <2>2 DEF UseIsReference, Teardown
<1>7. \A o \in Objects : contents[o] = IF o = updated THEN object[skills[s]] ELSE object[o]
  BY <1>2 DEF TypeOK
<1>8. object[skills[s]] \in CoreSkill /\ object[skills[s]].skill = s
  BY <1>2, Contents DEF UpdateSkill, UseIsReference, IInv, Schedules, MapOwn
<1>9. \A o \in Referenced' : contents[o] \in CoreSkill
  BY <1>2, <1>3, <1>6, <1>7, <1>8, Contents DEF UseIsReference
<1>10. Heap(contents)
  BY <1>1
<1> HIDE DEF contents
<1>11. HeapOK' /\ \A o \in Referenced' : object'[o] = contents[o]
  BY <1>4, <1>9, <1>10, HeapStep
<1>12. UseIsReference'
  BY <1>4, LinksUseNext
<1>13. \A o \in Referenced' : o \in Referenced => object'[o] = object[o]
  BY <1>2, <1>3, <1>7, <1>11 DEF UseIsReference
<1>14. skills'[s] = updated /\ \A t \in Skills \ {s} : skills'[t] = skills[t] /\ handle'[t] = handle[t]
  BY <1>1, <1>2 DEF Links
<1>15. updated \in Referenced' /\ object'[updated].skill = s
  BY <1>3, <1>7, <1>8, <1>11, <1>12, <1>14, SkillAssumption DEF UseIsReference
<1>16. MapOwn'
  <2> SUFFICES ASSUME NEW t \in Skills, skills'[t] # None
               PROVE  object'[skills'[t]].skill = t
    BY DEF MapOwn
  <2>1. CASE t = s
    BY <1>14, <1>15, <2>1
  <2>2. CASE t # s
    BY <1>2, <1>12, <1>13, <1>14, <2>2 DEF UseIsReference, IInv, Schedules, MapOwn
  <2> QED BY <2>1, <2>2
<1>17. handle'[s] = IF Scheduled(s) THEN updated ELSE None
  BY <1>1, <1>2 DEF Links
<1>18. /\ \A o \in ticking' : o = updated \/ (o \in ticking /\ o # handle[s] /\ object'[o] = object[o])
       /\ updated \in ticking' <=> Scheduled(s)
  BY <1>1, <1>2, <1>3, <1>12, <1>13 DEF UseIsReference, Teardown
<1>19. HandleStopsTimer'
  <2> SUFFICES ASSUME NEW t \in Skills, handle'[t] # None
               PROVE  handle'[t] \in ticking' /\ object'[handle'[t]].skill = t
    BY DEF HandleStopsTimer
  <2>1. CASE t = s
    BY <1>15, <1>17, <1>18, <2>1
  <2>2. CASE t # s
    <3>1. handle'[t] = handle[t] /\ handle[t] \in ticking /\ object[handle[t]].skill = t
      BY <1>14, <2>2 DEF IInv, Schedules, HandleStopsTimer
    <3>2. handle[t] # handle[s]
      BY <2>2, <3>1 DEF IInv, Schedules, HandleStopsTimer
    <3>3. handle[t] \in ticking'
      BY <1>1, <3>1, <3>2 DEF Teardown
    <3> QED BY <1>3, <1>18, <3>1, <3>3, <1>2 DEF UseIsReference
  <2> QED BY <2>1, <2>2
<1>20. registered' = registered \ {s} /\ orphaned' = orphaned /\ running /\ running' = running
  BY DEF UpdateSkill, control
<1>21. OneTimer'
  <2> SUFFICES ASSUME NEW o \in ticking', object'[o].skill \notin orphaned'
               PROVE  handle'[object'[o].skill] = o
    BY DEF OneTimer
  <2>1. CASE o = updated
    BY <1>15, <1>17, <1>18, <2>1
  <2>2. CASE o # updated
    <3>1. o \in ticking /\ o # handle[s] /\ object'[o] = object[o]
      BY <1>18, <2>2
    <3>2. object[o].skill \in Skills
      BY <1>2, <3>1, Contents DEF UseIsReference
    <3>3. handle[object[o].skill] = o
      BY <1>20, <3>1 DEF IInv, Schedules, OneTimer
    <3> QED BY <1>14, <3>1, <3>2, <3>3
  <2> QED BY <2>1, <2>2
<1>25. HandlesScheduled'
  <2> SUFFICES ASSUME NEW t \in Skills
               PROVE  handle'[t] # None <=> Scheduled(t) /\ skills'[t] # None
    BY DEF HandlesScheduled, Scheduled
  <2>1. handle[t] # None <=> Scheduled(t) /\ skills[t] # None
    BY <1>20 DEF IInv, Schedules, HandlesScheduled
  <2>2. CASE t = s
    BY <1>3, <1>14, <1>17, <2>2, SkillAssumption
  <2>3. CASE t # s
    BY <1>14, <2>1, <2>3
  <2> QED BY <2>2, <2>3
<1>26. HandlesMap'
  BY <1>14, <1>17, <1>20 DEF IInv, Schedules, HandlesMap
<1>22. /\ running' \in BOOLEAN /\ activeMode' \in Modes /\ HistoryTyped'
       /\ fired' \subseteq Skills /\ granted' \subseteq Skills
  BY <1>2, <1>20 DEF TypeOK, UpdateSkill, control, Silent, HistoryTyped
<1>23. /\ pending' \in [Groups -> Timers \cup {None}] /\ overlapped' \subseteq Live' /\ Conflicts'
  BY <1>1, ConflictsKept
<1>24. TypeOK'
  BY <1>4, <1>11, <1>22, <1>23, TypesNext
<1> QED BY <1>16, <1>19, <1>21, <1>23, <1>24, <1>25, <1>26 DEF IInv, Schedules

\* Steps after which a part of the objects is left, with what they were.
LEMMA HeapShrinks ==
  ASSUME TypeOK, Links', Referenced' \subseteq Referenced, Heap(object)
  PROVE  /\ HeapOK' /\ \A o \in Referenced' : object'[o] = object[o]
         /\ \A s \in Skills : skills'[s] # None => object'[skills'[s]] = object[skills'[s]]
         /\ \A o \in ticking' : object'[o] = object[o]
<1>1. \A o \in Referenced' : object[o] \in CoreSkill
  BY Contents
<1>2. HeapOK' /\ \A o \in Referenced' : object'[o] = object[o]
  BY <1>1, HeapStep
<1> QED BY <1>2, LinksUseNext DEF UseIsReference

LEMMA RemoveSkillStep ==
  ASSUME IInv, NEW s \in Skills, RemoveSkill(s)
  PROVE  IInv'
<1>1. /\ skills' = [skills EXCEPT ![s] = None] /\ ticking' = ticking \ {handle[s]}
      /\ handle' = [handle EXCEPT ![s] = None]
      /\ UNCHANGED <<noConflict, control, orphaned>> /\ registered' = registered \ {s}
      /\ running /\ Heap(object) /\ Silent
  BY DEF RemoveSkill, Teardown
<1>2. Links /\ UseIsReference /\ TypeOK
  BY Contents, LinksUse DEF IInv
<1>3. Links'
  BY <1>1, <1>2 DEF Links, noConflict
<1>4. /\ skills'[s] = None /\ handle'[s] = None
      /\ \A t \in Skills \ {s} : skills'[t] = skills[t] /\ handle'[t] = handle[t]
  BY <1>1, <1>2 DEF Links
<1>5. Live' = Live /\ conflict' = conflict
  BY <1>1 DEF Live, noConflict
<1>6. Referenced' \subseteq Referenced
  <2>1. \A o \in Referenced' : \/ \E t \in Skills : skills'[t] = o /\ skills'[t] # None
                               \/ o \in ticking'
                               \/ \E c \in Live' : o \in conflict'[c].objects
    BY <1>3, LinksUseNext DEF UseIsReference
  <2> QED BY <1>1, <1>2, <1>4, <1>5, <2>1 DEF UseIsReference
<1>7. /\ HeapOK'
      /\ \A t \in Skills : skills'[t] # None => object'[skills'[t]] = object[skills'[t]]
      /\ \A o \in ticking' : object'[o] = object[o]
  BY <1>1, <1>2, <1>3, <1>6, HeapShrinks
<1>8. MapOwn'
  BY <1>4, <1>7 DEF IInv, Schedules, MapOwn
<1>9. HandleStopsTimer'
  <2> SUFFICES ASSUME NEW t \in Skills, handle'[t] # None
               PROVE  handle'[t] \in ticking' /\ object'[handle'[t]].skill = t
    BY DEF HandleStopsTimer
  <2>1. t # s /\ handle'[t] = handle[t]
    BY <1>4
  <2>2. handle[t] \in ticking /\ object[handle[t]].skill = t
    BY <2>1 DEF IInv, Schedules, HandleStopsTimer
  <2>3. handle[t] # handle[s]
    BY <2>1, <2>2 DEF IInv, Schedules, HandleStopsTimer
  <2> QED BY <1>1, <1>7, <2>1, <2>2, <2>3
<1>10. OneTimer'
  <2> SUFFICES ASSUME NEW o \in ticking', object'[o].skill \notin orphaned'
               PROVE  handle'[object'[o].skill] = o
    BY DEF OneTimer
  <2>1. o \in ticking /\ o # handle[s] /\ object'[o] = object[o]
    BY <1>1, <1>7
  <2>2. object[o].skill \in Skills
    BY <1>2, <2>1, Contents DEF UseIsReference
  <2>3. handle[object[o].skill] = o
    BY <1>1, <2>1 DEF IInv, Schedules, OneTimer
  <2> QED BY <1>4, <2>1, <2>2, <2>3
<1>14. HandlesScheduled'
  <2> SUFFICES ASSUME NEW t \in Skills
               PROVE  handle'[t] # None <=> Scheduled(t) /\ skills'[t] # None
    BY DEF HandlesScheduled, Scheduled
  <2> QED BY <1>1, <1>4 DEF IInv, Schedules, HandlesScheduled
<1>15. HandlesMap'
  BY <1>1, <1>4 DEF IInv, Schedules, HandlesMap
<1>11. /\ pending' \in [Groups -> Timers \cup {None}] /\ overlapped' \subseteq Live' /\ Conflicts'
  BY <1>1, ConflictsKept
<1>12. /\ running' \in BOOLEAN /\ activeMode' \in Modes /\ HistoryTyped'
       /\ fired' \subseteq Skills /\ granted' \subseteq Skills
  BY <1>1, <1>2 DEF TypeOK, control, Silent, HistoryTyped
<1>13. TypeOK'
  BY <1>3, <1>7, <1>11, <1>12, TypesNext
<1> QED BY <1>8, <1>9, <1>10, <1>11, <1>13, <1>14, <1>15 DEF IInv, Schedules

LEMMA StopStep ==
  ASSUME IInv, Stop
  PROVE  IInv'
<1>1. /\ running' = FALSE /\ ticking' = ticking \ {handle[s] : s \in Skills}
      /\ handle' = [s \in Skills |-> None]
      /\ UNCHANGED <<skills, noConflict, activeMode, history>> /\ Heap(object) /\ Silent
  BY DEF Stop
<1>2. Links /\ UseIsReference /\ TypeOK
  BY Contents, LinksUse DEF IInv
<1>3. Links'
  BY <1>1, <1>2 DEF Links, noConflict
<1>4. Live' = Live /\ conflict' = conflict
  BY <1>1 DEF Live, noConflict
<1>5. Referenced' \subseteq Referenced
  <2>1. \A o \in Referenced' : \/ \E t \in Skills : skills'[t] = o /\ skills'[t] # None
                               \/ o \in ticking'
                               \/ \E c \in Live' : o \in conflict'[c].objects
    BY <1>3, LinksUseNext DEF UseIsReference
  <2> QED BY <1>1, <1>2, <1>4, <2>1 DEF UseIsReference
<1>6. /\ HeapOK'
      /\ \A t \in Skills : skills'[t] # None => object'[skills'[t]] = object[skills'[t]]
      /\ \A o \in ticking' : object'[o] = object[o]
  BY <1>1, <1>2, <1>3, <1>5, HeapShrinks
<1>7. MapOwn'
  BY <1>1, <1>6 DEF IInv, Schedules, MapOwn
<1>8. HandleStopsTimer'
  BY <1>1 DEF HandleStopsTimer
<1>9. OneTimer'
  <2> SUFFICES ASSUME NEW o \in ticking', object'[o].skill \notin orphaned'
               PROVE  FALSE
    BY DEF OneTimer
  <2>1. o \in ticking /\ object'[o] = object[o] /\ orphaned' = orphaned
    BY <1>1, <1>6 DEF history
  <2>2. object[o].skill \in Skills
    BY <1>2, <2>1, Contents DEF UseIsReference
  <2>3. handle[object[o].skill] = o
    BY <2>1 DEF IInv, Schedules, OneTimer
  <2> QED BY <1>1, <2>2, <2>3
<1>13. HandlesScheduled' /\ HandlesMap'
  BY <1>1 DEF HandlesScheduled, HandlesMap
<1>10. /\ pending' \in [Groups -> Timers \cup {None}] /\ overlapped' \subseteq Live' /\ Conflicts'
  BY <1>1, ConflictsKept
<1>11. /\ running' \in BOOLEAN /\ activeMode' \in Modes /\ HistoryTyped'
       /\ fired' \subseteq Skills /\ granted' \subseteq Skills
  BY <1>1, <1>2 DEF TypeOK, Silent, history, HistoryTyped
<1>12. TypeOK'
  BY <1>3, <1>6, <1>10, <1>11, TypesNext
<1> QED BY <1>7, <1>8, <1>9, <1>10, <1>12, <1>13 DEF IInv, Schedules

\* Changes of one object in place.
LEMMA InPlaceStep ==
  ASSUME IInv, UNCHANGED <<skills, ticking, handle, noConflict, running, history>>,
         activeMode' \in Modes, fired' \subseteq Skills, granted' \subseteq Skills,
         object' \in [Objects -> CoreSkill \cup {None}],
         \A o \in Objects : object'[o] = None <=> object[o] = None,
         \A o \in Objects : object[o] # None => object'[o].skill = object[o].skill
  PROVE  IInv'
<1>1. TypeOK /\ conflict' = conflict
  BY DEF IInv, noConflict
<1>2. Links' /\ HeapOK' /\ Referenced' = Referenced
  BY <1>1, InPlace
<1>3. \A o \in Referenced' : object'[o].skill = object[o].skill
  BY <1>1, <1>2, Contents, LinksUse, SkillAssumption DEF UseIsReference
<1>4. Schedules'
  BY <1>2, <1>3, SchedulesKept
<1>5. /\ pending' \in [Groups -> Timers \cup {None}] /\ overlapped' \subseteq Live' /\ Conflicts'
  BY ConflictsKept
<1>6. TypeOK'
  BY <1>1, <1>2, <1>5, TypesNext DEF TypeOK, history, HistoryTyped
<1> QED BY <1>4, <1>5, <1>6 DEF IInv

LEMMA DisableSkillStep ==
  ASSUME IInv, NEW s \in Skills, NEW enabled \in BOOLEAN, DisableSkill(s, enabled)
  PROVE  IInv'
<1> DEFINE o == skills[s]
           changed == [object[o] EXCEPT !.enabled = enabled]
<1>1. o \in Objects /\ object[o] \in CoreSkill /\ object[o] # None
  BY Contents, LinksUse, SkillAssumption DEF IInv, UseIsReference, DisableSkill
<1>2. changed \in CoreSkill /\ changed.skill = object[o].skill
  BY <1>1 DEF CoreSkill
<1>3. changed # None
  BY <1>2, SkillAssumption
<1>4. object' = [object EXCEPT ![o] = changed]
  BY DEF DisableSkill
<1> HIDE DEF changed, o
<1>5. object \in [Objects -> CoreSkill \cup {None}]
  BY DEF IInv, TypeOK
<1>6. /\ object' \in [Objects -> CoreSkill \cup {None}]
      /\ \A p \in Objects : object'[p] = None <=> object[p] = None
      /\ \A p \in Objects : object[p] # None => object'[p].skill = object[p].skill
  BY <1>1, <1>2, <1>3, <1>4, <1>5
<1>7. /\ UNCHANGED <<skills, ticking, handle, noConflict, running, history>>
      /\ activeMode' \in Modes /\ fired' \subseteq Skills /\ granted' \subseteq Skills
  BY DEF DisableSkill, IInv, TypeOK, control, Silent
<1> QED BY <1>6, <1>7, InPlaceStep

LEMMA SwitchModeStep ==
  ASSUME IInv, NEW mode \in Modes, SwitchMode(mode)
  PROVE  IInv'
<1>1. object' = object /\ object \in [Objects -> CoreSkill \cup {None}]
  BY DEF SwitchMode, IInv, TypeOK
<1>2. /\ UNCHANGED <<skills, ticking, handle, noConflict, running, history>>
      /\ activeMode' \in Modes /\ fired' \subseteq Skills /\ granted' \subseteq Skills
  BY DEF SwitchMode, IInv, TypeOK, Silent
<1>3. /\ object' \in [Objects -> CoreSkill \cup {None}]
      /\ \A p \in Objects : object'[p] = None <=> object[p] = None
      /\ \A p \in Objects : object[p] # None => object'[p].skill = object[p].skill
  BY ONLY <1>1
<1> QED BY <1>2, <1>3, InPlaceStep

LEMMA CooldownOverStep ==
  ASSUME IInv, NEW o \in Objects, CooldownOver(o)
  PROVE  IInv'
<1>1. object \in [Objects -> CoreSkill \cup {None}] /\ object[o] \in CoreSkill
  BY DEF CooldownOver, IInv, TypeOK
<1>2. PICK changed \in {[object[o] EXCEPT !.hot = FALSE], [object[o] EXCEPT !.quiet = FALSE]} :
        object' = [object EXCEPT ![o] = changed]
  BY DEF CooldownOver
<1>3. changed \in CoreSkill /\ changed.skill = object[o].skill /\ changed # None
  <2>1. changed \in CoreSkill /\ changed.skill = object[o].skill
    <3>1. CASE changed = [object[o] EXCEPT !.hot = FALSE]
      BY ONLY <1>1, <3>1 DEF CoreSkill
    <3>2. CASE changed = [object[o] EXCEPT !.quiet = FALSE]
      BY ONLY <1>1, <3>2 DEF CoreSkill
    <3> QED BY <3>1, <3>2
  <2> QED BY <2>1, SkillAssumption
<1>4. /\ object' \in [Objects -> CoreSkill \cup {None}]
      /\ \A p \in Objects : object'[p] = None <=> object[p] = None
      /\ \A p \in Objects : object[p] # None => object'[p].skill = object[p].skill
  BY <1>1, <1>2, <1>3, SkillAssumption
<1>5. /\ UNCHANGED <<skills, ticking, handle, noConflict, running, history>>
      /\ activeMode' \in Modes /\ fired' \subseteq Skills /\ granted' \subseteq Skills
  BY DEF CooldownOver, IInv, TypeOK, control, Silent
<1> QED BY <1>4, <1>5, InPlaceStep

-----------------------------------------------------------------------------
\* Firing and conflicts.

\* The end of a step in which skills fire: the conflicts have been dealt with.
LEMMA FiringStep ==
  ASSUME IInv, NEW objs, objs \subseteq Referenced, FireSkills(objs),
         UNCHANGED <<skills, ticking, handle, control, history>>,
         Links', Referenced' \subseteq Referenced,
         pending' \in [Groups -> Timers \cup {None}], overlapped' \subseteq Live', Conflicts'
  PROVE  IInv'
<1>1. /\ HeapOK' /\ fired' \subseteq Skills /\ granted' \subseteq Skills
      /\ \A o \in Referenced' : object'[o].skill = object[o].skill
  BY FireStep DEF IInv
<1>2. Schedules'
  BY <1>1, SchedulesKept DEF control
<1>3. running' \in BOOLEAN /\ activeMode' \in Modes /\ HistoryTyped'
  BY StillTyped DEF control
<1>4. TypeOK'
  BY <1>1, <1>3, TypesNext
<1> QED BY <1>2, <1>4 DEF IInv

LEMMA ExecuteSkillSetStep ==
  ASSUME IInv, NEW objs, objs \subseteq Referenced, ExecuteSkillSet(objs),
         UNCHANGED <<skills, ticking, handle, control, history>>
  PROVE  IInv'
<1>1. PICK timerOf \in [Contested(objs) -> Timers \ Live] :
        /\ \A g, h \in Contested(objs) : g # h => timerOf[g] # timerOf[h]
        /\ RaiseConflicts(objs, timerOf)
  BY DEF ExecuteSkillSet
<1>2. /\ Links' /\ Referenced' \subseteq Referenced
      /\ pending' \in [Groups -> Timers \cup {None}]
      /\ overlapped' \subseteq Live' /\ Conflicts'
  BY <1>1, RaiseStep
<1> DEFINE alone == objs \ UNION {Rivals(objs, g) : g \in Contested(objs)}
<1>3. FireSkills(alone) /\ alone \subseteq Referenced
  BY DEF ExecuteSkillSet
<1> HIDE DEF alone
<1> QED BY <1>2, <1>3, FiringStep

\* Only skills of the map are candidates.
LEMMA CandidatesReferenced ==
  ASSUME IInv, NEW trigger
  PROVE  Candidates(trigger) \subseteq Referenced
BY Contents, LinksUse DEF IInv, Candidates, UseIsReference

LEMMA HandleEventStep ==
  ASSUME IInv, NEW event \in Events, HandleEvent(event)
  PROVE  IInv'
<1>1. /\ ExecuteSkillSet(Waiting(event))
      /\ UNCHANGED <<skills, ticking, handle, control, history>>
  BY DEF HandleEvent
<1>2. Waiting(event) \subseteq Referenced
  BY CandidatesReferenced DEF Waiting
<1> QED BY <1>1, <1>2, ExecuteSkillSetStep

LEMMA SensorTickStep ==
  ASSUME IInv, SensorTick
  PROVE  IInv'
<1>1. PICK met \in SUBSET Candidates("sensor") : ExecuteSkillSet(met)
  BY DEF SensorTick
<1>2. UNCHANGED <<skills, ticking, handle, control, history>>
  BY DEF SensorTick
<1>3. met \subseteq Referenced
  BY CandidatesReferenced
<1> QED BY <1>1, <1>2, <1>3, ExecuteSkillSetStep

LEMMA ScheduleTickStep ==
  ASSUME IInv, NEW o \in Objects, ScheduleTick(o)
  PROVE  IInv'
<1>1. /\ o \in ticking /\ FireSkills({o})
      /\ UNCHANGED <<skills, ticking, handle, noConflict, control, history>>
  BY DEF ScheduleTick
<1>2. TypeOK /\ {o} \subseteq Referenced
  BY <1>1, Contents, LinksUse DEF IInv, UseIsReference
<1>3. /\ pending' \in [Groups -> Timers \cup {None}] /\ Live' = Live
      /\ overlapped' \subseteq Live' /\ Conflicts'
  BY <1>1, ConflictsKept
<1>4. Links' /\ Referenced' = Referenced
  BY <1>1, <1>2, <1>3 DEF TypeOK, Links, Referenced, noConflict
<1> QED BY <1>1, <1>2, <1>3, <1>4, FiringStep

LEMMA ConflictTimeoutStep ==
  ASSUME IInv, NEW c \in Timers, ConflictTimeout(c)
  PROVE  IInv'
<1>1. /\ c \in Live /\ Settle(conflict[c].group, c)
      /\ UNCHANGED <<skills, ticking, handle, control, history>>
  BY DEF ConflictTimeout
<1>2. PICK o \in conflict[c].objects : FireSkills({o})
  BY DEF ConflictTimeout
<1>3. {o} \subseteq Referenced
  BY <1>1, Contents, LinksUse DEF IInv, UseIsReference
<1>4. /\ Links' /\ Referenced' \subseteq Referenced
      /\ pending' \in [Groups -> Timers \cup {None}]
      /\ overlapped' \subseteq Live' /\ Conflicts'
  BY <1>1, SettleStep
<1> QED BY <1>1, <1>2, <1>3, <1>4, FiringStep

LEMMA ResolveConflictStep ==
  ASSUME IInv, NEW g \in Groups, NEW execute \in SUBSET Skills, ResolveConflict(g, execute)
  PROVE  IInv'
<1>1. /\ pending[g] # None /\ Settle(g, pending[g]) /\ Heap(object)
      /\ UNCHANGED <<skills, ticking, handle, control, history>>
      /\ granted' \subseteq Skills /\ fired' \subseteq Skills
  BY DEF ResolveConflict
<1>2. PICK c \in Live : pending[g] = c /\ conflict[c].group = g
  BY <1>1 DEF IInv, Conflicts, LoneConflictAnswerable
<1>3. /\ Links' /\ Referenced' \subseteq Referenced
      /\ pending' \in [Groups -> Timers \cup {None}]
      /\ overlapped' \subseteq Live' /\ Conflicts'
  <2>1. Settle(conflict[c].group, c)
    BY <1>1, <1>2
  <2> QED BY <1>1, <2>1, SettleStep
<1>4. HeapOK' /\ \A o \in Referenced' : object'[o] = object[o]
  BY <1>1, <1>3, HeapShrinks DEF IInv
<1>5. Schedules'
  BY <1>1, <1>3, <1>4, SchedulesKept DEF control
<1>6. running' \in BOOLEAN /\ activeMode' \in Modes /\ HistoryTyped'
  BY <1>1, StillTyped DEF control
<1>7. TypeOK'
  BY <1>1, <1>3, <1>4, <1>6, TypesNext
<1> QED BY <1>3, <1>5, <1>7 DEF IInv

-----------------------------------------------------------------------------
\* The engine.

LEMMA InitIInv == Init => IInv
<1> SUFFICES ASSUME Init
             PROVE  IInv
  OBVIOUS
<1>1. PICK first \in [Builtins -> Objects] :
        /\ \A b, c \in Builtins : b # c => first[b] # first[c]
        /\ skills = [s \in Skills |-> IF s \in Builtins THEN first[s] ELSE None]
        /\ ticking = {first[b] : b \in {d \in Builtins : Scheduled(d)}}
        /\ handle = [s \in Skills |-> IF s \in Builtins /\ Scheduled(s) THEN first[s] ELSE None]
        /\ object = [o \in Objects |-> IF \E b \in Builtins : first[b] = o
                                       THEN NewSkill(CHOOSE b \in Builtins : first[b] = o)
                                       ELSE None]
        /\ conflict = [c \in Timers |-> None]
        /\ pending = [g \in Groups |-> None]
        /\ running = TRUE
        /\ activeMode = DefaultMode
        /\ fired = {} /\ granted = {}
        /\ registered = {} /\ orphaned = {} /\ overlapped = {}
  BY DEF Init
<1>2. Links /\ Live = {}
  BY <1>1, SkillAssumption DEF Links, Live
<1>3. \A b \in Builtins : b \in Skills /\ first[b] \in Objects /\ first[b] # None
  BY SkillAssumption
<1>4. UseIsReference
  BY <1>2, LinksUse
<1>5. \A b \in Builtins : NewSkill(b) \in CoreSkill /\ NewSkill(b).skill = b /\ NewSkill(b) # None
  <2>1. \A b \in Builtins : NewSkill(b) \in CoreSkill /\ NewSkill(b).skill = b
    BY <1>3 DEF NewSkill, CoreSkill
  <2> QED BY <2>1, SkillAssumption
<1>6. \A b \in Builtins : object[first[b]] = NewSkill(b)
  <2> TAKE b \in Builtins
  <2>1. (CHOOSE c \in Builtins : first[c] = first[b]) = b
    BY <1>1
  <2> QED BY <1>1, <1>3, <2>1
<1>7. \A o \in Objects : o \in Referenced <=> \E b \in Builtins : first[b] = o
  BY <1>1, <1>2, <1>3, <1>4 DEF UseIsReference
<1>8. HeapOK
  <2>1. \A o \in Objects : object[o] \in CoreSkill \cup {None}
    BY <1>1, <1>3, <1>5, <1>6
  <2>2. object \in [Objects -> CoreSkill \cup {None}]
    BY <1>1, <2>1
  <2>3. \A o \in Objects : object[o] = None <=> o \in Fresh
    BY <1>1, <1>3, <1>5, <1>6, <1>7 DEF Fresh
  <2> QED BY <2>2, <2>3 DEF HeapOK
<1>9. TypeOK
  BY <1>1, <1>2, <1>8, SkillAssumption DEF TypeOK, Links, HeapOK
<1>10. Schedules
  <2>1. MapOwn
    BY <1>1, <1>3, <1>5, <1>6 DEF MapOwn
  <2>2. HandleStopsTimer
    BY <1>1, <1>3, <1>5, <1>6 DEF HandleStopsTimer
  <2>3. OneTimer
    BY <1>1, <1>3, <1>5, <1>6 DEF OneTimer
  <2>4. HandlesScheduled /\ HandlesMap
    BY <1>1, <1>3 DEF HandlesScheduled, HandlesMap
  <2> QED BY <2>1, <2>2, <2>3, <2>4 DEF Schedules
<1>11. Conflicts
  BY <1>1, <1>2 DEF Conflicts, LoneConflictAnswerable, OverlapKnown
<1> QED BY <1>9, <1>10, <1>11 DEF IInv

LEMMA Inductive == IInv /\ [Next]_vars => IInv'
<1> SUFFICES ASSUME IInv, [Next]_vars
             PROVE  IInv'
  OBVIOUS
<1>1. CASE \E s \in Skills : RegisterSkill(s) \/ UpdateSkill(s) \/ RemoveSkill(s)
  BY <1>1, RegisterSkillStep, UpdateSkillStep, RemoveSkillStep
<1>2. CASE \E s \in Skills, enabled \in BOOLEAN : DisableSkill(s, enabled)
  BY <1>2, DisableSkillStep
<1>3. CASE \E mode \in Modes : SwitchMode(mode)
  BY <1>3, SwitchModeStep
<1>4. CASE \E event \in Events : HandleEvent(event)
  BY <1>4, HandleEventStep
<1>5. CASE SensorTick
  BY <1>5, SensorTickStep
<1>6. CASE \E o \in Objects : ScheduleTick(o) \/ CooldownOver(o)
  BY <1>6, ScheduleTickStep, CooldownOverStep
<1>7. CASE \E g \in Groups, execute \in SUBSET Skills : ResolveConflict(g, execute)
  BY <1>7, ResolveConflictStep
<1>8. CASE \E c \in Timers : ConflictTimeout(c)
  BY <1>8, ConflictTimeoutStep
<1>9. CASE Stop
  BY <1>9, StopStep
<1>10. CASE UNCHANGED vars
  <2>1. object \in [Objects -> CoreSkill \cup {None}]
    BY DEF IInv, TypeOK
  <2>2. /\ object' = object
        /\ UNCHANGED <<skills, ticking, handle, noConflict, running, history>>
        /\ activeMode' \in Modes /\ fired' \subseteq Skills /\ granted' \subseteq Skills
    BY <1>10 DEF vars, noConflict, history, IInv, TypeOK
  <2> QED BY <2>1, <2>2, InPlaceStep
<1> QED BY <1>1, <1>2, <1>3, <1>4, <1>5, <1>6, <1>7, <1>8, <1>9, <1>10 DEF Next

LEMMA Invariant == Spec => []IInv
<1>1. Init => IInv
  BY InitIInv
<1>2. IInv /\ [Next]_vars => IInv'
  BY Inductive
<1> QED BY <1>1, <1>2, PTL DEF Spec

\* Every reference the engine keeps, in the map, under a timer or captured by a
\* conflict, is to an object that is there, and no object outlives them.
THEOREM ReferencesTypeCorrect == Spec => []TypeOK
BY Invariant, PTL DEF IInv

\* updateSkill, removeSkill and stop tear down a timer that runs, and one of the
\* skill they are called for, however often ids were registered anew.
THEOREM HandlesStopTimers == Spec => []HandleStopsTimer
BY Invariant, PTL DEF IInv, Schedules

\* The timers that run are the ones the map calls for: one for each skill on a
\* schedule and none for another, with the object of the map once registerSkill's
\* two are behind it, unless a skill was registered again over its own timer.
THEOREM SchedulesFollowMap == Spec => []ScheduleFollowsMap
<1>1. ASSUME IInv, NEW s \in Skills, s \notin orphaned
      PROVE  {o \in ticking : object[o].skill = s} = {handle[s]} \ {None}
  <2>1. \A o \in ticking : o # None
    BY <1>1, SkillAssumption DEF IInv, TypeOK
  <2> QED
    BY <1>1, <2>1 DEF IInv, Schedules, OneTimer, HandleStopsTimer
<1>2. IInv => ScheduleFollowsMap
  BY <1>1 DEF IInv, Schedules, HandlesScheduled, HandlesMap, ScheduleFollowsMap
<1> QED BY <1>2, Invariant, PTL

\* The Brain can answer a conflict that is alone in its group until it is
\* settled, and no entry of pendingConflicts is left behind: the timeout it holds
\* still runs and is one of its own group.
THEOREM LoneConflictsAnswerable == Spec => []LoneConflictAnswerable
BY Invariant, PTL DEF IInv, Conflicts

-----------------------------------------------------------------------------
\* What fires.

\* A candidate is the object of the map for its skill.
LEMMA CandidateIsMapped ==
  ASSUME IInv, NEW trigger, NEW o \in Candidates(trigger)
  PROVE  /\ object[o].skill \in Skills /\ skills[object[o].skill] = o /\ o # None
         /\ object[o].enabled /\ TriggerOf[object[o].skill] = trigger
<1>1. PICK s \in Skills : /\ skills[s] = o /\ skills[s] # None
                          /\ object[skills[s]].enabled /\ TriggerOf[s] = trigger
  BY DEF Candidates
<1>2. object[o].skill = s
  BY <1>1 DEF IInv, Schedules, MapOwn
<1> QED BY <1>1, <1>2

LEMMA FiredAreReady ==
  ASSUME NEW objs, FireSkills(objs), NEW s \in fired'
  PROVE  \E o \in objs : object[o].skill = s
BY DEF FireSkills, Ready

LEMMA StepFiresEnabled ==
  ASSUME IInv, Next, NEW s \in fired' \ (registered \cup orphaned)
  PROVE  \/ skills[s] # None /\ object[skills[s]].enabled
         \/ \E c \in Live : conflict'[c] = None
                           /\ s \in {object[o].skill : o \in conflict[c].objects}
<1> DEFINE Settled == \E c \in Live : conflict'[c] = None
                        /\ s \in {object[o].skill : o \in conflict[c].objects}
           Listed == skills[s] # None /\ object[skills[s]].enabled
<1>1. Listed \/ Settled
  <2>1. CASE \E event \in Events : HandleEvent(event)
    <3>1. PICK event \in Events : ExecuteSkillSet(Waiting(event))
      BY <2>1 DEF HandleEvent
    <3>2. PICK o \in Waiting(event) : object[o].skill = s
      BY <3>1, FiredAreReady DEF ExecuteSkillSet
    <3>3. o \in Candidates("event")
      BY <3>2 DEF Waiting
    <3> QED BY <3>2, <3>3, CandidateIsMapped
  <2>2. CASE SensorTick
    <3>1. PICK met \in SUBSET Candidates("sensor") : ExecuteSkillSet(met)
      BY <2>2 DEF SensorTick
    <3>2. PICK o \in met : object[o].skill = s
      BY <3>1, FiredAreReady DEF ExecuteSkillSet
    <3> QED BY <3>2, CandidateIsMapped
  <2>3. CASE \E o \in Objects : ScheduleTick(o)
    <3>1. PICK o \in ticking : object[o].enabled /\ FireSkills({o})
      BY <2>3 DEF ScheduleTick
    <3>2. object[o].skill = s
      BY <3>1, FiredAreReady
    <3>3. handle[s] = o /\ o # None /\ s \in Skills
      <4>1. o \in Objects /\ object[o] \in CoreSkill
        BY <3>1, Contents, LinksUse, SkillAssumption DEF IInv, TypeOK, UseIsReference, Fresh
      <4> QED BY <3>1, <3>2, <4>1, SkillAssumption DEF IInv, Schedules, OneTimer, CoreSkill
    <3>4. skills[s] = o
      BY <3>3 DEF IInv, Schedules, HandlesMap
    <3> QED BY <3>1, <3>3, <3>4
  <2>4. CASE \E c \in Timers : ConflictTimeout(c)
    <3>1. PICK c \in Live : /\ Settle(conflict[c].group, c)
                            /\ \E o \in conflict[c].objects : FireSkills({o})
      BY <2>4 DEF ConflictTimeout
    <3>2. conflict'[c] = None
      BY <3>1 DEF Settle, IInv, TypeOK, Live
    <3>3. \E o \in conflict[c].objects : object[o].skill = s
      BY <3>1, FiredAreReady
    <3> QED BY <3>1, <3>2, <3>3
  <2>5. CASE \/ \E t \in Skills : RegisterSkill(t) \/ UpdateSkill(t) \/ RemoveSkill(t)
             \/ \E t \in Skills, enabled \in BOOLEAN : DisableSkill(t, enabled)
             \/ \E mode \in Modes : SwitchMode(mode)
             \/ \E o \in Objects : CooldownOver(o)
             \/ \E g \in Groups, execute \in SUBSET Skills : ResolveConflict(g, execute)
             \/ Stop
    <3>1. fired' = {}
      BY <2>5 DEF RegisterSkill, UpdateSkill, RemoveSkill, DisableSkill, SwitchMode,
                  CooldownOver, ResolveConflict, Stop, Silent
    <3> QED BY <3>1
  <2> QED BY <2>1, <2>2, <2>3, <2>4, <2>5 DEF Next
<1> QED BY <1>1

\* No skill fires that is not enabled in the map, but for those with a timer of
\* their own or captured by a conflict: for any skills, triggers and groups, and
\* whatever the tools have done before.
THEOREM EnabledSkillsFire == Spec => FiresWhatIsEnabled
<1>1. IInv /\ [Next]_vars =>
        [\A s \in fired' \ (registered \cup orphaned) :
           \/ skills[s] # None /\ object[skills[s]].enabled
           \/ \E c \in Live : conflict'[c] = None
                             /\ s \in {object[o].skill : o \in conflict[c].objects}]_vars
  BY StepFiresEnabled
<1> QED BY <1>1, Invariant, PTL DEF Spec, FiresWhatIsEnabled

-----------------------------------------------------------------------------
\* Who the rivals are.

\* No step makes an object in use the object of another skill.
LEMMA HeapKeeps ==
  ASSUME IInv, NEW contents, Heap(contents), NEW o \in Referenced, o \in Referenced',
         contents[o].skill = object[o].skill
  PROVE  object'[o].skill = object[o].skill
<1>1. o \in Objects
  BY Contents, LinksUse DEF IInv, UseIsReference
<1> QED BY <1>1 DEF Heap

LEMMA FiringKeepsSkill ==
  ASSUME IInv, NEW objs, FireSkills(objs), NEW o \in Referenced, o \in Referenced'
  PROVE  object'[o].skill = object[o].skill
<1>1. PICK escalated : Heap(AfterFiring(objs, escalated))
  BY DEF FireSkills
<1> DEFINE contents == AfterFiring(objs, escalated)
<1>2. Heap(contents) /\ contents[o].skill = object[o].skill
  BY <1>1, FiringKeeps DEF IInv
<1> HIDE DEF contents
<1> QED BY <1>2, HeapKeeps

LEMMA SkillStays ==
  ASSUME IInv, Next, NEW o \in Referenced, o \in Referenced'
  PROVE  object'[o].skill = object[o].skill
<1>1. /\ o \in Objects /\ o \notin Fresh /\ object[o] \in CoreSkill
      /\ object \in [Objects -> CoreSkill \cup {None}]
  BY Contents, LinksUse DEF IInv, UseIsReference, Fresh, HeapOK
<1>2. ASSUME NEW s \in Skills, RegisterSkill(s)
      PROVE  object'[o].skill = object[o].skill
  <2>1. PICK copy, original \in Fresh :
          Heap([p \in Objects |-> IF p \in {copy, original} THEN NewSkill(s) ELSE object[p]])
    BY <1>2 DEF RegisterSkill
  <2> DEFINE contents == [p \in Objects |-> IF p \in {copy, original} THEN NewSkill(s) ELSE object[p]]
  <2>2. Heap(contents) /\ contents[o] = object[o]
    BY <1>1, <2>1
  <2> HIDE DEF contents
  <2> QED BY <2>2, HeapKeeps
<1>3. ASSUME NEW s \in Skills, UpdateSkill(s)
      PROVE  object'[o].skill = object[o].skill
  <2>1. PICK updated \in Fresh : Heap([object EXCEPT ![updated] = object[skills[s]]])
    BY <1>3 DEF UpdateSkill
  <2> DEFINE contents == [object EXCEPT ![updated] = object[skills[s]]]
  <2>2. Heap(contents) /\ contents[o] = object[o]
    BY <1>1, <2>1
  <2> HIDE DEF contents
  <2> QED BY <2>2, HeapKeeps
<1>4. CASE \/ \E s \in Skills : RemoveSkill(s)
           \/ \E g \in Groups, execute \in SUBSET Skills : ResolveConflict(g, execute)
           \/ Stop
  <2>1. Heap(object)
    BY <1>4 DEF RemoveSkill, ResolveConflict, Stop
  <2> QED BY <2>1, HeapKeeps
<1>5. CASE \E s \in Skills, enabled \in BOOLEAN : DisableSkill(s, enabled)
  BY <1>1, <1>5 DEF DisableSkill, CoreSkill
<1>6. CASE \E mode \in Modes : SwitchMode(mode)
  BY <1>6 DEF SwitchMode
<1>7. CASE \E p \in Objects : CooldownOver(p)
  BY <1>1, <1>7 DEF CooldownOver, CoreSkill
<1>8. CASE \/ \E event \in Events : HandleEvent(event)
           \/ SensorTick
           \/ \E p \in Objects : ScheduleTick(p)
           \/ \E c \in Timers : ConflictTimeout(c)
  <2>1. \E objs : FireSkills(objs)
    BY <1>8 DEF HandleEvent, SensorTick, ScheduleTick, ConflictTimeout, ExecuteSkillSet
  <2> QED BY <2>1, FiringKeepsSkill
<1> QED BY <1>2, <1>3, <1>4, <1>5, <1>6, <1>7, <1>8 DEF Next

\* The timeouts after executeSkillSet are those before it, and new ones of some
\* of the skills it was given.
LEMMA RaisedAreGiven ==
  ASSUME NEW objs, ExecuteSkillSet(objs), NEW c \in Live'
  PROVE  (c \in Live /\ conflict'[c] = conflict[c]) \/ conflict'[c].objects \subseteq objs
<1>1. PICK timerOf : RaiseConflicts(objs, timerOf)
  BY DEF ExecuteSkillSet
<1> DEFINE contested == Contested(objs)
           new == {timerOf[g] : g \in contested}
           groupOf(d) == CHOOSE h \in contested : timerOf[h] = d
<1>2. conflict' = [d \in Timers |->
         IF d \in new THEN [group |-> groupOf(d), objects |-> Rivals(objs, groupOf(d))]
         ELSE conflict[d]]
  BY <1>1 DEF RaiseConflicts
<1> HIDE DEF new, groupOf
<1>3. c \in Timers /\ conflict'[c] # None
  BY DEF Live
<1> QED BY <1>2, <1>3 DEF Live, Rivals

\* The skills of a new conflict are of the map, and one event or tick woke them.
WokenTogether(objs) ==
  \E trigger \in {"event", "sensor"}, event \in Events \cup {None} :
    /\ objs \subseteq Candidates(trigger)
    /\ \A o \in objs : EventOf[object[o].skill] = event

LEMMA ConflictIsOldOrWoken ==
  ASSUME IInv, Next, NEW c \in Live'
  PROVE  (c \in Live /\ conflict'[c] = conflict[c]) \/ WokenTogether(conflict'[c].objects)
<1> DEFINE old == c \in Live /\ conflict'[c] = conflict[c]
<1>1. CASE \E event \in Events : HandleEvent(event)
  <2>1. PICK event \in Events : ExecuteSkillSet(Waiting(event))
    BY <1>1 DEF HandleEvent
  <2>2. old \/ conflict'[c].objects \subseteq Waiting(event)
    BY <2>1, RaisedAreGiven
  <2> QED BY <2>2 DEF Waiting, WokenTogether
<1>2. CASE SensorTick
  <2>1. PICK met \in SUBSET Candidates("sensor") : ExecuteSkillSet(met)
    BY <1>2 DEF SensorTick
  <2>2. old \/ conflict'[c].objects \subseteq Candidates("sensor")
    BY <2>1, RaisedAreGiven
  <2>3. \A o \in Candidates("sensor") : EventOf[object[o].skill] = None
    BY CandidateIsMapped, SkillAssumption
  <2> QED BY <2>2, <2>3 DEF WokenTogether
<1>3. CASE \/ \E c1 \in Timers : ConflictTimeout(c1)
           \/ \E g \in Groups, execute \in SUBSET Skills : ResolveConflict(g, execute)
  <2>1. PICK g, d : Settle(g, d)
    BY <1>3 DEF ConflictTimeout, ResolveConflict
  <2> QED BY <2>1 DEF Settle, Live, IInv, TypeOK
<1>4. CASE UNCHANGED conflict
  BY <1>4 DEF Live
<1>5. CASE \/ \E t \in Skills : RegisterSkill(t) \/ UpdateSkill(t) \/ RemoveSkill(t)
           \/ \E t \in Skills, enabled \in BOOLEAN : DisableSkill(t, enabled)
           \/ \E mode \in Modes : SwitchMode(mode)
           \/ \E o \in Objects : ScheduleTick(o) \/ CooldownOver(o)
           \/ Stop
  BY <1>4, <1>5 DEF RegisterSkill, UpdateSkill, RemoveSkill, DisableSkill, SwitchMode,
                    CooldownOver, ScheduleTick, Stop, noConflict
<1> QED BY <1>1, <1>2, <1>3, <1>5 DEF Next

\* Two skills of one conflict are different skills that wait for the same, and
\* nothing the tools do while the Brain decides changes that.
THEOREM RivalsWokenTogether == Spec => []RivalsOfOneEvent
<1>1. Init => RivalsOfOneEvent
  BY DEF Init, Live, RivalsOfOneEvent
<1>2. ASSUME IInv, IInv', RivalsOfOneEvent, Next
      PROVE  RivalsOfOneEvent'
  <2> SUFFICES ASSUME NEW c \in Live', NEW o \in conflict'[c].objects,
                      NEW p \in conflict'[c].objects, o # p
               PROVE  LET s == object'[o].skill
                          t == object'[p].skill
                      IN  s # t /\ TriggerOf[s] = TriggerOf[t] /\ EventOf[s] = EventOf[t]
    BY DEF RivalsOfOneEvent
  <2> DEFINE alike(s, t) == s # t /\ TriggerOf[s] = TriggerOf[t] /\ EventOf[s] = EventOf[t]
  <2>1. o \in Referenced' /\ p \in Referenced'
    BY DEF Referenced
  <2>2. CASE c \in Live /\ conflict'[c] = conflict[c]
    <3>1. o \in Referenced /\ p \in Referenced
      BY <2>2 DEF Referenced
    <3>2. alike(object[o].skill, object[p].skill)
      BY <1>2, <2>2 DEF RivalsOfOneEvent
    <3> QED BY <1>2, <2>1, <3>1, <3>2, SkillStays
  <2>3. CASE WokenTogether(conflict'[c].objects)
    <3>1. PICK trigger \in {"event", "sensor"} :
            /\ o \in Candidates(trigger) /\ p \in Candidates(trigger)
            /\ EventOf[object[o].skill] = EventOf[object[p].skill]
      BY <2>3 DEF WokenTogether
    <3>2. o \in Referenced /\ p \in Referenced
      BY <1>2, <3>1, CandidatesReferenced
    <3>3. alike(object[o].skill, object[p].skill)
      BY <1>2, <3>1, CandidateIsMapped
    <3> QED BY <1>2, <2>1, <3>2, <3>3, SkillStays
  <2> QED BY <1>2, <2>2, <2>3, ConflictIsOldOrWoken
<1>3. RivalsOfOneEvent /\ UNCHANGED vars => RivalsOfOneEvent'
  BY DEF RivalsOfOneEvent, Live, vars
<1>4. IInv /\ IInv' /\ RivalsOfOneEvent /\ [Next]_vars => RivalsOfOneEvent'
  BY <1>2, <1>3
<1> QED BY <1>1, <1>4, Invariant, PTL DEF Spec
=============================================================================
