---------------------------- MODULE SpacesProofs ----------------------------
(***************************************************************************)
(* Proofs about SpaceManager and the skill log, for any spaces, skills,    *)
(* modes and any capacity of the log: the spaces and the executors agree,  *)
(* what is stopped only finishes, and the log has the last firings.        *)
(***************************************************************************)
EXTENDS Spaces, SequenceTheorems, FiniteSetTheorems, TLAPS

\* With the types, each of the two invariants of the run is inductive.
IInv == TypeOK /\ SpacesRun /\ LogIsRecent

-----------------------------------------------------------------------------
\* The log.

LEMMA Joined ==
  ASSUME NEW q \in Seq(Entry), NEW r \in Seq(Entry)
  PROVE  /\ q \o r \in Seq(Entry) /\ Len(q \o r) = Len(q) + Len(r)
         /\ Len(q) \in Nat /\ Len(r) \in Nat
         /\ \A i \in 1..Len(q) : (q \o r)[i] = q[i]
         /\ \A i \in 1..Len(r) : (q \o r)[Len(q) + i] = r[i]
BY ConcatProperties, LenProperties

LEMMA Suffix ==
  ASSUME NEW q \in Seq(Entry), NEW first \in 1..(Len(q) + 1)
  PROVE  /\ SubSeq(q, first, Len(q)) \in Seq(Entry)
         /\ Len(SubSeq(q, first, Len(q))) = Len(q) - first + 1
         /\ \A i \in 1..(Len(q) - first + 1) : /\ first + i - 1 \in 1..Len(q)
                                               /\ SubSeq(q, first, Len(q))[i] = q[first + i - 1]
<1>1. Len(q) \in Nat /\ \A i \in first..Len(q) : q[i] \in Entry
  BY LenProperties, ElementOfSeq
<1> QED BY <1>1, SubSeqProperties

LEMMA LengthOfRing ==
  ASSUME NEW l \in Nat, NEW k \in Nat, NEW n \in Nat, NEW c \in Nat,
         l = IF n < c THEN n ELSE c
  PROVE  (IF l + k > c THEN c ELSE l + k) = (IF n + k < c THEN n + k ELSE c)
<1>1. CASE n < c
  BY <1>1
<1>2. CASE ~(n < c)
  BY <1>2
<1> QED BY <1>1, <1>2

\* The entries of a log have the numbers of the last of n firings.
Recent(entries, n) ==
  /\ Len(entries) = IF n < Capacity THEN n ELSE Capacity
  /\ \A i \in 1..Len(entries) : entries[i].number = n - Len(entries) + i

\* New ones have those that follow.
Following(new, n) == \A i \in 1..Len(new) : new[i].number = n + i

LEMMA AppendRecent ==
  ASSUME NEW entries \in Seq(Entry), NEW new \in Seq(Entry), NEW n \in Nat, NEW m \in Nat,
         m = n + Len(new), Recent(entries, n), Following(new, n)
  PROVE  LogAppend(entries, new) \in Seq(Entry) /\ Recent(LogAppend(entries, new), m)
<1> DEFINE all == entries \o new
           first == IF Len(all) > Capacity THEN Len(all) - Capacity + 1 ELSE 1
           later == SubSeq(all, first, Len(all))
<1>1. Capacity \in Nat /\ Capacity >= 1
  BY SpacesAssumption
<1>2. /\ all \in Seq(Entry) /\ Len(all) = Len(entries) + Len(new)
      /\ Len(entries) \in Nat /\ Len(new) \in Nat
      /\ \A i \in 1..Len(entries) : all[i] = entries[i]
      /\ \A i \in 1..Len(new) : all[Len(entries) + i] = new[i]
  BY Joined
<1>3. LogAppend(entries, new) = later
  BY DEF LogAppend
<1> HIDE DEF all
<1>4. first \in 1..(Len(all) + 1)
  BY <1>1, <1>2
<1> HIDE DEF first
<1>5. /\ later \in Seq(Entry) /\ Len(later) = Len(all) - first + 1
      /\ \A i \in 1..Len(later) : /\ first + i - 1 \in 1..Len(all)
                                  /\ later[i] = all[first + i - 1]
  BY <1>2, <1>4, Suffix
<1> HIDE DEF later
<1>6. ASSUME NEW i \in 1..Len(all)
      PROVE  all[i].number = n - Len(entries) + i
  <2>1. CASE i <= Len(entries)
    <3>1. i \in 1..Len(entries) /\ all[i] = entries[i]
      BY <1>2, <2>1
    <3> QED BY <3>1 DEF Recent
  <2>2. CASE ~(i <= Len(entries))
    <3>1. i - Len(entries) \in 1..Len(new) /\ Len(entries) + (i - Len(entries)) = i
      BY <1>2, <2>2
    <3>2. all[i] = new[i - Len(entries)]
      BY <1>2, <3>1
    <3>3. all[i].number = n + (i - Len(entries))
      BY <3>1, <3>2 DEF Following
    <3> QED BY <1>2, <3>3
  <2> QED BY <2>1, <2>2
<1>7. Len(later) = IF m < Capacity THEN m ELSE Capacity
  <2>1. Len(entries) = IF n < Capacity THEN n ELSE Capacity
    BY DEF Recent
  <2>2. Len(later) = IF Len(all) > Capacity THEN Capacity ELSE Len(all)
    BY <1>1, <1>2, <1>5 DEF first
  <2>3. Len(all) = Len(entries) + Len(new) /\ Len(entries) \in Nat /\ Len(new) \in Nat
    BY <1>2
  <2>4. (IF Len(entries) + Len(new) > Capacity THEN Capacity ELSE Len(entries) + Len(new))
          = (IF m < Capacity THEN m ELSE Capacity)
    BY <1>1, <2>1, <2>3, LengthOfRing
  <2> QED BY ONLY <2>2, <2>3, <2>4
<1>8. ASSUME NEW i \in 1..Len(later)
      PROVE  later[i].number = m - Len(later) + i
  <2>1. later[i].number = n - Len(entries) + (first + i - 1)
    BY <1>5, <1>6
  <2>2. n - Len(entries) + (first + i - 1) = m - Len(later) + i
    BY ONLY <1>2, <1>4, <1>5, m = n + Len(new), n \in Nat
  <2> QED BY <2>1, <2>2
<1> QED BY <1>3, <1>5, <1>7, <1>8 DEF Recent

LEMMA Orders ==
  ASSUME NEW firing \in SUBSET Executors, NEW order \in SetToSeqs(firing)
  PROVE  /\ Len(order) = Cardinality(firing) /\ Len(order) \in Nat
         /\ \A i \in 1..Len(order) : order[i] \in firing
<1>1. Cardinality(firing) \in Nat
  BY SpacesAssumption, FS_Subset, FS_CardinalityType
<1>2. order \in [1..Cardinality(firing) -> firing]
  BY DEF SetToSeqs
<1> QED BY <1>1, <1>2

LEMMA FireStep ==
  ASSUME TypeOK, LogIsRecent, NEW firing \in SUBSET Alive, Fire(firing)
  PROVE  /\ log' \in Seq(Entry) /\ total' \in 0..MaxFirings
         /\ LogIsRecent'
         /\ total' = total + Cardinality(firing)
<1>1. PICK order \in SetToSeqs(firing) :
        /\ total' = total + Len(order) /\ total' <= MaxFirings
        /\ log' = LogAppend(log, [i \in 1..Len(order) |->
                                    [space |-> executor[order[i]].space, number |-> total + i]])
  BY DEF Fire
<1> DEFINE new == [i \in 1..Len(order) |->
                     [space |-> executor[order[i]].space, number |-> total + i]]
<1>2. /\ Len(order) = Cardinality(firing) /\ Len(order) \in Nat
      /\ \A i \in 1..Len(order) : order[i] \in firing
  BY Orders DEF Alive
<1>3. total \in Nat /\ MaxFirings \in Nat /\ total' \in 0..MaxFirings
  BY <1>1, <1>2, SpacesAssumption DEF TypeOK
<1>4. \A e \in firing : executor[e].space \in SpaceIds
  BY DEF Alive, TypeOK, SkillExecutor
<1>5. ASSUME NEW i \in 1..Len(order)
      PROVE  [space |-> executor[order[i]].space, number |-> total + i] \in Entry
  <2>1. total + i \in 1..MaxFirings
    BY <1>1, <1>2, <1>3
  <2> QED BY <1>2, <1>4, <2>1 DEF Entry
<1>6. new \in Seq(Entry) /\ Len(new) = Len(order)
  BY <1>2, <1>5
<1>7. Following(new, total)
  BY <1>6 DEF Following
<1>8. log' = LogAppend(log, new)
  BY <1>1
<1> HIDE DEF new
<1>9. log \in Seq(Entry) /\ Recent(log, total)
  BY DEF TypeOK, LogIsRecent, Recent
<1>10. total' \in Nat /\ total \in Nat /\ total' = total + Len(new)
  BY <1>1, <1>3, <1>6
<1>11. LogAppend(log, new) \in Seq(Entry) /\ Recent(LogAppend(log, new), total')
  BY <1>6, <1>7, <1>9, <1>10, AppendRecent
<1> QED BY <1>1, <1>2, <1>3, <1>8, <1>11 DEF LogIsRecent, Recent

-----------------------------------------------------------------------------
\* The executors.

\* TypeOK without the log.
Types ==
  /\ spaces \in [SpaceIds -> Modes \cup {None}]
  /\ executors \in [SpaceIds -> Executors \cup {None}]
  /\ executor \in [Executors -> SkillExecutor \cup {None}]
  /\ foreign \subseteq SpaceIds

LEMMA Fields ==
  ASSUME NEW r \in SkillExecutor
  PROVE  /\ r # None
         /\ r.space \in SpaceIds /\ r.running \in BOOLEAN /\ r.mode \in Modes
         /\ r.enabled \in SUBSET Skills /\ r.disabled \in SUBSET Skills
         /\ r.conflicts \in Nat /\ r.answerable \in BOOLEAN
BY SpacesAssumption DEF SkillExecutor

LEMMA AliveType ==
  ASSUME Types, NEW e \in Alive
  PROVE  e \in Executors /\ executor[e] \in SkillExecutor /\ e # None
BY SpacesAssumption DEF Alive, Types

LEMMA Flags ==
  ASSUME SpacesRun, NEW e \in Alive
  PROVE  /\ executor[e].running <=> e \in Mapped
         /\ executor[e].answerable => executor[e].conflicts # 0
BY Zenon DEF SpacesRun

\* The executor of a space belongs to no other.
LEMMA OneSpaceEach ==
  ASSUME Types, SpacesRun, NEW a \in SpaceIds, executors[a] # None
  PROVE  /\ executors[a] \in Mapped /\ executors[a] \in Alive /\ spaces[a] # None
         /\ executor[executors[a]].running
         /\ \A b \in SpaceIds \ {a} : executors[b] # executors[a]
<1>1. executors[a] \in Mapped
  BY DEF Mapped
<1>2. spaces[a] # None /\ executors[a] \in Alive /\ executor[executors[a]].space = a
  BY DEF SpacesRun
<1>3. executor[executors[a]].running
  BY <1>1, <1>2, Flags, Zenon
<1>4. ASSUME NEW b \in SpaceIds \ {a}, executors[b] = executors[a] PROVE FALSE
  <2>1. executor[executors[b]].space = b
    BY <1>4 DEF SpacesRun
  <2> QED BY <1>2, <1>4, <2>1
<1> QED BY <1>1, <1>2, <1>3, <1>4

LEMMA MappedIsAlive ==
  ASSUME Types, SpacesRun
  PROVE  Mapped \subseteq Alive
BY OneSpaceEach DEF Mapped

\* What stop() leaves: nothing, or what neither runs nor loses an answer's timeout.
StoppedKeeps(e) ==
  /\ Stopped(e) \in SkillExecutor \cup {None}
  /\ Stopped(e) # None => /\ Stopped(e).running = FALSE
                          /\ Stopped(e).answerable => Stopped(e).conflicts # 0

LEMMA StoppedType ==
  ASSUME Types, SpacesRun, NEW e \in Alive
  PROVE  StoppedKeeps(e)
<1>1. executor[e] \in SkillExecutor
  BY AliveType
<1>2. CASE executor[e].conflicts = 0
  BY <1>2 DEF Stopped, StoppedKeeps
<1>3. CASE executor[e].conflicts # 0
  <2>1. Stopped(e) = [executor[e] EXCEPT !.running = FALSE, !.enabled = {}, !.disabled = {}]
    BY <1>3 DEF Stopped
  <2>2. Stopped(e) \in SkillExecutor /\ Stopped(e).running = FALSE
    BY <1>1, <2>1 DEF SkillExecutor
  <2>3. Stopped(e).conflicts # 0
    BY <1>1, <1>3, <2>1 DEF SkillExecutor
  <2> QED BY <2>2, <2>3 DEF StoppedKeeps
<1> QED BY <1>2, <1>3

\* A step that changes neither the maps nor whose an executor is.
Kept(e) ==
  \/ executor'[e] = executor[e]
  \/ /\ e \in Alive /\ executor'[e] \in SkillExecutor
     /\ executor'[e].space = executor[e].space
     /\ executor'[e].running = executor[e].running
     /\ executor'[e].mode = executor[e].mode
     /\ executor'[e].answerable => executor'[e].conflicts # 0

LEMMA KeptStep ==
  ASSUME Types, SpacesRun, UNCHANGED <<spaces, executors, foreign>>,
         executor' = [e \in Executors |-> executor'[e]],
         \A e \in Executors : Kept(e)
  PROVE  Types' /\ SpacesRun'
<1>1. \A e \in Executors : executor'[e] \in SkillExecutor \cup {None}
  BY DEF Kept, Types
<1>2. Types'
  BY <1>1 DEF Types
<1>3. \A e \in Executors : executor'[e] # None <=> executor[e] # None
  BY Fields DEF Kept, Alive
<1>4. Alive' = Alive /\ Mapped' = Mapped
  BY <1>3 DEF Alive, Mapped
<1>5. ASSUME NEW id \in SpaceIds
      PROVE  IF spaces'[id] = None THEN executors'[id] = None
             ELSE /\ executors'[id] \in Alive'
                  /\ executor'[executors'[id]].space = id
                  /\ executor'[executors'[id]].mode = ModeOf(id)'
  <2>1. CASE spaces[id] = None
    BY <2>1 DEF SpacesRun
  <2>2. CASE spaces[id] # None
    <3>1. /\ executors[id] \in Alive /\ executor[executors[id]].space = id
          /\ executor[executors[id]].mode = ModeOf(id)
      BY <2>2 DEF SpacesRun
    <3>2. Kept(executors[id])
      BY <3>1 DEF Alive
    <3>3. ModeOf(id)' = ModeOf(id)
      BY DEF ModeOf
    <3> QED BY <1>4, <2>2, <3>1, <3>2, <3>3 DEF Kept
  <2> QED BY <2>1, <2>2
<1>6. ASSUME NEW e \in Alive'
      PROVE  /\ executor'[e].running <=> e \in Mapped'
             /\ executor'[e].answerable => executor'[e].conflicts # 0
  <2>1. Kept(e) /\ e \in Alive
    BY <1>4 DEF Alive
  <2>2. /\ executor[e].running <=> e \in Mapped
        /\ executor[e].answerable => executor[e].conflicts # 0
    BY <2>1, Flags, Zenon
  <2>3. CASE executor'[e] = executor[e]
    BY ONLY <1>4, <2>2, <2>3, Zenon
  <2>4. CASE executor'[e] # executor[e]
    BY ONLY <1>4, <2>1, <2>2, <2>4, Zenon DEF Kept
  <2> QED BY ONLY <2>3, <2>4
<1> QED BY ONLY <1>2, <1>5, <1>6, Zenon DEF SpacesRun

LEMMA TargetsAreMapped ==
  ASSUME Types, SpacesRun, NEW id \in SpaceIds \cup {None}
  PROVE  Targets(id) \subseteq Mapped /\ Targets(id) \subseteq Alive
<1>1. Targets(id) \subseteq Mapped
  BY DEF Targets, Mapped
<1> QED BY <1>1, MappedIsAlive

LEMMA ToolStep ==
  ASSUME Types, SpacesRun, NEW id \in SpaceIds \cup {None}, NEW s \in Skills, NEW on \in BOOLEAN,
         RegisterSkill(id, s) \/ RemoveSkill(id, s) \/ DisableSkill(id, s, on)
  PROVE  Types' /\ SpacesRun'
<1>1. ASSUME NEW e \in Executors PROVE Kept(e)
  <2>1. CASE e \in Targets(id)
    <3>1. e \in Alive /\ executor[e] \in SkillExecutor
      BY <2>1, TargetsAreMapped, AliveType
    <3>2. executor[e].answerable => executor[e].conflicts # 0
      BY <3>1, Flags, Zenon
    <3>3. CASE RegisterSkill(id, s)
      BY <2>1, <3>1, <3>2, <3>3 DEF RegisterSkill, Kept, SkillExecutor
    <3>4. CASE RemoveSkill(id, s)
      BY <2>1, <3>1, <3>2, <3>4 DEF RemoveSkill, Kept, SkillExecutor
    <3>5. CASE DisableSkill(id, s, on)
      BY <2>1, <3>1, <3>2, <3>5 DEF DisableSkill, Kept, SkillExecutor
    <3> QED BY <3>3, <3>4, <3>5
  <2>2. CASE e \notin Targets(id)
    BY <2>2 DEF RegisterSkill, RemoveSkill, DisableSkill, Kept
  <2> QED BY <2>1, <2>2
<1>2. UNCHANGED <<spaces, executors, foreign>> /\ executor' = [e \in Executors |-> executor'[e]]
  BY DEF RegisterSkill, RemoveSkill, DisableSkill
<1> QED BY <1>1, <1>2, KeptStep

LEMMA ResolveStep ==
  ASSUME Types, SpacesRun, ResolveConflict
  PROVE  Types' /\ SpacesRun'
<1>1. ASSUME NEW e \in Executors PROVE Kept(e)
  <2>1. CASE e \in Mapped /\ executor[e].answerable
    <3>1. e \in Alive /\ executor[e] \in SkillExecutor
      BY <2>1, MappedIsAlive, AliveType
    <3>2. executor[e].conflicts # 0
      BY <2>1, <3>1, Flags, Zenon
    <3>3. executor[e].conflicts - 1 \in Nat
      BY <3>1, <3>2, Fields
    <3>4. executor'[e] = [executor[e] EXCEPT !.answerable = FALSE, !.conflicts = @ - 1]
      BY <2>1 DEF ResolveConflict
    <3> QED BY <3>1, <3>3, <3>4 DEF Kept, SkillExecutor
  <2>2. CASE ~(e \in Mapped /\ executor[e].answerable)
    BY <2>2 DEF ResolveConflict, Kept
  <2> QED BY <2>1, <2>2
<1>2. UNCHANGED <<spaces, executors, foreign>> /\ executor' = [e \in Executors |-> executor'[e]]
  BY DEF ResolveConflict
<1> QED BY <1>1, <1>2, KeptStep

LEMMA EventStep ==
  ASSUME Types, SpacesRun, NEW id \in SpaceIds \cup {None}, HandleEvent(id)
  PROVE  /\ Types' /\ SpacesRun'
         /\ \E firing \in SUBSET Alive : Fire(firing)
         /\ \A e \in Alive \ Mapped : executor'[e] = executor[e]
<1> DEFINE alone == {e \in Targets(id) : \E s \in Skills : executor[e].enabled = {s}}
           rivals == {e \in Targets(id) : executor[e].enabled # {}} \ alone
<1>1. rivals \subseteq Targets(id) /\ alone \in SUBSET Alive
  BY TargetsAreMapped
<1>2. /\ executor' = [e \in Executors |->
           IF e \in rivals
           THEN [executor[e] EXCEPT !.conflicts = @ + 1, !.answerable = TRUE]
           ELSE executor[e]]
      /\ UNCHANGED <<spaces, executors, foreign>> /\ Fire(alone)
  BY DEF HandleEvent
<1> HIDE DEF rivals, alone
<1>3. ASSUME NEW e \in Executors PROVE Kept(e)
  <2>1. CASE e \in rivals
    <3>1. e \in Alive /\ executor[e] \in SkillExecutor
      BY <1>1, <2>1, TargetsAreMapped, AliveType
    <3>2. executor[e].conflicts + 1 \in Nat /\ executor[e].conflicts + 1 # 0
      BY <3>1, Fields
    <3>3. executor'[e] = [executor[e] EXCEPT !.conflicts = @ + 1, !.answerable = TRUE]
      BY <1>2, <2>1
    <3> QED BY <3>1, <3>2, <3>3 DEF Kept, SkillExecutor
  <2>2. CASE e \notin rivals
    BY <1>2, <2>2 DEF Kept
  <2> QED BY <2>1, <2>2
<1>4. executor' = [e \in Executors |-> executor'[e]]
  BY <1>2
<1>5. \A e \in Alive \ Mapped : executor'[e] = executor[e]
  BY <1>1, <1>2, TargetsAreMapped DEF Alive
<1> QED BY <1>1, <1>2, <1>3, <1>4, <1>5, KeptStep

\* The mode due to a space changes with the space and with nothing else.
LEMMA OthersModes ==
  ASSUME Types, NEW id \in SpaceIds, NEW b \in SpaceIds \ {id}, NEW to,
         spaces' = [spaces EXCEPT ![id] = to],
         foreign' = foreign \ {id} \/ foreign' = foreign \cup {id}
  PROVE  spaces'[b] = spaces[b] /\ ModeOf(b)' = ModeOf(b)
<1>1. spaces'[b] = spaces[b]
  BY DEF Types
<1>2. b \in foreign' <=> b \in foreign
  OBVIOUS
<1> QED BY <1>1, <1>2 DEF ModeOf

\* A step of a space: another executor, or none, takes the place of its own.
LEMMA AddStep ==
  ASSUME Types, SpacesRun, NEW id \in SpaceIds, NEW mode \in Modes, AddSpace(id, mode)
  PROVE  /\ Types' /\ SpacesRun'
         /\ \A f \in Alive \ Mapped : executor'[f] = executor[f]
<1>1. PICK e \in Executors \ Alive :
        /\ Added(id, mode)
        /\ executors' = [executors EXCEPT ![id] = e]
        /\ executor' = [f \in Executors |-> IF f = e THEN NewExecutor(id)
                                            ELSE IF f = executors[id] THEN Stopped(f)
                                            ELSE executor[f]]
  BY DEF AddSpace
<1>2. NewExecutor(id) \in SkillExecutor /\ DefaultMode \in Modes /\ mode # None /\ e # None
  BY SpacesAssumption DEF NewExecutor, SkillExecutor
<1>a. /\ spaces' = [spaces EXCEPT ![id] = mode]
      /\ foreign' = IF mode = DefaultMode THEN foreign \ {id} ELSE foreign \cup {id}
  BY <1>1 DEF Added
<1>m. spaces'[id] = mode /\ ModeOf(id)' = DefaultMode
  BY <1>a DEF ModeOf, Types
<1>3. ASSUME NEW f \in Alive, f = executors[id]
      PROVE  StoppedKeeps(f)
  BY <1>3, StoppedType
<1>4. Types'
  <2>1. ASSUME NEW f \in Executors PROVE executor'[f] \in SkillExecutor \cup {None}
    <3>1. CASE f = e
      BY <1>1, <1>2, <3>1
    <3>2. CASE f # e /\ f = executors[id]
      <4>1. f \in Alive
        BY <3>2, OneSpaceEach, SpacesAssumption
      <4> QED BY <1>1, <1>3, <3>2, <4>1 DEF StoppedKeeps
    <3>3. CASE f # e /\ f # executors[id]
      BY <1>1, <3>3 DEF Types
    <3> QED BY <3>1, <3>2, <3>3
  <2> QED BY <1>1, <1>2, <1>a, <2>1 DEF Types
<1>5. ASSUME NEW b \in SpaceIds \ {id}, spaces[b] # None
      PROVE  /\ executors'[b] = executors[b] /\ spaces'[b] = spaces[b]
             /\ ModeOf(b)' = ModeOf(b)
             /\ executors[b] \in Alive /\ executors[b] # e /\ executors[b] # executors[id]
             /\ executor'[executors[b]] = executor[executors[b]]
             /\ executor[executors[b]].space = b /\ executor[executors[b]].mode = ModeOf(b)
  <2>1. /\ executors[b] \in Alive /\ executor[executors[b]].space = b
        /\ executor[executors[b]].mode = ModeOf(b)
    BY <1>5 DEF SpacesRun
  <2>2. executors[b] # e /\ executors[b] # None
    BY <1>1, <2>1, AliveType
  <2>3. executors[b] # executors[id]
    BY <2>2, OneSpaceEach
  <2>4. executors'[b] = executors[b] /\ spaces'[b] = spaces[b] /\ ModeOf(b)' = ModeOf(b)
    <3>1. executors'[b] = executors[b]
      BY <1>1 DEF Types
    <3>2. foreign' = foreign \ {id} \/ foreign' = foreign \cup {id}
      BY <1>a
    <3> QED BY <1>a, <3>1, <3>2, OthersModes
  <2>5. executor'[executors[b]] = executor[executors[b]]
    BY <1>1, <2>1, <2>2, <2>3 DEF Alive
  <2> QED BY <2>1, <2>2, <2>3, <2>4, <2>5
<1>6. ASSUME NEW b \in SpaceIds
      PROVE  IF spaces'[b] = None THEN executors'[b] = None
             ELSE /\ executors'[b] \in Alive'
                  /\ executor'[executors'[b]].space = b
                  /\ executor'[executors'[b]].mode = ModeOf(b)'
  <2>1. CASE b = id
    <3>1. executors'[b] = e /\ executor'[e] = NewExecutor(id)
      BY <1>1, <2>1 DEF Types
    <3>2. e \in Alive'
      BY <1>2, <3>1, Fields DEF Alive
    <3>3. executor'[e].space = id /\ executor'[e].mode = DefaultMode
      BY <3>1 DEF NewExecutor
    <3> QED BY ONLY <1>2, <1>m, <2>1, <3>1, <3>2, <3>3
  <2>2. CASE b # id /\ spaces[b] = None
    BY <1>1, <1>a, <2>2 DEF Types, SpacesRun
  <2>3. CASE b # id /\ spaces[b] # None
    <3>1. executors[b] \in Alive'
      BY <1>5, <2>3 DEF Alive
    <3> QED BY <1>5, <2>3, <3>1
  <2> QED BY <2>1, <2>2, <2>3
<1>7. ASSUME NEW f \in Alive'
      PROVE  /\ executor'[f].running <=> f \in Mapped'
             /\ executor'[f].answerable => executor'[f].conflicts # 0
  <2>0. f \in Executors /\ executor'[f] # None
    BY DEF Alive
  <2>1. CASE f = e
    <3>1. executor'[f] = NewExecutor(id) /\ executors'[id] = f
      BY <1>1, <2>1 DEF Types
    <3>2. f \in Mapped'
      BY <1>2, <2>1, <3>1 DEF Mapped
    <3> QED BY <3>1, <3>2 DEF NewExecutor
  <2>2. CASE f # e /\ f = executors[id]
    <3>1. f \in Alive /\ f # None
      BY <2>2, <2>0, OneSpaceEach, SpacesAssumption
    <3>2. executor'[f] = Stopped(f)
      BY <1>1, <2>0, <2>2
    <3>3. executor'[f].running = FALSE /\ (executor'[f].answerable => executor'[f].conflicts # 0)
      BY <1>3, <2>0, <2>2, <3>1, <3>2, Zenon DEF StoppedKeeps
    <3>4. f \notin Mapped'
      <4>1. \A b \in SpaceIds \ {id} : executors[b] # f
        BY <2>2, <3>1, OneSpaceEach
      <4> QED BY <1>1, <2>2, <4>1 DEF Mapped, Types
    <3> QED BY <3>3, <3>4
  <2>3. CASE f # e /\ f # executors[id]
    <3>1. executor'[f] = executor[f] /\ f \in Alive
      BY <1>1, <2>0, <2>3 DEF Alive
    <3>2. f \in Mapped' <=> f \in Mapped
      BY <1>1, <2>3 DEF Mapped, Types
    <3>3. /\ executor[f].running <=> f \in Mapped
          /\ executor[f].answerable => executor[f].conflicts # 0
      BY <3>1, Flags, Zenon
    <3> QED BY ONLY <3>1, <3>2, <3>3, Zenon
  <2> QED BY <2>1, <2>2, <2>3
<1>8. SpacesRun'
  BY ONLY <1>6, <1>7, Zenon DEF SpacesRun
<1>9. \A f \in Alive \ Mapped : executor'[f] = executor[f]
  BY <1>1, AliveType DEF Mapped
<1> QED BY <1>4, <1>8, <1>9

LEMMA RemoveStep ==
  ASSUME Types, SpacesRun, NEW id \in SpaceIds, RemoveSpace(id)
  PROVE  /\ Types' /\ SpacesRun'
         /\ \A f \in Alive \ Mapped : executor'[f] = executor[f]
<1>1. /\ spaces' = [spaces EXCEPT ![id] = None] /\ foreign' = foreign \ {id}
      /\ executors' = [executors EXCEPT ![id] = None]
      /\ executor' = [e \in Executors |-> IF e = executors[id] THEN Stopped(e) ELSE executor[e]]
  BY DEF RemoveSpace
<1>2. ASSUME NEW f \in Executors, f = executors[id]
      PROVE  f \in Alive /\ f # None /\ StoppedKeeps(f)
  BY <1>2, OneSpaceEach, StoppedType, SpacesAssumption
<1>3. Types'
  <2>1. ASSUME NEW f \in Executors PROVE executor'[f] \in SkillExecutor \cup {None}
    <3>1. CASE f = executors[id]
      BY <1>1, <1>2, <3>1 DEF StoppedKeeps
    <3>2. CASE f # executors[id]
      BY <1>1, <3>2 DEF Types
    <3> QED BY <3>1, <3>2
  <2> QED BY <1>1, <2>1 DEF Types
<1>4. ASSUME NEW b \in SpaceIds
      PROVE  IF spaces'[b] = None THEN executors'[b] = None
             ELSE /\ executors'[b] \in Alive'
                  /\ executor'[executors'[b]].space = b
                  /\ executor'[executors'[b]].mode = ModeOf(b)'
  <2>1. CASE b = id
    BY <1>1, <2>1 DEF Types
  <2>2. CASE b # id /\ spaces[b] = None
    BY <1>1, <2>2 DEF Types, SpacesRun
  <2>3. CASE b # id /\ spaces[b] # None
    <3>1. /\ executors[b] \in Alive /\ executor[executors[b]].space = b
          /\ executor[executors[b]].mode = ModeOf(b)
      BY <2>3 DEF SpacesRun
    <3>2. executors[b] # executors[id]
      BY <2>3, <3>1, AliveType, OneSpaceEach
    <3>3. executors'[b] = executors[b] /\ spaces'[b] = spaces[b] /\ ModeOf(b)' = ModeOf(b)
      <4>1. executors'[b] = executors[b]
        BY <1>1, <2>3 DEF Types
      <4> QED BY <1>1, <2>3, <4>1, OthersModes
    <3>4. executor'[executors[b]] = executor[executors[b]]
      BY <1>1, <3>1, <3>2 DEF Alive
    <3>5. executors[b] \in Alive'
      BY <3>1, <3>4 DEF Alive
    <3> QED BY <2>3, <3>1, <3>3, <3>4, <3>5
  <2> QED BY <2>1, <2>2, <2>3
<1>5. ASSUME NEW f \in Alive'
      PROVE  /\ executor'[f].running <=> f \in Mapped'
             /\ executor'[f].answerable => executor'[f].conflicts # 0
  <2>0. f \in Executors /\ executor'[f] # None
    BY DEF Alive
  <2>1. CASE f = executors[id]
    <3>1. executor'[f] = Stopped(f)
      BY <1>1, <2>0, <2>1
    <3>2. executor'[f].running = FALSE /\ (executor'[f].answerable => executor'[f].conflicts # 0)
      BY <1>2, <2>0, <2>1, <3>1, Zenon DEF StoppedKeeps
    <3>3. f \notin Mapped'
      <4>1. \A b \in SpaceIds \ {id} : executors[b] # f
        BY <1>2, <2>0, <2>1, OneSpaceEach
      <4>2. f # None
        BY <1>2, <2>0, <2>1
      <4> QED BY <1>1, <4>1, <4>2 DEF Mapped, Types
    <3> QED BY <3>2, <3>3
  <2>2. CASE f # executors[id]
    <3>1. executor'[f] = executor[f] /\ f \in Alive
      BY <1>1, <2>0, <2>2 DEF Alive
    <3>2. f \in Mapped' <=> f \in Mapped
      BY <1>1, <2>0, <2>2, SpacesAssumption DEF Mapped, Types
    <3>3. /\ executor[f].running <=> f \in Mapped
          /\ executor[f].answerable => executor[f].conflicts # 0
      BY <3>1, Flags, Zenon
    <3> QED BY ONLY <3>1, <3>2, <3>3, Zenon
  <2> QED BY <2>1, <2>2
<1>6. SpacesRun'
  BY ONLY <1>4, <1>5, Zenon DEF SpacesRun
<1>7. \A f \in Alive \ Mapped : executor'[f] = executor[f]
  BY <1>1, AliveType DEF Mapped
<1> QED BY <1>3, <1>6, <1>7

LEMMA SwitchStep ==
  ASSUME Types, SpacesRun, NEW id \in SpaceIds, NEW mode \in Modes, SwitchMode(id, mode)
  PROVE  /\ Types' /\ SpacesRun'
         /\ \A f \in Alive \ Mapped : executor'[f] = executor[f]
<1> DEFINE e == executors[id]
<1>1. /\ e # None /\ e \in Alive /\ e \in Mapped /\ e \in Executors
      /\ executor[e] \in SkillExecutor /\ executor[e].space = id
  BY OneSpaceEach, AliveType DEF SwitchMode, SpacesRun
<1>2. /\ spaces' = [spaces EXCEPT ![id] = mode] /\ executors' = executors
      /\ foreign' = foreign \ {id}
      /\ executor' = [executor EXCEPT ![e] = [executor[e] EXCEPT !.mode = mode]]
  BY <1>1 DEF SwitchMode, Types
<1>3. /\ executor'[e] = [executor[e] EXCEPT !.mode = mode]
      /\ \A f \in Executors \ {e} : executor'[f] = executor[f]
  BY <1>1, <1>2 DEF Types
<1>4. /\ executor'[e] \in SkillExecutor /\ executor'[e].space = id /\ executor'[e].mode = mode
      /\ executor'[e].running = executor[e].running
      /\ executor'[e].answerable = executor[e].answerable
      /\ executor'[e].conflicts = executor[e].conflicts
  BY <1>1, <1>3 DEF SkillExecutor
<1>5. Types'
  BY <1>1, <1>2, <1>4 DEF Types
<1>6. Alive' = Alive /\ Mapped' = Mapped
  <2>1. executor'[e] # None
    BY <1>4, Fields
  <2> QED BY <1>1, <1>2, <1>3, <2>1 DEF Alive, Mapped
<1>7. ASSUME NEW b \in SpaceIds
      PROVE  IF spaces'[b] = None THEN executors'[b] = None
             ELSE /\ executors'[b] \in Alive'
                  /\ executor'[executors'[b]].space = b
                  /\ executor'[executors'[b]].mode = ModeOf(b)'
  <2>1. CASE b = id
    <3>1. spaces'[b] = mode /\ executors'[b] = e /\ ModeOf(b)' = mode
      BY <1>2, <2>1 DEF Types, ModeOf
    <3>2. mode # None /\ e \in Alive'
      BY <1>1, <1>6, SpacesAssumption
    <3>3. executor'[e].space = b /\ executor'[e].mode = mode
      BY <1>4, <2>1
    <3> QED BY ONLY <3>1, <3>2, <3>3
  <2>2. CASE b # id
    <3>0. executors'[b] = executors[b] /\ executors[b] # e
      BY <1>1, <1>2, <2>2, OneSpaceEach DEF Types
    <3>1. /\ spaces'[b] = spaces[b] /\ ModeOf(b)' = ModeOf(b)
          /\ executors'[b] = executors[b] /\ executors[b] # e
      BY <1>2, <2>2, <3>0, OthersModes
    <3>2. CASE spaces[b] = None
      BY <3>1, <3>2 DEF SpacesRun
    <3>3. CASE spaces[b] # None
      <4>1. /\ executors[b] \in Alive /\ executor[executors[b]].space = b
            /\ executor[executors[b]].mode = ModeOf(b)
        BY <3>3 DEF SpacesRun
      <4>2. executor'[executors[b]] = executor[executors[b]]
        BY <1>3, <3>1, <4>1 DEF Alive
      <4> QED BY <1>6, <3>1, <3>3, <4>1, <4>2
    <3> QED BY <3>2, <3>3
  <2> QED BY <2>1, <2>2
<1>8. ASSUME NEW f \in Alive'
      PROVE  /\ executor'[f].running <=> f \in Mapped'
             /\ executor'[f].answerable => executor'[f].conflicts # 0
  <2>1. f \in Alive /\ f \in Executors
    BY <1>6 DEF Alive
  <2>2. /\ executor'[f].running = executor[f].running
        /\ executor'[f].answerable = executor[f].answerable
        /\ executor'[f].conflicts = executor[f].conflicts
    BY <1>3, <1>4, <2>1
  <2>3. /\ executor[f].running <=> f \in Mapped
        /\ executor[f].answerable => executor[f].conflicts # 0
    BY <2>1, Flags, Zenon
  <2> QED BY ONLY <1>6, <2>2, <2>3, Zenon
<1>9. SpacesRun'
  BY ONLY <1>7, <1>8, Zenon DEF SpacesRun
<1>10. \A f \in Alive \ Mapped : executor'[f] = executor[f]
  BY <1>1, <1>3 DEF Alive
<1> QED BY <1>5, <1>9, <1>10

\* A stopped executor goes with its last timeout, another one stays.
LEMMA TimeoutStep ==
  ASSUME Types, SpacesRun, NEW e \in Executors, ConflictTimeout(e)
  PROVE  /\ Types' /\ SpacesRun' /\ e \in Alive /\ Fire({e})
         /\ \A f \in Alive \ {e} : executor'[f] = executor[f]
         /\ executor'[e] = IF e \in Mapped \/ executor[e].conflicts > 1
                           THEN [executor[e] EXCEPT !.conflicts = @ - 1, !.answerable = FALSE]
                           ELSE None
<1> DEFINE after == IF e \in Mapped \/ executor[e].conflicts > 1
                    THEN [executor[e] EXCEPT !.conflicts = @ - 1, !.answerable = FALSE]
                    ELSE None
<1>1. /\ e \in Alive /\ executor[e].conflicts # 0 /\ Fire({e})
      /\ UNCHANGED <<spaces, executors, foreign>>
      /\ executor' = [executor EXCEPT ![e] = after]
  BY DEF ConflictTimeout
<1>2. /\ executor'[e] = after
      /\ \A f \in Executors \ {e} : executor'[f] = executor[f]
      /\ executor' = [f \in Executors |-> executor'[f]]
  <2> HIDE DEF after
  <2> QED BY <1>1 DEF Types
<1>3. executor[e] \in SkillExecutor
  BY <1>1, AliveType
<1>4. Types' /\ SpacesRun'
  <2>1. CASE e \in Mapped \/ executor[e].conflicts > 1
    <3>1. executor'[e] = [executor[e] EXCEPT !.conflicts = executor[e].conflicts - 1,
                                            !.answerable = FALSE]
      BY <1>2, <2>1
    <3>2. executor[e].conflicts - 1 \in Nat
      <4>1. executor[e].conflicts \in Nat /\ executor[e].conflicts # 0
        BY <1>1, <1>3, Fields
      <4> QED BY <4>1
    <3>3. Kept(e)
      <4>1. /\ executor'[e] \in SkillExecutor
            /\ executor'[e].space = executor[e].space
            /\ executor'[e].running = executor[e].running
            /\ executor'[e].mode = executor[e].mode
            /\ executor'[e].answerable = FALSE
        BY <1>3, <3>1, <3>2 DEF SkillExecutor
      <4> QED BY <1>1, <4>1 DEF Kept
    <3>4. \A f \in Executors : Kept(f)
      BY <1>2, <3>3 DEF Kept
    <3> QED BY <1>1, <1>2, <3>4, KeptStep
  <2>2. CASE ~(e \in Mapped \/ executor[e].conflicts > 1)
    <3>1. executor'[e] = None
      BY <1>2, <2>2
    <3>2. Alive' = Alive \ {e} /\ Mapped' = Mapped
      BY <1>1, <1>2, <3>1 DEF Alive, Mapped
    <3>3. Types'
      BY <1>1, <1>2, <3>1 DEF Types
    <3>4. ASSUME NEW b \in SpaceIds
          PROVE  IF spaces'[b] = None THEN executors'[b] = None
                 ELSE /\ executors'[b] \in Alive'
                      /\ executor'[executors'[b]].space = b
                      /\ executor'[executors'[b]].mode = ModeOf(b)'
      <4>1. CASE spaces[b] = None
        BY <1>1, <4>1 DEF SpacesRun
      <4>2. CASE spaces[b] # None
        <5>1. /\ executors[b] \in Alive /\ executor[executors[b]].space = b
              /\ executor[executors[b]].mode = ModeOf(b)
          BY <4>2 DEF SpacesRun
        <5>2. executors[b] \in Mapped
          BY <5>1, AliveType DEF Mapped
        <5>3. executors[b] # e
          BY <2>2, <5>2
        <5>4. executor'[executors[b]] = executor[executors[b]]
          BY <1>2, <5>1, <5>3 DEF Alive
        <5>5. ModeOf(b)' = ModeOf(b)
          BY <1>1 DEF ModeOf
        <5> QED BY <1>1, <3>2, <4>2, <5>1, <5>3, <5>4, <5>5
      <4> QED BY <4>1, <4>2
    <3>5. ASSUME NEW f \in Alive'
          PROVE  /\ executor'[f].running <=> f \in Mapped'
                 /\ executor'[f].answerable => executor'[f].conflicts # 0
      <4>1. f \in Alive /\ executor'[f] = executor[f]
        BY <1>2, <3>2 DEF Alive
      <4>2. /\ executor[f].running <=> f \in Mapped
            /\ executor[f].answerable => executor[f].conflicts # 0
        BY <4>1, Flags, Zenon
      <4> QED BY ONLY <3>2, <4>1, <4>2, Zenon
    <3>6. SpacesRun'
      BY ONLY <3>4, <3>5, Zenon DEF SpacesRun
    <3> QED BY <3>3, <3>6
  <2> QED BY <2>1, <2>2
<1>5. \A f \in Alive \ {e} : executor'[f] = executor[f]
  BY <1>2 DEF Alive
<1> QED BY <1>1, <1>2, <1>4, <1>5

-----------------------------------------------------------------------------
\* The specification.

LEMMA InitIInv == Init => IInv
<1> SUFFICES ASSUME Init PROVE IInv
  OBVIOUS
<1>1. PICK first \in Executors :
        /\ executors = [id \in SpaceIds |-> IF id = DefaultSpace THEN first ELSE None]
        /\ executor = [e \in Executors |->
                         IF e = first THEN NewExecutor(DefaultSpace) ELSE None]
  BY DEF Init
<1>2. /\ spaces = [id \in SpaceIds |-> IF id = DefaultSpace THEN DefaultMode ELSE None]
      /\ foreign = {} /\ log = <<>> /\ total = 0
  BY DEF Init
<1>3. /\ NewExecutor(DefaultSpace) \in SkillExecutor /\ NewExecutor(DefaultSpace) # None
      /\ first # None /\ DefaultMode # None /\ DefaultSpace \in SpaceIds
      /\ DefaultMode \in Modes
  <2>1. NewExecutor(DefaultSpace) \in SkillExecutor
    BY SpacesAssumption DEF NewExecutor, SkillExecutor
  <2>2. NewExecutor(DefaultSpace) # None
    BY <2>1, Fields
  <2>3. /\ first # None /\ DefaultMode # None /\ DefaultSpace \in SpaceIds
        /\ DefaultMode \in Modes
    BY SpacesAssumption
  <2> QED BY <2>1, <2>2, <2>3
<1>4. Alive = {first} /\ Mapped = {first}
  <2>1. Alive = {first}
    BY <1>1, <1>3 DEF Alive
  <2>2. executors[DefaultSpace] = first /\ \A id \in SpaceIds : executors[id] \in {first, None}
    BY <1>1, <1>3
  <2>3. Mapped = {first}
    BY ONLY <1>3, <2>2 DEF Mapped
  <2> QED BY <2>1, <2>3
<1>5. TypeOK
  <2>1. log \in Seq(Entry) /\ total \in 0..MaxFirings
    BY <1>2, SpacesAssumption
  <2> QED BY <1>1, <1>2, <1>3, <2>1 DEF TypeOK
<1>6. SpacesRun
  <2>1. ASSUME NEW id \in SpaceIds
        PROVE  IF spaces[id] = None THEN executors[id] = None
               ELSE /\ executors[id] \in Alive
                    /\ executor[executors[id]].space = id
                    /\ executor[executors[id]].mode = ModeOf(id)
    BY <1>1, <1>2, <1>3, <1>4 DEF NewExecutor, ModeOf
  <2>2. ASSUME NEW e \in Alive
        PROVE  /\ executor[e].running <=> e \in Mapped
               /\ executor[e].answerable => executor[e].conflicts # 0
    <3>1. e \in Mapped /\ executor[e] = NewExecutor(DefaultSpace)
      BY <1>1, <1>4
    <3>2. executor[e].running = TRUE /\ executor[e].answerable = FALSE
      BY <3>1 DEF NewExecutor
    <3> QED BY <3>1, <3>2
  <2> QED BY ONLY <2>1, <2>2, Zenon DEF SpacesRun
<1>7. LogIsRecent
  <2>1. Len(log) = 0 /\ Capacity \in Nat \ {0}
    BY <1>2, SpacesAssumption
  <2> QED BY <1>2, <2>1 DEF LogIsRecent
<1> QED BY <1>5, <1>6, <1>7 DEF IInv

\* What a step may do to a stopped executor.
Finishes(e) ==
  ~executor[e].running /\ executor'[e] # executor[e] =>
    /\ executor'[e] = IF executor[e].conflicts = 1 THEN None
                      ELSE [executor[e] EXCEPT !.conflicts = @ - 1, !.answerable = FALSE]
    /\ total' = total + 1

LEMMA ToolsSpareStopped ==
  ASSUME Types, SpacesRun, NEW id \in SpaceIds \cup {None}, NEW s \in Skills, NEW on \in BOOLEAN,
         \/ RegisterSkill(id, s) \/ RemoveSkill(id, s) \/ DisableSkill(id, s, on)
         \/ ResolveConflict
  PROVE  \A e \in Alive \ Mapped : executor'[e] = executor[e]
<1>1. ASSUME NEW e \in Alive \ Mapped PROVE executor'[e] = executor[e]
  <2>1. e \in Executors /\ e \notin Targets(id) /\ e \notin Mapped
    BY AliveType, TargetsAreMapped
  <2> QED BY <2>1 DEF RegisterSkill, RemoveSkill, DisableSkill, ResolveConflict
<1> QED BY <1>1

LEMMA NextStep ==
  ASSUME IInv, Next
  PROVE  IInv' /\ \A e \in Alive : Finishes(e)
<1>1. Types /\ SpacesRun /\ TypeOK /\ LogIsRecent
  BY DEF IInv, TypeOK, Types
<1>2. ASSUME Types', SpacesRun', UNCHANGED <<log, total>>
      PROVE  IInv'
  BY <1>1, <1>2 DEF IInv, TypeOK, Types, LogIsRecent
<1>3. ASSUME Types', SpacesRun', NEW firing \in SUBSET Alive, Fire(firing)
      PROVE  IInv' /\ total' = total + Cardinality(firing)
  BY <1>1, <1>3, FireStep DEF IInv, TypeOK, Types
<1>4. ASSUME \A e \in Alive \ Mapped : executor'[e] = executor[e]
      PROVE  \A e \in Alive : Finishes(e)
  <2>1. ASSUME NEW e \in Alive, ~executor[e].running PROVE e \notin Mapped
    BY <1>1, <2>1, Flags, Zenon
  <2> QED BY <1>4, <2>1 DEF Finishes
<1>5. ASSUME NEW id \in SpaceIds, NEW mode \in Modes, AddSpace(id, mode)
      PROVE  IInv' /\ \A e \in Alive : Finishes(e)
  <2>1. UNCHANGED <<log, total>>
    BY <1>5 DEF AddSpace
  <2> QED BY <1>1, <1>2, <1>4, <1>5, <2>1, AddStep
<1>6. ASSUME NEW id \in SpaceIds, RemoveSpace(id)
      PROVE  IInv' /\ \A e \in Alive : Finishes(e)
  <2>1. UNCHANGED <<log, total>>
    BY <1>6 DEF RemoveSpace
  <2> QED BY <1>1, <1>2, <1>4, <1>6, <2>1, RemoveStep
<1>7. ASSUME NEW id \in SpaceIds \cup {None}, HandleEvent(id)
      PROVE  IInv' /\ \A e \in Alive : Finishes(e)
  <2>1. /\ Types' /\ SpacesRun'
        /\ \E firing \in SUBSET Alive : Fire(firing)
        /\ \A e \in Alive \ Mapped : executor'[e] = executor[e]
    BY <1>1, <1>7, EventStep
  <2> QED BY <1>3, <1>4, <2>1
<1>8. ASSUME NEW id \in SpaceIds \cup {None}, NEW s \in Skills, NEW on \in BOOLEAN,
             RegisterSkill(id, s) \/ RemoveSkill(id, s) \/ DisableSkill(id, s, on)
      PROVE  IInv' /\ \A e \in Alive : Finishes(e)
  <2>1. UNCHANGED <<log, total>>
    BY <1>8 DEF RegisterSkill, RemoveSkill, DisableSkill
  <2>2. Types' /\ SpacesRun'
    BY <1>1, <1>8, ToolStep
  <2>3. \A e \in Alive \ Mapped : executor'[e] = executor[e]
    BY <1>1, <1>8, ToolsSpareStopped
  <2> QED BY <1>2, <1>4, <2>1, <2>2, <2>3
<1>9. ASSUME NEW id \in SpaceIds, NEW mode \in Modes, SwitchMode(id, mode)
      PROVE  IInv' /\ \A e \in Alive : Finishes(e)
  <2>1. UNCHANGED <<log, total>>
    BY <1>9 DEF SwitchMode
  <2> QED BY <1>1, <1>2, <1>4, <1>9, <2>1, SwitchStep
<1>10. ASSUME ResolveConflict
       PROVE  IInv' /\ \A e \in Alive : Finishes(e)
  <2>1. UNCHANGED <<log, total>>
    BY <1>10 DEF ResolveConflict
  <2>2. Types' /\ SpacesRun'
    BY <1>1, <1>10, ResolveStep
  <2>3. \A e \in Alive \ Mapped : executor'[e] = executor[e]
    BY <1>10, AliveType, <1>1 DEF ResolveConflict
  <2> QED BY <1>2, <1>4, <2>1, <2>2, <2>3
<1>11. ASSUME NEW f \in Executors, ConflictTimeout(f)
       PROVE  IInv' /\ \A e \in Alive : Finishes(e)
  <2>1. /\ Types' /\ SpacesRun' /\ f \in Alive /\ Fire({f})
        /\ \A e \in Alive \ {f} : executor'[e] = executor[e]
        /\ executor'[f] = IF f \in Mapped \/ executor[f].conflicts > 1
                          THEN [executor[f] EXCEPT !.conflicts = @ - 1, !.answerable = FALSE]
                          ELSE None
    BY <1>1, <1>11, TimeoutStep
  <2>2. IInv' /\ total' = total + 1
    BY <1>3, <2>1, FS_Singleton
  <2>3. Finishes(f)
    <3>1. CASE executor[f].running
      BY <3>1 DEF Finishes
    <3>2. CASE ~executor[f].running
      <4>1. f \notin Mapped
        BY <1>1, <2>1, <3>2, Flags, Zenon
      <4>2. executor[f].conflicts \in Nat /\ executor[f].conflicts # 0
        BY <1>1, <1>11, <2>1, AliveType, Fields DEF ConflictTimeout
      <4>3. ~(executor[f].conflicts > 1) <=> executor[f].conflicts = 1
        BY <4>2
      <4> QED BY <2>1, <2>2, <4>1, <4>3 DEF Finishes
    <3> QED BY <3>1, <3>2
  <2>4. \A e \in Alive \ {f} : Finishes(e)
    BY <2>1 DEF Finishes
  <2> QED BY <2>2, <2>3, <2>4
<1> QED BY <1>5, <1>6, <1>7, <1>8, <1>9, <1>10, <1>11 DEF Next

LEMMA Inductive == Spec => []IInv
<1>1. IInv /\ UNCHANGED vars => IInv'
  BY DEF IInv, TypeOK, SpacesRun, ModeOf, LogIsRecent, Alive, Mapped, vars
<1> QED BY <1>1, InitIInv, NextStep, PTL DEF Spec

\* The spaces, the executors, the log and the count have their types.
THEOREM SpacesTypeCorrect == Spec => []TypeOK
<1>1. IInv => TypeOK
  BY DEF IInv
<1> QED BY <1>1, Inductive, PTL

\* However spaces are added over others, removed and switched, exactly the
\* executors of the spaces there are run, each in the mode of its own space
\* unless that was added in another mode than `default' and not switched since,
\* and a conflict that can be answered has a timeout.
THEOREM ExecutorsOfSpacesRun == Spec => []SpacesRun
<1>1. IInv => SpacesRun
  BY DEF IInv
<1> QED BY <1>1, Inductive, PTL

\* Whatever its capacity, the log has the last firings in their order.
THEOREM RingKeepsLast == Spec => []LogIsRecent
<1>1. IInv => LogIsRecent
  BY DEF IInv
<1> QED BY <1>1, Inductive, PTL

\* removeSpace and addSpace over a space leave an executor only the timeouts of
\* its conflicts, and each of them fires one skill.
THEOREM StoppedStaysStopped == Spec => StoppedOnlyFinishes
<1>1. IInv /\ [Next]_vars =>
        [\A e \in Alive :
           ~executor[e].running /\ executor'[e] # executor[e] =>
             /\ executor'[e] = IF executor[e].conflicts = 1 THEN None
                               ELSE [executor[e] EXCEPT !.conflicts = @ - 1, !.answerable = FALSE]
             /\ total' = total + 1]_vars
  BY NextStep DEF Finishes
<1> QED BY <1>1, Inductive, PTL DEF Spec, StoppedOnlyFinishes
=============================================================================
