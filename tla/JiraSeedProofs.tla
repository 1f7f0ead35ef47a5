--------------------------- MODULE JiraSeedProofs ---------------------------
(***************************************************************************)
(* Proofs about JiraSeed, for every backlog, every size of a chunk and any *)
(* number of runs, stops and edits.                                        *)
(*                                                                         *)
(* RecordedIsReal says nothing of the moment between Jira's answer and the *)
(* entry of the key, and is not inductive: a key is entered for whatever   *)
(* item the run is at.  Fresh says that the last issue, or sprint, is then *)
(* the one the run has just asked for; EpicsKnown that a story is created  *)
(* only when the keys of all epics are known; Position where in the loops  *)
(* each step is taken.                                                     *)
(*                                                                         *)
(* That a run which ends has done everything follows from what its loops   *)
(* have passed (Passed): a chunk moves the stories of its ranks and, since *)
(* a key names one item, no story of an earlier sprint.  That a stop loses *)
(* at most one issue or sprint follows from how much is lost at each step  *)
(* (LossInv), where what counts as known is what the run knows and, once   *)
(* it has stopped, what the file holds (InStep).                           *)
(***************************************************************************)
EXTENDS JiraSeed, FiniteSetTheorems, SequenceTheorems, TLAPS

USE SizeAssumption, PlanAssumption, BoundAssumption

Position ==
  /\ pc \in {"load", "fields"} => item = 1
  /\ pc \in {"load", "fields", "issue", "created", "board"} => sprint = 0
  /\ pc = "created" => item \in Items /\ ~ Known(item)
  /\ pc \in {"save", "saving"} => \/ sprint = 0 /\ item \in Items /\ Known(item)
                                  \/ sprint \in Sprints
  /\ pc = "sprint" => sprint # 0
  /\ pc \in {"opened", "move"} => sprint \in Sprints

EpicsKnown ==
  pc \notin Resting \cup {"load"} => \A e \in Epics : e < item => Known(e)

Fresh ==
  /\ pc = "created" => /\ Len(issues) > 0
                       /\ issues[Len(issues)].item = item
                       /\ issues[Len(issues)].label = Label(item)
                       /\ issues[Len(issues)].parent = ParentKey(item)
  /\ pc = "opened" => /\ Len(sprints) > 0
                      /\ sprints[Len(sprints)] = sprint

TypeInv == TypeOK /\ Position
Inv     == TypeInv /\ EpicsKnown /\ Fresh /\ RecordedIsReal

Pcs == Resting \cup {"load", "fields", "issue", "created", "board", "sprint",
                     "opened", "save", "saving", "move"}

Issue == [item : Items, label : Nat, parent : Nat, sprint : Nat]

-----------------------------------------------------------------------------
\* Faithful as a relation between what is recorded and what is in Jira.
Under(i, st, issue) ==
  IF i \in Epics THEN issue.parent = NoKey
  ELSE /\ issue.label \in Epics
       /\ issue.parent = st.issue[issue.label] /\ issue.parent # NoKey

RealIn(st, is, ss) ==
  /\ \A i \in Items : st.issue[i] # NoKey =>
       /\ st.issue[i] \in 1..Len(is)
       /\ is[st.issue[i]].item = i
       /\ Under(i, st, is[st.issue[i]])
  /\ \A s \in Sprints : st.sprint[s] # NoKey =>
       /\ st.sprint[s] \in 1..Len(ss)
       /\ ss[st.sprint[s]] = s

LEMMA ItemFacts ==
  /\ Epics \subseteq Items /\ Stories \subseteq Items
  /\ Items = Epics \cup Stories
  /\ \A e \in Epics, s \in Stories : e < s
  /\ \A s \in Stories : s \notin Epics
BY DEF Items, Epics, Stories

LEMMA NothingIsReal ==
  ASSUME NEW is, NEW ss
  PROVE  NoKeys \in States /\ RealIn(NoKeys, is, ss)
BY DEF NoKeys, NoKey, States, RealIn

\* Whatever is recorded stays real when Jira only grows.
LEMMA GrowthKeepsReal ==
  ASSUME NEW st \in States,
         NEW is \in Seq(Issue), NEW js \in Seq(Issue),
         NEW ss \in Seq(Sprints), NEW ts \in Seq(Sprints),
         Len(is) <= Len(js), Len(ss) <= Len(ts),
         \A k \in 1..Len(is) : /\ js[k].item = is[k].item /\ js[k].label = is[k].label
                               /\ js[k].parent = is[k].parent,
         \A k \in 1..Len(ss) : ts[k] = ss[k],
         RealIn(st, is, ss)
  PROVE  RealIn(st, js, ts)
<1>1. ASSUME NEW i \in Items, st.issue[i] # NoKey
      PROVE  /\ st.issue[i] \in 1..Len(js)
             /\ js[st.issue[i]].item = i
             /\ Under(i, st, js[st.issue[i]])
  <2>1. /\ st.issue[i] \in 1..Len(is)
        /\ is[st.issue[i]].item = i
        /\ Under(i, st, is[st.issue[i]])
    BY <1>1, Zenon DEF RealIn
  <2>2. st.issue[i] \in 1..Len(js)
    BY <2>1
  <2> QED BY <2>1, <2>2 DEF Under
<1>2. ASSUME NEW s \in Sprints, st.sprint[s] # NoKey
      PROVE  st.sprint[s] \in 1..Len(ts) /\ ts[st.sprint[s]] = s
  BY <1>2 DEF RealIn
<1> QED BY <1>1, <1>2 DEF RealIn

\* The key of the last issue, made for i under the epic on record, is entered.
LEMMA EnterIssue ==
  ASSUME NEW st \in States, NEW is \in Seq(Issue), NEW ss,
         NEW i \in Items, st.issue[i] = NoKey, Len(is) > 0,
         is[Len(is)].item = i,
         Under(i, st, is[Len(is)]),
         RealIn(st, is, ss)
  PROVE  /\ [st EXCEPT !.issue[i] = Len(is)] \in States
         /\ RealIn([st EXCEPT !.issue[i] = Len(is)], is, ss)
<1> DEFINE new == [st EXCEPT !.issue[i] = Len(is)]
<1>0. Len(is) \in Nat /\ st.issue \in [Items -> Nat] /\ st.sprint \in [Sprints -> Nat]
  BY LenProperties DEF States
<1>1. /\ new \in States /\ new.sprint = st.sprint
      /\ \A j \in Items : new.issue[j] = IF j = i THEN Len(is) ELSE st.issue[j]
  BY <1>0 DEF States
<1> HIDE DEF new
<1>2. ASSUME NEW j \in Items, new.issue[j] # NoKey
      PROVE  /\ new.issue[j] \in 1..Len(is)
             /\ is[new.issue[j]].item = j
             /\ Under(j, new, is[new.issue[j]])
  <2>0. ASSUME NEW issue, Under(j, st, issue) PROVE Under(j, new, issue)
    <3>1. ASSUME NEW e \in Epics, st.issue[e] # NoKey
          PROVE  new.issue[e] = st.issue[e]
      BY <1>1, <3>1, ItemFacts
    <3> QED BY <2>0, <3>1 DEF Under
  <2>1. CASE j = i
    <3>1. new.issue[j] = Len(is) /\ Len(is) \in 1..Len(is)
      BY <1>0, <1>1, <2>1
    <3> QED BY <2>0, <2>1, <3>1
  <2>2. CASE j # i
    <3>1. /\ st.issue[j] # NoKey /\ new.issue[j] = st.issue[j]
      BY <1>1, <1>2, <2>2
    <3> QED BY <2>0, <3>1 DEF RealIn
  <2> QED BY <2>1, <2>2
<1> QED BY <1>1, <1>2 DEF RealIn, new

LEMMA EnterSprint ==
  ASSUME NEW st \in States, NEW is, NEW ss \in Seq(Sprints),
         NEW s \in Sprints, Len(ss) > 0, ss[Len(ss)] = s,
         RealIn(st, is, ss)
  PROVE  /\ [st EXCEPT !.sprint[s] = Len(ss)] \in States
         /\ RealIn([st EXCEPT !.sprint[s] = Len(ss)], is, ss)
<1> DEFINE new == [st EXCEPT !.sprint[s] = Len(ss)]
<1>0. Len(ss) \in Nat /\ st.issue \in [Items -> Nat] /\ st.sprint \in [Sprints -> Nat]
  BY LenProperties DEF States
<1>1. /\ new \in States /\ new.issue = st.issue
      /\ \A r \in Sprints : new.sprint[r] = IF r = s THEN Len(ss) ELSE st.sprint[r]
  BY <1>0 DEF States
<1> HIDE DEF new
<1>2. RealIn(new, is, ss)
  BY <1>1 DEF RealIn, Under
<1> QED BY <1>1, <1>2 DEF new

LEMMA RealRecorded ==
  /\ RecordedIsReal <=>
       RealIn(saved, issues, sprints) /\ RealIn(state, issues, sprints)
  /\ RecordedIsReal' <=>
       RealIn(saved', issues', sprints') /\ RealIn(state', issues', sprints')
BY DEF RecordedIsReal, Faithful, RealIn, InItsPlace, Under

-----------------------------------------------------------------------------
LEMMA Initially == Init => Inv
<1> SUFFICES ASSUME Init PROVE Inv
  OBVIOUS
<1>1. <<>> \in Seq([item : Items, label : Nat, parent : Nat, sprint : Nat]) /\ <<>> \in Seq(Sprints)
  BY EmptySeq
<1>2. NoKeys \in States /\ NEpics + NStories + 1 \in Nat /\ NSprints + 1 \in Nat
  BY NothingIsReal
<1>3. TypeOK
  BY <1>1, <1>2 DEF Init, TypeOK, Plans, Resting
<1>4. Position /\ EpicsKnown /\ Fresh
  BY DEF Init, Position, EpicsKnown, Fresh, Resting
<1>5. RecordedIsReal
  BY RealRecorded, NothingIsReal DEF Init
<1> QED BY <1>3, <1>4, <1>5 DEF Inv, TypeInv

\* What every step but CreateIssue, CreateSprint and MoveChunk leaves alone.
LEMMA SameJira ==
  ASSUME Inv, UNCHANGED jiraVars,
         saved' \in {saved, state, NoKeys}, state' \in {saved, state, NoKeys}
  PROVE  RecordedIsReal' /\ saved' \in States /\ state' \in States
<1>1. RealIn(saved, issues, sprints) /\ RealIn(state, issues, sprints)
      /\ RealIn(NoKeys, issues, sprints) /\ NoKeys \in States
  BY RealRecorded, NothingIsReal DEF Inv
<1>2. issues' = issues /\ sprints' = sprints
  BY DEF jiraVars
<1>3. RealIn(saved', issues', sprints') /\ RealIn(state', issues', sprints')
  BY <1>1, <1>2
<1> QED BY <1>1, <1>3, RealRecorded DEF Inv, TypeInv, TypeOK

LEMMA StepKeepsInv == Inv /\ [Next]_vars => Inv'
<1> SUFFICES ASSUME Inv, [Next]_vars PROVE Inv'
  OBVIOUS
<1>0. NEpics + NStories + 1 \in Nat /\ NSprints + 1 \in Nat
  OBVIOUS
<1> USE <1>0 DEF Inv, TypeInv
<1>1. CASE Begin
  <2>1. RecordedIsReal' /\ saved' \in States /\ state' \in States
    BY <1>1, SameJira DEF Begin, diskVars
  <2>2. TypeOK'
    BY <1>1, <2>1 DEF Begin, TypeOK, jiraVars, diskVars, Resting
  <2>3. Position' /\ EpicsKnown' /\ Fresh'
    BY <1>1 DEF Begin, Position, EpicsKnown, Fresh, Resting
  <2> QED BY <2>1, <2>2, <2>3
<1>2. CASE Load
  <2>1. RecordedIsReal' /\ saved' \in States /\ state' \in States
    BY <1>2, SameJira DEF Load, diskVars
  <2>2. TypeOK'
    BY <1>2, <2>1 DEF Load, TypeOK, jiraVars, diskVars, Resting
  <2>3. Position' /\ EpicsKnown' /\ Fresh'
    BY <1>2 DEF Load, Position, EpicsKnown, Fresh, Resting, Epics, Items, TypeOK
  <2> QED BY <2>1, <2>2, <2>3
<1>3. CASE LoadFails
  <2>1. RecordedIsReal' /\ saved' \in States /\ state' \in States
    BY <1>3, SameJira DEF LoadFails, diskVars
  <2>2. TypeOK'
    BY <1>3, <2>1 DEF LoadFails, TypeOK, jiraVars, diskVars, Resting
  <2>3. Position' /\ EpicsKnown' /\ Fresh'
    BY <1>3 DEF LoadFails, Position, EpicsKnown, Fresh, Resting
  <2> QED BY <2>1, <2>2, <2>3
<1>4. CASE Ask
  <2>1. RecordedIsReal' /\ saved' \in States /\ state' \in States
    BY <1>4, SameJira DEF Ask, diskVars
  <2>2. TypeOK'
    BY <1>4, <2>1 DEF Ask, TypeOK, jiraVars, diskVars, Resting
  <2>3. Position' /\ EpicsKnown' /\ Fresh'
    BY <1>4 DEF Ask, Position, EpicsKnown, Fresh, Resting, Known
  <2> QED BY <2>1, <2>2, <2>3
<1>5. CASE Skip
  <2>1. RecordedIsReal' /\ saved' \in States /\ state' \in States
    BY <1>5, SameJira DEF Skip, diskVars
  <2>2. TypeOK'
    BY <1>5, <2>1 DEF Skip, TypeOK, jiraVars, diskVars, Items
  <2>3. EpicsKnown'
    BY <1>5 DEF Skip, EpicsKnown, Known, Listed, Epics, Items, TypeOK, Resting
  <2>4. Position' /\ Fresh'
    BY <1>5 DEF Skip, Position, Fresh
  <2> QED BY <2>1, <2>2, <2>3, <2>4
<1>6. CASE CreateIssue
  <2> DEFINE new == [item |-> item, label |-> Label(item), parent |-> ParentKey(item),
                     sprint |-> NoKey]
  <2>1. item \in Items /\ ~ Known(item) /\ sprint = 0
    BY <1>6 DEF CreateIssue, Position
  <2>2. new \in Issue
    <3>1. item \in Stories => plan.epic[item] \in Epics /\ plan.epic[item] \in Items
      BY ItemFacts DEF TypeOK, Plans
    <3>2. ParentKey(item) \in Nat /\ Label(item) \in Nat
      BY <2>1, <3>1, ItemFacts DEF ParentKey, Label, TypeOK, States, NoKey, NotListed, Epics
    <3> QED BY <2>1, <3>2 DEF NoKey, Issue
  <2> HIDE DEF new
  <2>3. /\ issues' \in Seq(Issue) /\ Len(issues') = Len(issues) + 1
        /\ \A k \in 1..Len(issues) : issues'[k] = issues[k]
        /\ issues'[Len(issues')] = new
        /\ Len(issues) \in Nat
    BY <1>6, <2>2, AppendProperties, LenProperties DEF CreateIssue, TypeOK, Issue, new
  <2>4. RecordedIsReal'
    <3>1. sprints' = sprints /\ Len(sprints) \in Nat /\ saved' = saved /\ state' = state
      BY <1>6, LenProperties DEF CreateIssue, diskVars, TypeOK
    <3>2. /\ \A st \in {saved, state} : st \in States /\ RealIn(st, issues, sprints)
          /\ issues \in Seq(Issue) /\ sprints \in Seq(Sprints)
      BY RealRecorded DEF TypeOK, Issue
    <3>3. ASSUME NEW st \in {saved, state} PROVE RealIn(st, issues', sprints)
      <4>1. st \in States /\ RealIn(st, issues, sprints)
        BY <3>2
      <4>2. Len(issues) <= Len(issues') /\ Len(sprints) <= Len(sprints)
        BY <2>3, <3>1
      <4> QED BY <2>3, <3>2, <4>1, <4>2, GrowthKeepsReal
    <3> QED BY <3>1, <3>3, RealRecorded
  <2>5. TypeOK'
    BY <1>6, <2>3 DEF CreateIssue, TypeOK, diskVars, Issue
  <2>6. Fresh'
    BY <1>6, <2>3 DEF CreateIssue, Fresh, ParentKey, Label, new
  <2>7. Position' /\ EpicsKnown'
    BY <1>6, <2>1 DEF CreateIssue, Position, EpicsKnown, Known, Resting
  <2> QED BY <2>4, <2>5, <2>6, <2>7
<1>7. CASE IssueKey
  <2> DEFINE new == [state EXCEPT !.issue[item] = Len(issues)]
  <2>1. /\ item \in Items /\ state.issue[item] = NoKey
        /\ Len(issues) \in Nat /\ Len(issues) > 0
        /\ state \in States /\ RealIn(state, issues, sprints)
    BY <1>7, RealRecorded, LenProperties DEF IssueKey, Position, Known, TypeOK, Fresh
  <2>2. Under(item, state, issues[Len(issues)])
    <3>1. ASSUME item \in Stories
          PROVE  plan.epic[item] \in Epics /\ state.issue[plan.epic[item]] # NoKey
      <4>1. plan.epic[item] \in Epics
        BY <3>1 DEF TypeOK, Plans
      <4> QED BY <1>7, <3>1, <4>1, ItemFacts DEF IssueKey, EpicsKnown, Known, Resting
    <3>2. /\ issues[Len(issues)].label = Label(item)
          /\ issues[Len(issues)].parent = ParentKey(item)
      BY <1>7 DEF IssueKey, Fresh
    <3> QED BY <2>1, <3>1, <3>2, ItemFacts DEF Under, Label, ParentKey
  <2>3. new \in States /\ RealIn(new, issues, sprints)
    BY <1>7, <2>1, <2>2, EnterIssue DEF IssueKey, Fresh, TypeOK, Issue
  <2>4. \A i \in Items : new.issue[i] = IF i = item THEN Len(issues) ELSE state.issue[i]
    BY <2>1 DEF States
  <2>5. state' = new
    BY <1>7 DEF IssueKey
  <2> HIDE DEF new
  <2>6. Len(issues) # NoKey
    BY <2>1 DEF NoKey
  <2>7. \A i \in Items : Known(i)' <=> i = item \/ Known(i)
    BY <2>4, <2>5, <2>6 DEF Known
  <2>8. RecordedIsReal'
    BY <1>7, <2>3, <2>5, RealRecorded DEF IssueKey, jiraVars, diskVars
  <2>9. TypeOK'
    BY <1>7, <2>3, <2>5 DEF IssueKey, TypeOK, jiraVars, diskVars
  <2>10. Position' /\ EpicsKnown' /\ Fresh'
    BY <1>7, <2>1, <2>7, ItemFacts DEF IssueKey, Position, EpicsKnown, Fresh, Resting
  <2> QED BY <2>8, <2>9, <2>10
<1>8. CASE AllIssues
  <2>1. RecordedIsReal' /\ saved' \in States /\ state' \in States
    BY <1>8, SameJira DEF AllIssues, diskVars
  <2>2. TypeOK'
    BY <1>8, <2>1 DEF AllIssues, TypeOK, jiraVars, diskVars
  <2>3. Position' /\ EpicsKnown' /\ Fresh'
    BY <1>8 DEF AllIssues, Position, EpicsKnown, Fresh, Resting, Known
  <2> QED BY <2>1, <2>2, <2>3
<1>9. CASE Truncate
  <2>1. RecordedIsReal' /\ saved' \in States /\ state' \in States
    BY <1>9, SameJira DEF Truncate
  <2>2. TypeOK'
    BY <1>9, <2>1 DEF Truncate, TypeOK, jiraVars
  <2>3. Position' /\ EpicsKnown' /\ Fresh'
    BY <1>9 DEF Truncate, Position, EpicsKnown, Fresh, Resting, Known
  <2> QED BY <2>1, <2>2, <2>3
<1>10. CASE Write
  <2>1. RecordedIsReal' /\ saved' \in States /\ state' \in States
    BY <1>10, SameJira DEF Write
  <2>2. item \in Nat /\ sprint \in Nat /\ (sprint = 0 => item \in Items /\ Known(item))
    BY <1>10 DEF Write, Position, TypeOK, Sprints
  <2>3. TypeOK'
    BY <1>10, <2>1, <2>2 DEF Write, TypeOK, jiraVars, Items
  <2>4. EpicsKnown'
    BY <1>10, <2>2 DEF Write, EpicsKnown, Known, Epics, Resting
  <2>5. Position' /\ Fresh'
    BY <1>10, <2>2 DEF Write, Position, Fresh
  <2> QED BY <2>1, <2>3, <2>4, <2>5
<1>11. CASE CreateSprint
  <2>1. /\ sprints' \in Seq(Sprints) /\ Len(sprints') = Len(sprints) + 1
        /\ \A k \in 1..Len(sprints) : sprints'[k] = sprints[k]
        /\ sprints'[Len(sprints')] = sprint
        /\ Len(sprints) \in Nat
    BY <1>11, AppendProperties, LenProperties DEF CreateSprint, TypeOK
  <2>2. RecordedIsReal'
    <3>1. issues' = issues /\ Len(issues) \in Nat /\ saved' = saved /\ state' = state
      BY <1>11, LenProperties DEF CreateSprint, diskVars, TypeOK
    <3>2. /\ \A st \in {saved, state} : st \in States /\ RealIn(st, issues, sprints)
          /\ issues \in Seq(Issue) /\ sprints \in Seq(Sprints)
      BY RealRecorded DEF TypeOK, Issue
    <3>3. ASSUME NEW st \in {saved, state} PROVE RealIn(st, issues, sprints')
      <4>1. st \in States /\ RealIn(st, issues, sprints)
        BY <3>2
      <4>2. Len(issues) <= Len(issues) /\ Len(sprints) <= Len(sprints')
        BY <2>1, <3>1
      <4> QED BY <2>1, <3>2, <4>1, <4>2, GrowthKeepsReal
    <3> QED BY <3>1, <3>3, RealRecorded
  <2>3. TypeOK'
    BY <1>11, <2>1 DEF CreateSprint, TypeOK, diskVars
  <2>4. Position' /\ EpicsKnown' /\ Fresh'
    BY <1>11, <2>1 DEF CreateSprint, Position, EpicsKnown, Fresh, Known, Resting
  <2> QED BY <2>2, <2>3, <2>4
<1>12. CASE SprintKey
  <2> DEFINE new == [state EXCEPT !.sprint[sprint] = Len(sprints)]
  <2>1. /\ sprint \in Sprints /\ Len(sprints) > 0 /\ sprints[Len(sprints)] = sprint
        /\ state \in States /\ RealIn(state, issues, sprints)
    BY <1>12, RealRecorded DEF SprintKey, Position, TypeOK, Fresh
  <2>2. new \in States /\ RealIn(new, issues, sprints)
    BY <2>1, EnterSprint DEF TypeOK
  <2>3. new.issue = state.issue
    BY <2>1 DEF States
  <2>4. state' = new
    BY <1>12 DEF SprintKey
  <2> HIDE DEF new
  <2>5. RecordedIsReal'
    BY <1>12, <2>2, <2>4, RealRecorded DEF SprintKey, jiraVars, diskVars
  <2>6. TypeOK'
    BY <1>12, <2>2, <2>4 DEF SprintKey, TypeOK, jiraVars, diskVars
  <2>7. Position' /\ EpicsKnown' /\ Fresh'
    BY <1>12, <2>1, <2>3, <2>4 DEF SprintKey, Position, EpicsKnown, Fresh, Known, Resting
  <2> QED BY <2>5, <2>6, <2>7
<1>13. CASE OldSprint
  <2>1. RecordedIsReal' /\ saved' \in States /\ state' \in States
    BY <1>13, SameJira DEF OldSprint, diskVars
  <2>2. TypeOK'
    BY <1>13, <2>1 DEF OldSprint, TypeOK, jiraVars, diskVars
  <2>3. Position' /\ EpicsKnown' /\ Fresh'
    BY <1>13 DEF OldSprint, Position, EpicsKnown, Fresh, Resting, Known
  <2> QED BY <2>1, <2>2, <2>3
<1>14. CASE MoveChunk
  <2>1. /\ issues \in [1..Len(issues) -> Issue] /\ DOMAIN issues = 1..Len(issues)
        /\ Len(issues) \in Nat /\ Len(sprints) \in Nat
    BY LenProperties DEF TypeOK, Issue
  <2>2. sprint \in Sprints /\ state.sprint[sprint] \in Nat
    BY <1>14 DEF MoveChunk, Position, TypeOK, States
  <2>3. /\ issues' \in [1..Len(issues) -> Issue]
        /\ \A k \in 1..Len(issues) : /\ issues'[k].item = issues[k].item
                                     /\ issues'[k].label = issues[k].label
                                     /\ issues'[k].parent = issues[k].parent
    BY <1>14, <2>1, <2>2 DEF MoveChunk, Issue
  <2>4. issues' \in Seq(Issue) /\ Len(issues') = Len(issues)
    BY <2>1, <2>3, LenProperties
  <2>5. RecordedIsReal'
    <3>1. sprints' = sprints /\ saved' = saved /\ state' = state
      BY <1>14 DEF MoveChunk, diskVars
    <3>2. /\ \A st \in {saved, state} : st \in States /\ RealIn(st, issues, sprints)
          /\ issues \in Seq(Issue) /\ sprints \in Seq(Sprints)
      BY RealRecorded DEF TypeOK, Issue
    <3>3. ASSUME NEW st \in {saved, state} PROVE RealIn(st, issues', sprints)
      <4>1. st \in States /\ RealIn(st, issues, sprints)
        BY <3>2
      <4>2. Len(issues) <= Len(issues') /\ Len(sprints) <= Len(sprints)
        BY <2>1, <2>4
      <4> QED BY <2>3, <2>4, <3>2, <4>1, <4>2, GrowthKeepsReal
    <3> QED BY <3>1, <3>3, RealRecorded
  <2>6. TypeOK'
    <3>1. /\ chunk' = chunk + 1
          /\ UNCHANGED <<sprints, diskVars, backlog, plan, state, pc, item, sprint,
                         runs, stops, edits>>
      BY <1>14 DEF MoveChunk
    <3> QED BY <2>4, <3>1 DEF TypeOK, diskVars, Issue
  <2>7. Position' /\ EpicsKnown' /\ Fresh'
    BY <1>14 DEF MoveChunk, Position, EpicsKnown, Fresh, Known, Resting
  <2> QED BY <2>5, <2>6, <2>7
<1>15. CASE Moved
  <2>1. RecordedIsReal' /\ saved' \in States /\ state' \in States
    BY <1>15, SameJira DEF Moved, diskVars
  <2>2. sprint \in Sprints
    BY <1>15 DEF Moved, Position
  <2>3. TypeOK'
    BY <1>15, <2>1, <2>2 DEF Moved, TypeOK, jiraVars, diskVars, Sprints
  <2>4. Position' /\ EpicsKnown' /\ Fresh'
    BY <1>15, <2>2 DEF Moved, Position, EpicsKnown, Fresh, Resting, Known, Sprints
  <2> QED BY <2>1, <2>3, <2>4
<1>16. CASE Done
  <2>1. RecordedIsReal' /\ saved' \in States /\ state' \in States
    BY <1>16, SameJira DEF Done, diskVars
  <2>2. TypeOK'
    BY <1>16, <2>1 DEF Done, TypeOK, jiraVars, diskVars, Resting
  <2>3. Position' /\ EpicsKnown' /\ Fresh'
    BY <1>16 DEF Done, Position, EpicsKnown, Fresh, Resting, Known
  <2> QED BY <2>1, <2>2, <2>3
<1>17. CASE RequestFails \/ Kill
  <2>1. Halt
    BY <1>17 DEF RequestFails, Kill
  <2>2. RecordedIsReal' /\ saved' \in States /\ state' \in States
    BY <2>1, SameJira DEF Halt, diskVars
  <2>3. TypeOK'
    BY <2>1, <2>2 DEF Halt, TypeOK, jiraVars, diskVars, Resting
  <2>4. Position' /\ EpicsKnown' /\ Fresh'
    BY <2>1 DEF Halt, Position, EpicsKnown, Fresh, Resting, Known
  <2> QED BY <2>2, <2>3, <2>4
<1>18. CASE Edit
  <2>1. RecordedIsReal' /\ saved' \in States /\ state' \in States
    BY <1>18, SameJira DEF Edit, diskVars, runVars
  <2>2. TypeOK'
    <3>1. ASSUME NEW i \in Stories, NEW s \in Sprints,
                 backlog' = [backlog EXCEPT !.sprint[i] = s]
          PROVE  backlog' \in Plans
      BY <3>1 DEF TypeOK, Plans
    <3>2. ASSUME NEW i \in Stories, NEW e \in Epics,
                 backlog' = [backlog EXCEPT !.epic[i] = e]
          PROVE  backlog' \in Plans
      BY <3>2 DEF TypeOK, Plans
    <3>3. backlog' \in Plans
      BY <1>18, <3>1, <3>2, Zenon DEF Edit
    <3>4. edits < MaxEdits /\ edits' = edits + 1
          /\ UNCHANGED <<jiraVars, diskVars, runVars, runs, stops>>
      BY <1>18, Zenon DEF Edit
    <3> QED BY <2>1, <3>3, <3>4 DEF TypeOK, jiraVars, diskVars, runVars
  <2>3. Position' /\ EpicsKnown' /\ Fresh'
    BY <1>18 DEF Edit, runVars, jiraVars, Position, EpicsKnown, Fresh, Resting, Known,
                 ParentKey, Label
  <2> QED BY <2>1, <2>2, <2>3
<1>19. CASE UNCHANGED vars
  <2>1. RecordedIsReal' /\ saved' \in States /\ state' \in States
    BY <1>19, SameJira DEF vars, diskVars, runVars
  <2>2. TypeOK' /\ Position' /\ EpicsKnown' /\ Fresh'
    BY <1>19 DEF vars, jiraVars, diskVars, runVars, TypeOK, Position, EpicsKnown, Fresh,
                 Known, ParentKey, Label
  <2> QED BY <2>1, <2>2
<1> QED
  BY <1>1, <1>2, <1>3, <1>4, <1>5, <1>6, <1>7, <1>8, <1>9, <1>10, <1>11, <1>12, <1>13,
     <1>14, <1>15, <1>16, <1>17, <1>18, <1>19 DEF Next, RunStep

\* Every variable of the script, of its file and of Jira keeps to its type.
THEOREM TypeCorrect == Spec => []TypeOK
<1>1. Inv => TypeOK
  BY DEF Inv, TypeInv
<1> QED BY <1>1, Initially, StepKeepsInv, PTL DEF Spec

\* Wherever a run is stopped, however often and with whatever edits of the
\* backlog in between, what .keys.json and a run hold are the keys of issues
\* made for that item, a story's under the recorded issue of its epic.
THEOREM RecordedReal == Spec => []RecordedIsReal
<1>1. Inv => RecordedIsReal
  BY DEF Inv
<1> QED BY <1>1, Initially, StepKeepsInv, PTL DEF Spec

-----------------------------------------------------------------------------
(* What a run has done so far.                                             *)

\* While a run works, the file holds what it knows, but for the key it is about
\* to save; and a file that is not whole says nothing.
InStep ==
  /\ file # "whole" => saved = NoKeys
  /\ pc \in {"fields", "issue", "created", "board", "sprint", "opened", "move", "done"} =>
       file # "torn" /\ state = saved
  /\ pc = "save" => file # "torn"
  /\ pc = "saving" => file = "torn"

Placed(i, s) == issues[state.issue[i]].sprint = state.sprint[s]

\* Sprint s is there, with its stories.
Filled(s) == /\ state.sprint[s] # NoKey
             /\ \A i \in Stories : plan.sprint[i] = s => Placed(i, s)

Working == pc \notin {"off", "load"}

\* What the loops have passed is done.
Passed ==
  /\ Working => /\ \A i \in Listed : i < item => Known(i)
                /\ \A s \in Sprints : s < sprint => Filled(s)
  /\ pc \in {"board", "sprint", "opened", "move", "done"} => item \notin Items
  /\ pc \in {"save", "saving"} /\ sprint # 0 =>
       item \notin Items /\ state.sprint[sprint] # NoKey
  /\ pc = "opened" => state.sprint[sprint] = NoKey
  /\ pc = "move" => /\ state.sprint[sprint] # NoKey
                    /\ \A i \in Members : Rank(i) < chunk * Chunk => Placed(i, sprint)
  /\ pc = "done" => sprint \notin Sprints /\ sprint # 0

Lost(st) == Cardinality(Orphans(st)) + Cardinality(OrphanSprints(st))

\* A run loses what it has just created, until its key is on record.
LossInv ==
  /\ pc \in {"off", "load"} => (file # "torn" => Lost(saved) <= stops)
  /\ pc \in {"fields", "issue", "board", "sprint", "move", "save", "saving", "done"} =>
       Lost(state) <= stops
  /\ pc \in {"created", "opened"} => Lost(state) <= stops + 1
  /\ pc = "save" => Lost(saved) <= stops + 1

LEMMA StepKeepsInStep == Inv /\ InStep /\ [Next]_vars => InStep'
<1> SUFFICES ASSUME Inv, InStep, [Next]_vars PROVE InStep'
  OBVIOUS
<1>1. CASE Begin \/ Load \/ LoadFails \/ Ask
  BY <1>1 DEF InStep, Begin, Load, LoadFails, Ask, jiraVars, diskVars, Resting
<1>2. CASE Skip \/ CreateIssue \/ IssueKey \/ AllIssues
  BY <1>2 DEF InStep, Skip, CreateIssue, IssueKey, AllIssues, jiraVars, diskVars
<1>3. CASE Truncate \/ Write
  BY <1>3 DEF InStep, Truncate, Write
<1>4. CASE CreateSprint \/ SprintKey \/ OldSprint
  BY <1>4 DEF InStep, CreateSprint, SprintKey, OldSprint, jiraVars, diskVars
<1>5. CASE MoveChunk \/ Moved \/ Done
  BY <1>5 DEF InStep, MoveChunk, Moved, Done, jiraVars, diskVars
<1>6. CASE RequestFails \/ Kill
  BY <1>6 DEF InStep, RequestFails, Kill, Halt, diskVars
<1>7. CASE Edit \/ UNCHANGED vars
  BY <1>7 DEF InStep, Edit, vars, diskVars, runVars
<1> QED BY <1>1, <1>2, <1>3, <1>4, <1>5, <1>6, <1>7 DEF Next, RunStep

\* A step that neither learns a key nor moves an issue.
LEMMA SamePlaces ==
  ASSUME UNCHANGED <<issues, plan, state, sprint>>
  PROVE  /\ Listed' = Listed /\ Members' = Members
         /\ \A i : Known(i)' <=> Known(i)
         /\ \A i : Rank(i)' = Rank(i)
         /\ \A s : Filled(s)' <=> Filled(s)
<1>1. Listed' = Listed /\ Members' = Members /\ \A i : Known(i)' <=> Known(i)
  BY DEF Listed, Members, Known
<1>2. \A i : Rank(i)' = Rank(i)
  BY <1>1 DEF Rank
<1>3. \A s : Filled(s)' <=> Filled(s)
  BY DEF Filled, Placed
<1> QED BY <1>1, <1>2, <1>3

\* The stories of a sprint are ranked below their number.
LEMMA RankBelow ==
  ASSUME NEW i \in Members
  PROVE  Rank(i) \in Nat /\ Cardinality(Members) \in Nat /\ Rank(i) < Cardinality(Members)
<1> DEFINE B == {j \in Members : j < i}
<1>1. IsFiniteSet(Members)
  <2>1. Members \in SUBSET Stories /\ IsFiniteSet(Stories)
    BY FS_Interval DEF Members, Stories
  <2> QED BY <2>1, FS_Subset
<1>2. i \notin B /\ B \cup {i} \in SUBSET Members /\ B \in SUBSET Members
  BY DEF Members, Stories
<1> HIDE DEF B
<1>3. IsFiniteSet(B) /\ Cardinality(B) \in Nat /\ Cardinality(B \cup {i}) = Cardinality(B) + 1
  BY <1>1, <1>2, FS_Subset, FS_CardinalityType, FS_AddElement
<1>4. Cardinality(B \cup {i}) <= Cardinality(Members) /\ Cardinality(Members) \in Nat
  BY <1>1, <1>2, FS_Subset, FS_CardinalityType
<1>5. Rank(i) = Cardinality(B)
  BY DEF Rank, B
<1> QED BY <1>3, <1>4, <1>5

\* A key that is entered makes its item known and leaves the others alone.
LEMMA IssueKeyPassed ==
  ASSUME Inv, InStep, Passed, IssueKey
  PROVE  Passed'
<1>1. /\ pc = "created" /\ pc' = "save" /\ item \in Items /\ sprint = 0
      /\ state \in States /\ Len(issues) # NoKey
      /\ state' = [state EXCEPT !.issue[item] = Len(issues)]
      /\ UNCHANGED <<issues, plan, item, sprint>>
  BY LenProperties
  DEF IssueKey, Inv, TypeInv, TypeOK, Position, Fresh, jiraVars, NoKey
<1>2. \A i \in Items : Known(i)' <=> i = item \/ Known(i)
  BY <1>1 DEF Known, States
<1>3. Listed' = Listed /\ Listed \subseteq Items
  BY <1>1, ItemFacts DEF Listed
<1>4. \A i \in Listed : i < item => Known(i)
  BY <1>1 DEF Passed, Working
<1>5. \A i \in Listed : i < item => Known(i)'
  BY <1>2, <1>3, <1>4
<1> QED BY <1>1, <1>3, <1>5 DEF Passed, Sprints

LEMMA SprintKeyPassed ==
  ASSUME Inv, InStep, Passed, SprintKey
  PROVE  Passed'
<1>1. /\ pc = "opened" /\ pc' = "save" /\ sprint \in Sprints /\ item \notin Items
      /\ state \in States /\ Len(sprints) # NoKey
      /\ state' = [state EXCEPT !.sprint[sprint] = Len(sprints)]
      /\ UNCHANGED <<issues, plan, item, sprint>>
  BY LenProperties
  DEF SprintKey, Inv, TypeInv, TypeOK, Position, Fresh, Passed, jiraVars, NoKey
<1>2. /\ state'.issue = state.issue /\ state'.sprint[sprint] # NoKey
      /\ \A s \in Sprints : s # sprint => state'.sprint[s] = state.sprint[s]
  BY <1>1 DEF States
<1>3. Listed' = Listed /\ \A i \in Listed : Known(i)' <=> Known(i)
  BY <1>1, <1>2 DEF Listed, Known
<1>4. ASSUME NEW s \in Sprints, s < sprint PROVE Filled(s)'
  <2>1. Filled(s) /\ s # sprint
    BY <1>1, <1>4 DEF Passed, Working, Sprints
  <2>2. state'.sprint[s] = state.sprint[s]
    BY <1>2, <2>1
  <2> QED BY <1>1, <1>2, <2>1, <2>2 DEF Filled, Placed
<1> QED BY <1>1, <1>2, <1>3, <1>4 DEF Passed, Working

\* A chunk moves the stories of its ranks, and none of another sprint.
LEMMA MoveChunkPassed ==
  ASSUME Inv, InStep, Passed, MoveChunk
  PROVE  Passed'
<1> DEFINE Hit(k) == \E j \in Members : InChunk(j) /\ state.issue[j] = k
<1>1. /\ pc = "move" /\ pc' = "move" /\ sprint \in Sprints /\ item \notin Items
      /\ state.sprint[sprint] # NoKey /\ chunk \in Nat /\ chunk' = chunk + 1
      /\ DOMAIN issues = 1..Len(issues) /\ RealIn(state, issues, sprints)
      /\ UNCHANGED <<plan, state, item, sprint>>
  BY RealRecorded, LenProperties
  DEF MoveChunk, Inv, TypeInv, TypeOK, Position, Passed
<1>2. issues' = [k \in DOMAIN issues |->
                   IF Hit(k) THEN [issues[k] EXCEPT !.sprint = state.sprint[sprint]]
                   ELSE issues[k]]
  BY DEF MoveChunk
<1>3. /\ Members' = Members /\ Listed' = Listed /\ \A i \in Listed : Known(i)' <=> Known(i)
      /\ \A i : Rank(i)' = Rank(i)
  <2>1. Members' = Members
    BY <1>1 DEF Members
  <2> QED BY <1>1, <2>1 DEF Listed, Known, Rank
<1>4. \A i \in Stories : plan.sprint[i] \in Sprints => i \in Listed /\ Known(i)
  <2>1. \A i \in Stories : plan.sprint[i] \in Sprints => i \in Listed /\ i < item
    <3>1. \A i \in Stories : i < item
      BY <1>1 DEF Inv, TypeInv, TypeOK, Items, Stories
    <3> QED BY <3>1 DEF Listed, Sprints, NotListed
  <2> QED BY <1>1, <2>1 DEF Passed, Working
<1>5. ASSUME NEW i \in Stories, plan.sprint[i] \in Sprints
      PROVE  /\ state.issue[i] \in DOMAIN issues
             /\ Hit(state.issue[i]) <=> i \in Members /\ InChunk(i)
  <2>1. state.issue[i] \in 1..Len(issues) /\ issues[state.issue[i]].item = i
    BY <1>1, <1>4, <1>5, ItemFacts DEF RealIn, Known
  <2>2. ASSUME NEW j \in Members, state.issue[j] = state.issue[i] PROVE j = i
    <3>1. j \in Stories /\ plan.sprint[j] \in Sprints
      BY <1>1 DEF Members
    <3>2. issues[state.issue[j]].item = j
      BY <1>1, <1>4, <3>1, ItemFacts DEF RealIn, Known
    <3> QED BY <2>1, <2>2, <3>2
  <2> QED BY <1>1, <2>1, <2>2
<1> HIDE DEF Hit
<1>6. ASSUME NEW i \in Stories, plan.sprint[i] \in Sprints
      PROVE  issues'[state.issue[i]].sprint
               = IF i \in Members /\ InChunk(i) THEN state.sprint[sprint]
                 ELSE issues[state.issue[i]].sprint
  <2>1. issues[state.issue[i]] \in Issue
    <3>1. issues \in [1..Len(issues) -> Issue]
      BY LenProperties DEF Inv, TypeInv, TypeOK, Issue
    <3> QED BY <1>1, <1>5, <1>6, <3>1
  <2> QED BY <1>2, <1>5, <1>6, <2>1 DEF Issue
<1>7. ASSUME NEW s \in Sprints, s < sprint PROVE Filled(s)'
  <2>1. Filled(s)
    BY <1>1, <1>7 DEF Passed, Working
  <2>2. ASSUME NEW i \in Stories, plan.sprint[i] = s
        PROVE  issues'[state.issue[i]].sprint = state.sprint[s]
    <3>1. i \notin Members
      BY <1>1, <1>7, <2>2 DEF Members, Sprints
    <3> QED BY <1>6, <2>1, <2>2, <3>1 DEF Filled, Placed
  <2> QED BY <1>1, <2>1, <2>2 DEF Filled, Placed
<1>8. ASSUME NEW i \in Members, Rank(i) < (chunk + 1) * Chunk
      PROVE  issues'[state.issue[i]].sprint = state.sprint[sprint]
  <2>1. i \in Stories /\ plan.sprint[i] = sprint
    BY DEF Members
  <2>2. CASE Rank(i) < chunk * Chunk
    <3>1. issues[state.issue[i]].sprint = state.sprint[sprint]
      BY <1>1, <2>2 DEF Passed, Placed
    <3> QED BY <1>1, <1>6, <2>1, <3>1
  <2>3. CASE ~ (Rank(i) < chunk * Chunk)
    <3>1. chunk * Chunk \in Nat /\ (chunk + 1) * Chunk = chunk * Chunk + Chunk
      BY <1>1
    <3>2. InChunk(i)
      BY <1>8, <2>3, <3>1, RankBelow DEF InChunk
    <3> QED BY <1>1, <1>6, <2>1, <3>2
  <2> QED BY <2>2, <2>3
<1>9. \A i \in Members' : Rank(i)' < chunk' * Chunk => Placed(i, sprint)'
  BY <1>1, <1>3, <1>8 DEF Placed
<1> QED BY <1>1, <1>3, <1>7, <1>9 DEF Passed, Working

LEMMA MovedPassed ==
  ASSUME Inv, InStep, Passed, Moved
  PROVE  Passed'
<1>1. /\ pc = "move" /\ pc' = "sprint" /\ sprint \in Sprints /\ sprint' = sprint + 1
      /\ item \notin Items /\ chunk \in Nat /\ chunk * Chunk >= Cardinality(Members)
      /\ UNCHANGED <<issues, plan, state, item>>
  BY DEF Moved, Inv, TypeInv, TypeOK, Position, Passed, jiraVars
<1>2. Listed' = Listed /\ \A i \in Listed : Known(i)' <=> Known(i)
  BY <1>1 DEF Listed, Known
<1>3. Filled(sprint)
  <2>1. ASSUME NEW i \in Stories, plan.sprint[i] = sprint PROVE Placed(i, sprint)
    <3>1. i \in Members
      BY <2>1 DEF Members
    <3>2. chunk * Chunk \in Nat
      BY <1>1
    <3>3. Rank(i) < chunk * Chunk
      BY <1>1, <3>1, <3>2, RankBelow
    <3> QED BY <1>1, <3>1, <3>3 DEF Passed
  <2> QED BY <1>1, <2>1 DEF Filled, Passed
<1>4. ASSUME NEW s \in Sprints, s < sprint + 1 PROVE Filled(s)'
  <2>1. s < sprint \/ s = sprint
    BY <1>1, <1>4 DEF Sprints
  <2>2. Filled(s)
    BY <1>1, <1>3, <2>1 DEF Passed, Working
  <2> QED BY <1>1, <2>2 DEF Filled, Placed
<1> QED BY <1>1, <1>2, <1>4 DEF Passed, Working

LEMMA StepKeepsPassed == Inv /\ InStep /\ Passed /\ [Next]_vars => Passed'
<1> SUFFICES ASSUME Inv, InStep, Passed, [Next]_vars PROVE Passed'
  OBVIOUS
<1>1. CASE Begin
  BY <1>1 DEF Begin, Passed, Working
<1>2. CASE Load \/ LoadFails \/ Ask
  <2>1. CASE Load
    <3>1. item = 1 /\ sprint = 0 /\ pc' = "fields" /\ UNCHANGED <<item, sprint>>
      BY <2>1 DEF Load, Inv, TypeInv, Position
    <3> QED BY <3>1 DEF Passed, Listed, Epics, Stories, Sprints
  <2>2. CASE LoadFails
    BY <2>2 DEF LoadFails, Passed, Working
  <2>3. CASE Ask /\ pc = "fields"
    BY <2>3, SamePlaces DEF Ask, jiraVars, Passed, Working
  <2>4. CASE Ask /\ pc = "board"
    <3>1. /\ sprint' = 1 /\ pc' = "sprint" /\ item \notin Items
          /\ UNCHANGED <<issues, plan, state, item>>
      BY <2>4 DEF Ask, jiraVars, Passed
    <3>2. Listed' = Listed /\ \A i \in Listed : Known(i)' <=> Known(i)
      BY <3>1 DEF Listed, Known
    <3> QED BY <2>4, <3>1, <3>2 DEF Passed, Working, Sprints
  <2> QED BY <1>2, <2>1, <2>2, <2>3, <2>4 DEF Ask
<1>3. CASE Skip
  <2>1. /\ pc = "issue" /\ pc' = "issue" /\ item \in Items /\ item' = item + 1
        /\ item \notin Listed \/ Known(item)
        /\ UNCHANGED <<issues, plan, state, sprint>>
    BY <1>3 DEF Skip, jiraVars
  <2>2. \A i \in Listed : i < item + 1 => i < item \/ i = item
    BY <2>1 DEF Listed, Items, Epics, Stories
  <2> QED BY <2>1, <2>2, SamePlaces DEF Passed, Working
<1>4. CASE CreateIssue
  <2>1. /\ pc' = "created" /\ pc = "issue" /\ sprint = 0
        /\ UNCHANGED <<plan, state, item, sprint>>
    BY <1>4 DEF CreateIssue, Inv, TypeInv, Position
  <2>2. Listed' = Listed /\ \A i \in Listed : Known(i)' <=> Known(i)
    BY <2>1 DEF Listed, Known
  <2> QED BY <2>1, <2>2 DEF Passed, Working, Sprints
<1>5. CASE IssueKey
  BY <1>5, IssueKeyPassed
<1>6. CASE AllIssues
  BY <1>6, SamePlaces DEF AllIssues, jiraVars, Passed, Working
<1>7. CASE Truncate
  BY <1>7, SamePlaces DEF Truncate, jiraVars, Passed, Working
<1>8. CASE Write
  <2>1. CASE sprint = 0
    <3>1. /\ pc = "saving" /\ pc' = "issue" /\ item \in Items /\ item' = item + 1
          /\ Known(item) /\ UNCHANGED <<issues, plan, state, sprint>>
      BY <1>8, <2>1 DEF Write, Inv, TypeInv, Position, Sprints, jiraVars
    <3>2. \A i \in Listed : i < item + 1 => i < item \/ i = item
      BY <3>1 DEF Listed, Items, Epics, Stories
    <3> QED BY <2>1, <3>1, <3>2, SamePlaces DEF Passed, Working, Sprints
  <2>2. CASE sprint # 0
    <3>1. /\ pc = "saving" /\ pc' = "move" /\ chunk' = 0 /\ item' = item
          /\ UNCHANGED <<issues, plan, state, sprint>>
      BY <1>8, <2>2 DEF Write, jiraVars
    <3>2. \A i \in Members' : ~ (Rank(i)' < chunk' * Chunk)
      BY <3>1, SamePlaces, RankBelow
    <3> QED BY <2>2, <3>1, <3>2, SamePlaces DEF Passed, Working
  <2> QED BY <2>1, <2>2
<1>9. CASE CreateSprint
  BY <1>9, SamePlaces DEF CreateSprint, Passed, Working
<1>10. CASE SprintKey
  BY <1>10, SprintKeyPassed
<1>11. CASE OldSprint
  <2>1. /\ pc = "sprint" /\ pc' = "move" /\ chunk' = 0 /\ item' = item
        /\ state.sprint[sprint] # NoKey
        /\ UNCHANGED <<issues, plan, state, sprint>>
    BY <1>11 DEF OldSprint, jiraVars
  <2>2. \A i \in Members' : ~ (Rank(i)' < chunk' * Chunk)
    BY <2>1, SamePlaces, RankBelow
  <2> QED BY <2>1, <2>2, SamePlaces DEF Passed, Working
<1>12. CASE MoveChunk
  BY <1>12, MoveChunkPassed
<1>13. CASE Moved
  BY <1>13, MovedPassed
<1>14. CASE Done
  BY <1>14, SamePlaces DEF Done, jiraVars, Inv, TypeInv, Position, Passed, Working
<1>15. CASE RequestFails \/ Kill
  BY <1>15 DEF RequestFails, Kill, Halt, Passed, Working
<1>16. CASE Edit \/ UNCHANGED vars
  BY <1>16, SamePlaces DEF Edit, vars, jiraVars, runVars, Passed, Working, Placed
<1> QED
  BY <1>1, <1>2, <1>3, <1>4, <1>5, <1>6, <1>7, <1>8, <1>9, <1>10, <1>11, <1>12, <1>13,
     <1>14, <1>15, <1>16 DEF Next, RunStep

LEMMA RunInvariant == Spec => [](Inv /\ InStep /\ Passed)
<1>1. Init => Inv /\ InStep /\ Passed
  <2>1. Init => InStep /\ Passed
    BY DEF Init, InStep, Passed, Working, Resting
  <2> QED BY <2>1, Initially
<1> QED BY <1>1, StepKeepsInv, StepKeepsInStep, StepKeepsPassed, PTL DEF Spec

\* When the script says "done.", what the backlog listed is recorded and in its
\* sprint.
THEOREM FinishedComplete == Spec => []FinishedIsComplete
<1>1. ASSUME Inv, InStep, Passed PROVE FinishedIsComplete
  <2>1. SUFFICES ASSUME pc = "done" PROVE FinishedIsComplete
    BY DEF FinishedIsComplete
  <2>2. /\ state = saved /\ file # "torn" /\ item \notin Items /\ sprint \notin Sprints
        /\ sprint # 0 /\ item \in Nat /\ sprint \in Nat
        /\ \A i \in Listed : i < item => Known(i)
        /\ \A s \in Sprints : s < sprint => Filled(s)
    BY <1>1, <2>1 DEF InStep, Passed, Working, Inv, TypeInv, TypeOK
  <2>3. (\A i \in Items : i < item) /\ \A s \in Sprints : s < sprint
    BY <1>1, <2>2 DEF Items, Sprints, Inv, TypeInv, TypeOK
  <2>4. \A i \in Epics : saved.issue[i] # NoKey
    BY <2>2, <2>3, ItemFacts DEF Listed, Known
  <2>5. ASSUME NEW i \in Stories, plan.sprint[i] # NotListed
        PROVE  /\ saved.issue[i] # NoKey /\ saved.sprint[plan.sprint[i]] # NoKey
               /\ issues[saved.issue[i]].sprint = saved.sprint[plan.sprint[i]]
    <3>1. Known(i)
      BY <2>2, <2>3, <2>5, ItemFacts DEF Listed
    <3>2. plan.sprint[i] \in Sprints
      BY <1>1, <2>5 DEF Inv, TypeInv, TypeOK, Plans
    <3>3. Filled(plan.sprint[i])
      BY <2>2, <2>3, <3>2
    <3> QED BY <2>2, <3>1, <3>3 DEF Known, Filled, Placed
  <2>6. file = "whole" \/ NEpics + NStories + NSprints = 0
    <3>1. SUFFICES ASSUME file # "whole" PROVE NEpics + NStories + NSprints = 0
      OBVIOUS
    <3>2. saved = NoKeys
      BY <1>1, <3>1 DEF InStep
    <3>3. ASSUME NEpics # 0 PROVE FALSE
      <4>1. 1 \in Epics /\ 1 \in Items
        BY <3>3 DEF Epics, Items
      <4> QED BY <2>4, <3>2, <4>1 DEF NoKeys
    <3>4. ASSUME NStories # 0, NEpics = 0 PROVE FALSE
      <4>1. NEpics + 1 \in Stories
        BY <3>4 DEF Stories
      <4>2. plan.epic[NEpics + 1] \in Epics
        BY <1>1, <4>1 DEF Inv, TypeInv, TypeOK, Plans
      <4> QED BY <3>4, <4>2 DEF Epics
    <3>5. ASSUME NSprints # 0 PROVE FALSE
      <4>1. 1 \in Sprints
        BY <3>5 DEF Sprints
      <4>2. saved.sprint[1] # NoKey
        BY <2>2, <2>3, <4>1 DEF Filled
      <4> QED BY <3>2, <4>1, <4>2 DEF NoKeys
    <3> QED BY <3>3, <3>4, <3>5
  <2> QED BY <2>4, <2>5, <2>6 DEF FinishedIsComplete
<1> QED BY <1>1, RunInvariant, PTL

-----------------------------------------------------------------------------
(* What is lost to the backlog.                                            *)

LEMMA LostType ==
  ASSUME TypeOK, NEW st
  PROVE  /\ IsFiniteSet(Orphans(st)) /\ IsFiniteSet(OrphanSprints(st))
         /\ Cardinality(Orphans(st)) \in Nat /\ Cardinality(OrphanSprints(st)) \in Nat
         /\ Lost(st) \in Nat
<1>1. IsFiniteSet(1..Len(issues)) /\ IsFiniteSet(1..Len(sprints))
  BY LenProperties, FS_Interval DEF TypeOK
<1>2. Orphans(st) \in SUBSET (1..Len(issues)) /\ OrphanSprints(st) \in SUBSET (1..Len(sprints))
  BY DEF Orphans, OrphanSprints
<1>3. /\ IsFiniteSet(Orphans(st)) /\ IsFiniteSet(OrphanSprints(st))
  BY <1>1, <1>2, FS_Subset
<1> QED BY <1>3, FS_CardinalityType DEF Lost

\* A step that neither creates anything nor learns a key loses nothing.
LEMMA NothingLost ==
  ASSUME Len(issues') = Len(issues), sprints' = sprints
  PROVE  /\ state' = state => Lost(state)' = Lost(state)
         /\ saved' = saved => Lost(saved)' = Lost(saved)
BY DEF Lost, Orphans, OrphanSprints, Keys, SprintKeys

\* What is created is nobody's, until its key is entered.
LEMMA CreateLoses ==
  ASSUME Inv, CreateIssue \/ CreateSprint
  PROVE  Lost(state)' = Lost(state) + 1
<1>1. /\ Len(issues) \in Nat /\ Len(sprints) \in Nat /\ state' = state
      /\ RealIn(state, issues, sprints) /\ state \in States /\ TypeOK
  BY RealRecorded, LenProperties DEF Inv, TypeInv, TypeOK, CreateIssue, CreateSprint
<1>2. CASE CreateIssue
  <2>1. Len(issues') = Len(issues) + 1 /\ sprints' = sprints
    BY <1>2, LenProperties DEF CreateIssue, Inv, TypeInv, TypeOK
  <2>2. Len(issues) + 1 \notin Keys(state) /\ Len(issues) + 1 \notin Orphans(state)
    <3>1. \A i \in Items : state.issue[i] = NoKey \/ state.issue[i] \in 1..Len(issues)
      BY <1>1 DEF RealIn
    <3> QED BY <1>1, <3>1 DEF Keys, Orphans, NoKey
  <2>3. Orphans(state)' = Orphans(state) \cup {Len(issues) + 1}
    BY <1>1, <2>1, <2>2 DEF Orphans, Keys
  <2>4. OrphanSprints(state)' = OrphanSprints(state)
    BY <1>1, <2>1 DEF OrphanSprints, SprintKeys
  <2>5. Cardinality(Orphans(state)') = Cardinality(Orphans(state)) + 1
    BY <1>1, <2>2, <2>3, LostType, FS_AddElement
  <2> QED BY <1>1, <2>4, <2>5, LostType DEF Lost
<1>3. CASE CreateSprint
  <2>1. Len(sprints') = Len(sprints) + 1 /\ issues' = issues
    BY <1>3, LenProperties DEF CreateSprint, Inv, TypeInv, TypeOK
  <2>2. Len(sprints) + 1 \notin SprintKeys(state)
        /\ Len(sprints) + 1 \notin OrphanSprints(state)
    BY <1>1 DEF SprintKeys, OrphanSprints, RealIn, NoKey
  <2>3. OrphanSprints(state)' = OrphanSprints(state) \cup {Len(sprints) + 1}
    BY <1>1, <2>1, <2>2 DEF OrphanSprints, SprintKeys
  <2>4. Orphans(state)' = Orphans(state)
    BY <1>1, <2>1 DEF Orphans, Keys
  <2>5. Cardinality(OrphanSprints(state)') = Cardinality(OrphanSprints(state)) + 1
    BY <1>1, <2>2, <2>3, LostType, FS_AddElement
  <2> QED BY <1>1, <2>4, <2>5, LostType DEF Lost
<1> QED BY <1>2, <1>3

\* The key that a run learns is of what nobody knew of.
LEMMA KeyFinds ==
  ASSUME Inv, Passed, IssueKey \/ SprintKey
  PROVE  Lost(state)' = Lost(state) - 1
<1>1. /\ Len(issues) \in Nat /\ Len(sprints) \in Nat
      /\ RealIn(state, issues, sprints) /\ state \in States /\ TypeOK
      /\ UNCHANGED <<issues, sprints>>
  BY RealRecorded, LenProperties DEF Inv, TypeInv, TypeOK, IssueKey, SprintKey, jiraVars
<1>2. CASE IssueKey
  <2>1. /\ item \in Items /\ state.issue[item] = NoKey /\ Len(issues) > 0
        /\ issues[Len(issues)].item = item
        /\ state' = [state EXCEPT !.issue[item] = Len(issues)]
    BY <1>2 DEF IssueKey, Inv, TypeInv, Position, Fresh, Known
  <2>2. /\ state'.sprint = state.sprint
        /\ \A i \in Items : state'.issue[i] = IF i = item THEN Len(issues) ELSE state.issue[i]
    BY <1>1, <2>1 DEF States
  <2>3. Len(issues) \in Orphans(state)
    <3>1. ASSUME NEW i \in Items PROVE state.issue[i] # Len(issues)
      <4>1. state.issue[i] # NoKey => issues[state.issue[i]].item = i
        BY <1>1 DEF RealIn
      <4> QED BY <2>1, <4>1 DEF NoKey
    <3> QED BY <1>1, <2>1, <3>1 DEF Orphans, Keys
  <2>4. Orphans(state)' = Orphans(state) \ {Len(issues)}
    BY <1>1, <2>1, <2>2 DEF Orphans, Keys, NoKey
  <2>5. OrphanSprints(state)' = OrphanSprints(state)
    BY <1>1, <2>2 DEF OrphanSprints, SprintKeys
  <2>6. Cardinality(Orphans(state)') = Cardinality(Orphans(state)) - 1
    <3>1. IsFiniteSet(Orphans(state))
      BY <1>1, LostType
    <3>2. Cardinality(Orphans(state) \ {Len(issues)}) = Cardinality(Orphans(state)) - 1
      BY <2>3, <3>1, FS_RemoveElement
    <3> QED BY <2>4, <3>2
  <2> QED BY <1>1, <2>5, <2>6, LostType DEF Lost
<1>3. CASE SprintKey
  <2>1. /\ sprint \in Sprints /\ state.sprint[sprint] = NoKey /\ Len(sprints) > 0
        /\ sprints[Len(sprints)] = sprint
        /\ state' = [state EXCEPT !.sprint[sprint] = Len(sprints)]
    BY <1>3 DEF SprintKey, Inv, TypeInv, Position, Fresh, Passed
  <2>2. /\ state'.issue = state.issue
        /\ \A s \in Sprints :
             state'.sprint[s] = IF s = sprint THEN Len(sprints) ELSE state.sprint[s]
    BY <1>1, <2>1 DEF States
  <2>3. Len(sprints) \in OrphanSprints(state)
    <3>1. ASSUME NEW s \in Sprints PROVE state.sprint[s] # Len(sprints)
      <4>1. state.sprint[s] # NoKey => sprints[state.sprint[s]] = s
        BY <1>1 DEF RealIn
      <4> QED BY <2>1, <4>1 DEF NoKey
    <3> QED BY <1>1, <2>1, <3>1 DEF OrphanSprints, SprintKeys
  <2>4. OrphanSprints(state)' = OrphanSprints(state) \ {Len(sprints)}
    BY <1>1, <2>1, <2>2 DEF OrphanSprints, SprintKeys, NoKey
  <2>5. Orphans(state)' = Orphans(state)
    BY <1>1, <2>2 DEF Orphans, Keys
  <2>6. Cardinality(OrphanSprints(state)') = Cardinality(OrphanSprints(state)) - 1
    <3>1. IsFiniteSet(OrphanSprints(state))
      BY <1>1, LostType
    <3>2. Cardinality(OrphanSprints(state) \ {Len(sprints)})
            = Cardinality(OrphanSprints(state)) - 1
      BY <2>3, <3>1, FS_RemoveElement
    <3> QED BY <2>4, <3>2
  <2> QED BY <1>1, <2>5, <2>6, LostType DEF Lost
<1> QED BY <1>2, <1>3

LEMMA StepKeepsLoss ==
  Inv /\ InStep /\ Passed /\ LossInv /\ [Next]_vars => LossInv'
<1> SUFFICES ASSUME Inv, InStep, Passed, LossInv, [Next]_vars PROVE LossInv'
  OBVIOUS
<1>1. TypeOK /\ stops \in Nat /\ Lost(state) \in Nat /\ Lost(saved) \in Nat
  BY LostType DEF Inv, TypeInv, TypeOK
<1>2. CASE Begin
  <2>1. Lost(saved)' = Lost(saved) /\ pc \in {"off", "done"} /\ pc' = "load"
        /\ UNCHANGED <<file, stops>>
    BY <1>2, NothingLost DEF Begin, jiraVars, diskVars, Resting
  <2>2. pc = "done" => state = saved
    BY DEF InStep
  <2> QED BY <2>1, <2>2 DEF LossInv
<1>3. CASE Load
  <2>1. pc = "load" /\ file # "torn" /\ pc' = "fields" /\ stops' = stops
    BY <1>3 DEF Load
  <2>2. Lost(state)' = Lost(saved)
    BY <1>3 DEF Load, jiraVars, Lost, Orphans, OrphanSprints, Keys, SprintKeys
  <2> QED BY <2>1, <2>2 DEF LossInv
<1>4. CASE LoadFails \/ Ask \/ Skip \/ AllIssues
  <2>1. Lost(saved)' = Lost(saved) /\ Lost(state)' = Lost(state)
        /\ UNCHANGED <<file, stops>>
    BY <1>4, NothingLost DEF LoadFails, Ask, Skip, AllIssues, jiraVars, diskVars
  <2> QED BY <1>4, <2>1 DEF LossInv, LoadFails, Ask, Skip, AllIssues
<1>5. CASE CreateIssue \/ CreateSprint
  <2>1. /\ pc \in {"issue", "sprint"} /\ pc' \in {"created", "opened"} /\ stops' = stops
    BY <1>5 DEF CreateIssue, CreateSprint
  <2> QED BY <1>1, <1>5, <2>1, CreateLoses DEF LossInv
<1>6. CASE IssueKey \/ SprintKey
  <2>1. /\ pc \in {"created", "opened"} /\ pc' = "save" /\ stops' = stops
        /\ state = saved /\ saved' = saved
    BY <1>6 DEF IssueKey, SprintKey, InStep, diskVars
  <2>2. Lost(saved)' = Lost(saved)
    BY <1>6, <2>1, NothingLost DEF IssueKey, SprintKey, jiraVars
  <2> QED BY <1>1, <1>6, <2>1, <2>2, KeyFinds DEF LossInv
<1>7. CASE Truncate
  BY <1>7, NothingLost DEF LossInv, Truncate, jiraVars
<1>8. CASE Write
  BY <1>8, NothingLost DEF LossInv, Write, jiraVars
<1>9. CASE OldSprint \/ Moved \/ Done
  <2>1. Lost(saved)' = Lost(saved) /\ Lost(state)' = Lost(state)
        /\ UNCHANGED <<file, stops>>
    BY <1>9, NothingLost DEF OldSprint, Moved, Done, jiraVars, diskVars
  <2> QED BY <1>9, <2>1 DEF LossInv, OldSprint, Moved, Done
<1>10. CASE MoveChunk
  <2>1. pc = "move" /\ pc' = "move" /\ stops' = stops /\ state' = state /\ sprints' = sprints
    BY <1>10 DEF MoveChunk
  <2>2. Len(issues') = Len(issues)
    <3>1. /\ DOMAIN issues = 1..Len(issues) /\ DOMAIN issues' = DOMAIN issues
          /\ Len(issues) \in Nat
      BY <1>10, LenProperties DEF MoveChunk, Inv, TypeInv, TypeOK
    <3>2. TypeOK'
      BY <1>10, StepKeepsInv DEF Inv, TypeInv, Next, RunStep
    <3>3. Len(issues') \in Nat /\ DOMAIN issues' = 1..Len(issues')
      BY <3>2, LenProperties DEF TypeOK
    <3> QED BY <3>1, <3>3
  <2> QED BY <2>1, <2>2, NothingLost DEF LossInv
<1>11. CASE RequestFails \/ Kill
  <2>1. /\ pc' = "off" /\ stops' = stops + 1 /\ file' = file /\ Lost(saved)' = Lost(saved)
        /\ pc \in Pcs /\ pc \notin {"off", "done"}
    BY <1>11, NothingLost
    DEF RequestFails, Kill, Halt, jiraVars, diskVars, Resting, Inv, TypeInv, TypeOK, Pcs
  <2>2. SUFFICES ASSUME file # "torn" PROVE Lost(saved) <= stops + 1
    BY <2>1 DEF LossInv
  <2>3. CASE pc = "load" \/ pc = "save"
    BY <1>1, <2>2, <2>3 DEF LossInv
  <2>4. CASE pc \in {"fields", "issue", "created", "board", "sprint", "opened", "move"}
    <3>1. state = saved /\ Lost(state) <= stops + 1
      BY <1>1, <2>4 DEF InStep, LossInv
    <3> QED BY <3>1
  <2>5. pc # "saving"
    BY <2>2 DEF InStep
  <2> QED BY <2>1, <2>3, <2>4, <2>5 DEF Pcs, Resting
<1>12. CASE Edit \/ UNCHANGED vars
  <2>1. Lost(saved)' = Lost(saved) /\ Lost(state)' = Lost(state)
        /\ UNCHANGED <<file, stops, pc>>
    BY <1>12, NothingLost DEF Edit, vars, jiraVars, diskVars, runVars
  <2> QED BY <2>1 DEF LossInv
<1> QED
  BY <1>2, <1>3, <1>4, <1>5, <1>6, <1>7, <1>8, <1>9, <1>10, <1>11, <1>12
  DEF Next, RunStep

\* A run that is stopped leaves at most one issue or sprint behind that no later
\* run knows of; one that is not leaves none.
THEOREM OneOrphan == Spec => []OneOrphanPerStop
<1>1. Init => LossInv
  <2>1. ASSUME Init PROVE Orphans(NoKeys) = {} /\ OrphanSprints(NoKeys) = {}
    BY <2>1 DEF Init, Orphans, OrphanSprints
  <2>2. ASSUME Init PROVE Lost(saved) = 0 /\ pc = "off" /\ stops = 0
    <3>1. saved = NoKeys /\ pc = "off" /\ stops = 0
      BY <2>2 DEF Init
    <3>2. Cardinality(Orphans(saved)) = 0 /\ Cardinality(OrphanSprints(saved)) = 0
      BY <2>1, <2>2, <3>1, FS_EmptySet
    <3> QED BY <3>1, <3>2 DEF Lost
  <2> QED BY <2>2 DEF LossInv
<1>2. ASSUME Inv, InStep, LossInv PROVE OneOrphanPerStop
  <2>1. /\ TypeOK /\ stops \in Nat /\ Lost(state) \in Nat /\ Lost(saved) \in Nat
        /\ pc \in Pcs
    BY <1>2, LostType DEF Inv, TypeInv, TypeOK, Pcs, Resting
  <2>2. SUFFICES ASSUME file # "torn"
        PROVE  Lost(IF pc \in Resting \cup {"load"} THEN saved ELSE state)
                 <= stops + (IF pc \in {"created", "opened"} THEN 1 ELSE 0)
    BY DEF OneOrphanPerStop, Lost
  <2>3. CASE pc \in {"off", "load"}
    BY <1>2, <2>1, <2>2, <2>3 DEF LossInv, Resting
  <2>4. CASE pc = "done"
    BY <1>2, <2>1, <2>4 DEF LossInv, InStep, Resting
  <2>5. CASE pc \notin Resting \cup {"load"}
    BY <1>2, <2>1, <2>2, <2>5 DEF LossInv, InStep, Pcs
  <2> QED BY <2>1, <2>3, <2>4, <2>5 DEF Resting
<1> QED BY <1>1, <1>2, RunInvariant, StepKeepsLoss, PTL DEF Spec
=============================================================================
