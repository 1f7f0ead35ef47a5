------------------------------ MODULE JiraSeed ------------------------------
(***************************************************************************)
(* scripts/jira_seed.py: seed() pushes the backlog into Jira, epics, then  *)
(* stories, then sprints, and remembers each key it is given in .keys.json *)
(* so that the next run creates only what is missing.                      *)
(*                                                                         *)
(* Creating an issue and remembering it are two steps in two places, and   *)
(* the second is open(.., "w"), which empties the file, and then a write.  *)
(* A run may stop between any two of them: it is killed, Jira answers with *)
(* an error, or its answer is lost (request() then exits).  The operator   *)
(* runs the script again, and may edit the backlog at any time; a run      *)
(* works on the backlog it read when it began.                             *)
(***************************************************************************)
EXTENDS Naturals, Sequences, FiniteSets

CONSTANTS NEpics, NStories, NSprints,
          FirstPlan,   \* the backlog of the first run
          Chunk,       \* issues that one call moves (50)
          MaxRuns,     \* bound on runs
          MaxStops,    \* bound on runs that stop early
          MaxEdits     \* bound on edits of the backlog

Epics   == 1..NEpics
Stories == (NEpics + 1)..(NEpics + NStories)
Items   == 1..(NEpics + NStories)
Sprints == 1..NSprints

NotListed == 0
NoKey     == 0

ASSUME SizeAssumption == /\ NEpics \in Nat /\ NStories \in Nat /\ NSprints \in Nat
                         /\ Chunk \in Nat \ {0}

\* backlog.json: of each story its epic and its sprint, NotListed if it comes later.
Plans == [epic : [Stories -> Epics], sprint : [Stories -> Sprints \cup {NotListed}]]

ASSUME PlanAssumption  == FirstPlan \in Plans
ASSUME BoundAssumption == MaxRuns \in Nat /\ MaxStops \in Nat /\ MaxEdits \in Nat

VARIABLES
  issues,   \* Jira's issues; a key is a position, the label names a story's epic
  sprints,  \* Jira's sprints, each by the one of the backlog it is for
  file,     \* .keys.json: "missing", "torn" or "whole"
  saved,    \* what a whole file holds
  backlog,  \* backlog.json
  plan,     \* the same, as the run read it
  state,    \* the keys the run knows
  pc, item, sprint, chunk,
  runs, stops, edits

jiraVars == <<issues, sprints>>
diskVars == <<file, saved>>
runVars  == <<plan, state, pc, item, sprint, chunk>>
vars     == <<jiraVars, diskVars, backlog, runVars, runs, stops, edits>>

States == [issue : [Items -> Nat], sprint : [Sprints -> Nat]]

NoKeys == [issue  |-> [i \in Items |-> NoKey], sprint |-> [s \in Sprints |-> NoKey]]

Resting == {"off", "done"}

TypeOK ==
  /\ issues \in Seq([item : Items, label : Nat, parent : Nat, sprint : Nat])
  /\ sprints \in Seq(Sprints)
  /\ file \in {"missing", "torn", "whole"}
  /\ saved \in States /\ state \in States
  /\ backlog \in Plans /\ plan \in Plans
  /\ pc \in Resting \cup {"load", "fields", "issue", "created", "board", "sprint",
                          "opened", "save", "saving", "move"}
  /\ item \in 1..(NEpics + NStories + 1)
  /\ sprint \in 0..(NSprints + 1) /\ chunk \in Nat
  /\ runs \in 0..MaxRuns /\ stops \in 0..MaxStops /\ edits \in 0..MaxEdits

Init ==
  /\ issues = <<>> /\ sprints = <<>>
  /\ file = "missing" /\ saved = NoKeys
  /\ backlog = FirstPlan /\ plan = FirstPlan
  /\ state = NoKeys
  /\ pc = "off" /\ item = 1 /\ sprint = 0 /\ chunk = 0
  /\ runs = 0 /\ stops = 0 /\ edits = 0

-----------------------------------------------------------------------------
(* A run begins, and loads the keys.                                       *)

Begin ==
  /\ pc \in Resting /\ runs < MaxRuns
  /\ runs' = runs + 1
  /\ plan' = backlog
  /\ pc' = "load" /\ state' = NoKeys
  /\ item' = 1 /\ sprint' = 0 /\ chunk' = 0
  /\ UNCHANGED <<jiraVars, diskVars, backlog, stops, edits>>

\* load_state(); of a missing file, no keys.
Load ==
  /\ pc = "load" /\ file # "torn"
  /\ state' = saved
  /\ pc' = "fields"
  /\ UNCHANGED <<jiraVars, diskVars, backlog, plan, item, sprint, chunk,
                 runs, stops, edits>>

\* Mutant: nobody looks whether there is a file.
LoadFails_NoFile ==
  /\ pc = "load" /\ file # "whole"
  /\ pc' = "off"
  /\ UNCHANGED <<jiraVars, diskVars, backlog, plan, state, item, sprint, chunk,
                 runs, stops, edits>>

\* json.loads() of half a file raises.
LoadFails ==
  /\ pc = "load" /\ file = "torn"
  /\ pc' = "off"
  /\ UNCHANGED <<jiraVars, diskVars, backlog, plan, state, item, sprint, chunk,
                 runs, stops, edits>>

\* story_points_field() and board_id() only read.
Ask ==
  /\ \/ pc = "fields" /\ pc' = "issue" /\ UNCHANGED sprint
     \/ pc = "board" /\ pc' = "sprint" /\ sprint' = 1
  /\ UNCHANGED <<jiraVars, diskVars, backlog, plan, state, item, chunk,
                 runs, stops, edits>>

-----------------------------------------------------------------------------
(* The loops over the epics and the stories.                               *)

Listed == Epics \cup {i \in Stories : plan.sprint[i] # NotListed}

Known(i) == state.issue[i] # NoKey

Skip ==
  /\ pc = "issue" /\ item \in Items
  /\ item \notin Listed \/ Known(item)
  /\ item' = item + 1
  /\ UNCHANGED <<jiraVars, diskVars, backlog, plan, state, pc, sprint, chunk,
                 runs, stops, edits>>

\* Mutant: a story hangs under the first issue Jira finds for its epic.
ParentKey_Found(i) ==
  IF i \in Epics THEN NoKey
  ELSE CHOOSE k \in 1..Len(issues) :
         /\ issues[k].item = plan.epic[i]
         /\ \A l \in 1..Len(issues) : issues[l].item = plan.epic[i] => k <= l

ParentKey(i) == IF i \in Epics THEN NoKey ELSE state.issue[plan.epic[i]]

Label(i) == IF i \in Epics THEN NotListed ELSE plan.epic[i]

\* POST /issue, up to Jira's side of it.
CreateIssue ==
  /\ pc = "issue" /\ item \in Items
  /\ item \in Listed /\ ~ Known(item)
  /\ issues' = Append(issues, [item |-> item, label |-> Label(item),
                               parent |-> ParentKey(item), sprint |-> NoKey])
  /\ pc' = "created"
  /\ UNCHANGED <<sprints, diskVars, backlog, plan, state, item, sprint, chunk,
                 runs, stops, edits>>

\* ... and its answer.
IssueKey ==
  /\ pc = "created"
  /\ state' = [state EXCEPT !.issue[item] = Len(issues)]
  /\ pc' = "save"
  /\ UNCHANGED <<jiraVars, diskVars, backlog, plan, item, sprint, chunk,
                 runs, stops, edits>>

AllIssues ==
  /\ pc = "issue" /\ item \notin Items
  /\ pc' = "board"
  /\ UNCHANGED <<jiraVars, diskVars, backlog, plan, state, item, sprint, chunk,
                 runs, stops, edits>>

-----------------------------------------------------------------------------
(* save_state(), in both loops.                                            *)

Truncate ==
  /\ pc = "save"
  /\ file' = "torn" /\ saved' = NoKeys
  /\ pc' = "saving"
  /\ UNCHANGED <<jiraVars, backlog, plan, state, item, sprint, chunk,
                 runs, stops, edits>>

\* Mutant: the keys of the stories are saved when all of them are there.
Write_AtTheEnd ==
  /\ pc = "saving"
  /\ file' = "whole"
  /\ saved' = IF sprint = 0 /\ item \in Stories /\ item + 1 \in Items
              THEN [state EXCEPT !.issue =
                      [i \in Items |-> IF i \in Epics THEN state.issue[i] ELSE NoKey]]
              ELSE state
  /\ IF sprint = 0
     THEN pc' = "issue" /\ item' = item + 1 /\ UNCHANGED chunk
     ELSE pc' = "move" /\ chunk' = 0 /\ UNCHANGED item
  /\ UNCHANGED <<jiraVars, backlog, plan, state, sprint, runs, stops, edits>>

Write ==
  /\ pc = "saving"
  /\ file' = "whole" /\ saved' = state
  /\ IF sprint = 0
     THEN pc' = "issue" /\ item' = item + 1 /\ UNCHANGED chunk
     ELSE pc' = "move" /\ chunk' = 0 /\ UNCHANGED item
  /\ UNCHANGED <<jiraVars, backlog, plan, state, sprint, runs, stops, edits>>

-----------------------------------------------------------------------------
(* The loop over the sprints.                                              *)

CreateSprint ==
  /\ pc = "sprint" /\ sprint \in Sprints
  /\ state.sprint[sprint] = NoKey
  /\ sprints' = Append(sprints, sprint)
  /\ pc' = "opened"
  /\ UNCHANGED <<issues, diskVars, backlog, plan, state, item, sprint, chunk,
                 runs, stops, edits>>

SprintKey ==
  /\ pc = "opened"
  /\ state' = [state EXCEPT !.sprint[sprint] = Len(sprints)]
  /\ pc' = "save"
  /\ UNCHANGED <<jiraVars, diskVars, backlog, plan, item, sprint, chunk,
                 runs, stops, edits>>

OldSprint ==
  /\ pc = "sprint" /\ sprint \in Sprints
  /\ state.sprint[sprint] # NoKey
  /\ pc' = "move" /\ chunk' = 0
  /\ UNCHANGED <<jiraVars, diskVars, backlog, plan, state, item, sprint,
                 runs, stops, edits>>

\* The stories of the sprint, in chunks: chunk c is keys[c * 50 : (c + 1) * 50].
Members     == {i \in Stories : plan.sprint[i] = sprint}
Rank(i)     == Cardinality({j \in Members : j < i})
InChunk(i)  == Rank(i) \in (chunk * Chunk)..(chunk * Chunk + Chunk - 1)

\* Mutant: one call moves the first 50.
MoveChunk_Once ==
  /\ pc = "move" /\ chunk = 0 /\ Members # {}
  /\ issues' = [k \in DOMAIN issues |->
                  IF \E i \in Members : InChunk(i) /\ state.issue[i] = k
                  THEN [issues[k] EXCEPT !.sprint = state.sprint[sprint]]
                  ELSE issues[k]]
  /\ chunk' = Cardinality(Members)
  /\ UNCHANGED <<sprints, diskVars, backlog, plan, state, pc, item, sprint,
                 runs, stops, edits>>

\* POST /sprint/{id}/issue: an issue is in one sprint at a time.
MoveChunk ==
  /\ pc = "move" /\ chunk * Chunk < Cardinality(Members)
  /\ issues' = [k \in DOMAIN issues |->
                  IF \E i \in Members : InChunk(i) /\ state.issue[i] = k
                  THEN [issues[k] EXCEPT !.sprint = state.sprint[sprint]]
                  ELSE issues[k]]
  /\ chunk' = chunk + 1
  /\ UNCHANGED <<sprints, diskVars, backlog, plan, state, pc, item, sprint,
                 runs, stops, edits>>

Moved ==
  /\ pc = "move" /\ chunk * Chunk >= Cardinality(Members)
  /\ pc' = "sprint" /\ sprint' = sprint + 1
  /\ UNCHANGED <<jiraVars, diskVars, backlog, plan, state, item, chunk,
                 runs, stops, edits>>

Done ==
  /\ pc = "sprint" /\ sprint \notin Sprints
  /\ pc' = "done"
  /\ UNCHANGED <<jiraVars, diskVars, backlog, plan, state, item, sprint, chunk,
                 runs, stops, edits>>

-----------------------------------------------------------------------------
(* What may come between any two steps.                                    *)

Halt ==
  /\ stops < MaxStops /\ stops' = stops + 1
  /\ pc' = "off"
  /\ UNCHANGED <<jiraVars, diskVars, backlog, plan, state, item, sprint, chunk,
                 runs, edits>>

\* request() exits on an error and on a timeout: before Jira has done anything,
\* or after, when its answer is lost.
RequestFails ==
  /\ pc \in {"fields", "issue", "created", "board", "sprint", "opened", "move"}
  /\ Halt

Kill == pc \notin Resting /\ Halt

\* The operator adds a story to the backlog or moves one to another sprint or epic.
Edit ==
  /\ edits < MaxEdits /\ edits' = edits + 1
  /\ \E i \in Stories :
       \/ \E s \in Sprints : /\ backlog.sprint[i] # s
                             /\ backlog' = [backlog EXCEPT !.sprint[i] = s]
       \/ \E e \in Epics : /\ backlog.epic[i] # e
                           /\ backlog' = [backlog EXCEPT !.epic[i] = e]
  /\ UNCHANGED <<jiraVars, diskVars, runVars, runs, stops>>

RunStep ==
  \/ Load \/ LoadFails \/ Ask
  \/ Skip \/ CreateIssue \/ IssueKey \/ AllIssues
  \/ Truncate \/ Write
  \/ CreateSprint \/ SprintKey \/ OldSprint \/ MoveChunk \/ Moved \/ Done

Next == Begin \/ RunStep \/ RequestFails \/ Kill \/ Edit

Spec == Init /\ [][Next]_vars

\* Python runs on, Jira answers or times out (timeout=60), and the operator
\* runs the script until it has once ended well.
FairSpec == Spec /\ WF_vars(RunStep) /\ WF_vars(pc = "off" /\ Begin)

-----------------------------------------------------------------------------
(* Properties.                                                             *)

\* Issue k, made for i, hangs under the issue st has for the epic its label names.
InItsPlace(k, i, st) ==
  IF i \in Epics THEN issues[k].parent = NoKey
  ELSE /\ issues[k].label \in Epics
       /\ issues[k].parent = st.issue[issues[k].label] /\ issues[k].parent # NoKey

\* The keys st holds are those of issues and sprints that are there, made for
\* that very item, and a story's issue is under its epic's.
Faithful(st) ==
  /\ \A i \in Items : st.issue[i] # NoKey =>
       /\ st.issue[i] \in 1..Len(issues)
       /\ issues[st.issue[i]].item = i
       /\ InItsPlace(st.issue[i], i, st)
  /\ \A s \in Sprints : st.sprint[s] # NoKey =>
       /\ st.sprint[s] \in 1..Len(sprints)
       /\ sprints[st.sprint[s]] = s

\* Whatever stopped the runs before, and however the backlog has been edited, no
\* recorded story is left under a duplicate of an epic, and no key names
\* somebody else's issue.
RecordedIsReal == Faithful(saved) /\ Faithful(state)

Keys(st)          == {st.issue[i] : i \in Items}
SprintKeys(st)    == {st.sprint[s] : s \in Sprints}
Orphans(st)       == (1..Len(issues)) \ Keys(st)
OrphanSprints(st) == (1..Len(sprints)) \ SprintKeys(st)

\* "Only the missing issues are created": a run that is stopped leaves at most
\* one issue or sprint in Jira that no later run will know of, and a run that
\* is not leaves none.
OneOrphanPerStop ==
  file # "torn" =>
    LET st == IF pc \in Resting \cup {"load"} THEN saved ELSE state
    IN  Cardinality(Orphans(st)) + Cardinality(OrphanSprints(st))
          <= stops + (IF pc \in {"created", "opened"} THEN 1 ELSE 0)

\* "done.": every story the backlog listed when the run began is recorded, and
\* is in the sprint the backlog has it in, wherever earlier runs had put it.
FinishedIsComplete ==
  pc = "done" =>
    /\ file = "whole" \/ (NEpics + NStories + NSprints = 0)
    /\ \A i \in Epics : saved.issue[i] # NoKey
    /\ \A i \in Stories : plan.sprint[i] # NotListed =>
         /\ saved.issue[i] # NoKey /\ saved.sprint[plan.sprint[i]] # NoKey
         /\ issues[saved.issue[i]].sprint = saved.sprint[plan.sprint[i]]

\* Run often enough, the script ends well whatever has stopped it before,
\* unless it was killed while it wrote .keys.json, after which no run starts.
ResumesUnlessTorn == <>(pc = "done" \/ (file = "torn" /\ pc = "off"))
=============================================================================
