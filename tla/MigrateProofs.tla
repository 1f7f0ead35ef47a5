---------------------------- MODULE MigrateProofs ---------------------------
(***************************************************************************)
(* Proofs about Migrate, for any number of runners, files, runs, attempts  *)
(* and changes.                                                           *)
(*                                                                         *)
(* The types are inductive together with two facts about where a runner    *)
(* is: between reading a file and committing it, it is at a file that      *)
(* exists in its list and holds SQL it has read (AtFile), and a runner     *)
(* still waiting for Postgres has an attempt left (Waiting).  That a file  *)
(* is applied once rests on the primary key alone: the transaction commits *)
(* only over an empty record.                                              *)
(*                                                                         *)
(* What the schema owes to the files is an invariant of each run (Run) and *)
(* of the database (Db): a run goes past a file only once it is on record  *)
(* or has been away, and what it commits therefore has all its elders      *)
(* before it.  A change of the files is seen in `changes', so a run over   *)
(* files nobody changed may be told from any other (Undisturbed).          *)
(***************************************************************************)
EXTENDS Migrate, FiniteSetTheorems, SequenceTheorems, TLAPS

USE NFilesAssumption, AttemptsAssumption, BoundsAssumption

AtFile ==
  \A r \in Runners : pc[r] \in {"sum", "query", "apply"} =>
    file[r] \in Files /\ sql[r] \in Versions

Waiting == \A r \in Runners : pc[r] = "wait" => attempts[r] < MaxAttempts

Inv == TypeOK /\ AtFile /\ Waiting

-----------------------------------------------------------------------------
\* What one step can do to the database: nothing to its history, or a commit
\* of one runner's file.
StepCommits(r) == pc[r] = "apply" /\ file[r] \in Files /\ Commit(file[r], r)

HistoryStays == UNCHANGED <<recorded, applied>>

LEMMA HistoryStep ==
  ASSUME AtFile, [Next]_vars
  PROVE  HistoryStays \/ \E r \in Runners : StepCommits(r)
<1> USE DEF HistoryStays, dbVars
<1>1. CASE UNCHANGED vars
  BY <1>1 DEF vars
<1>2. ASSUME NEW r \in Runners, RunnerStep(r)
      PROVE  HistoryStays \/ StepCommits(r)
  <2>1. CASE Apply(r) \/ ApplyUnheard(r)
    BY <2>1 DEF Apply, ApplyUnheard, AtFile, StepCommits
  <2>2. CASE IsReady(r) \/ NotReady(r) \/ TableExists(r) \/ TableMissing(r)
             \/ CreateTable(r) \/ TableConflict(r) \/ Glob(r)
    BY <2>2 DEF IsReady, NotReady, TableExists, TableMissing, CreateTable,
                TableConflict, Exit, Glob
  <2>3. CASE Finish(r) \/ Skip(r) \/ Cat(r) \/ CatFails(r) \/ Md5sum(r)
    BY <2>3 DEF Finish, Skip, Cat, CatFails, Exit, Md5sum
  <2>4. CASE Applied(r) \/ Changed(r) \/ NotRecorded(r) \/ Conflict(r)
             \/ PsqlFails(r)
    BY <2>4 DEF Goto, Applied, Changed, NotRecorded, Conflict, PsqlFails, Exit
  <2> QED BY <1>2, <2>1, <2>2, <2>3, <2>4 DEF RunnerStep
<1>3. ASSUME NEW r \in Runners, Rerun(r) PROVE HistoryStays
  BY <1>3 DEF Rerun
<1>4. ASSUME Toggle PROVE HistoryStays
  BY <1>4 DEF Toggle
<1>5. ASSUME NEW f \in Files, Edit(f) \/ Vanish(f) \/ Reappear(f)
      PROVE  HistoryStays
  BY <1>5 DEF Edit, Vanish, Reappear, Change
<1> QED BY <1>1, <1>2, <1>3, <1>4, <1>5 DEF Next

-----------------------------------------------------------------------------
LEMMA InitInv == Init => Inv
<1> SUFFICES ASSUME Init PROVE Inv
  OBVIOUS
<1>1. TypeOK
  <2> USE DEF Init, Versions, Files, Absent, Steps, Ended
  <2>1. /\ content \in [Files -> {Absent} \cup Versions] 
        /\ changes \in 0..(MaxChanges + 1) /\ gone \subseteq Files
    OBVIOUS
  <2>2. recorded \in [Files -> SUBSET ({Absent} \cup Versions)]
    OBVIOUS
  <2>3. applied \in [Files -> Seq(Versions)]
    OBVIOUS
  <2>4. pc \in [Runners -> Steps] /\ file \in [Runners -> 1..(NFiles + 1)]
    OBVIOUS
  <2>5. /\ listed \in [Runners -> SUBSET Files]
        /\ attempts \in [Runners -> 0..MaxAttempts]
    OBVIOUS
  <2>6. /\ sql \in [Runners -> {Absent} \cup Versions]
        /\ sum \in [Runners -> {Absent} \cup Versions]
    OBVIOUS
  <2>7. runs \in [Runners -> 1..MaxRuns] /\ since \in [Runners -> Beginnings]
    BY DEF Beginnings
  <2> QED BY <2>1, <2>2, <2>3, <2>4, <2>5, <2>6, <2>7 DEF TypeOK
<1>2. AtFile /\ Waiting
  BY DEF Init, AtFile, Waiting
<1> QED BY <1>1, <1>2 DEF Inv

\* Going on to the next file keeps the invariant: it is at most one past the
\* last file, and nothing is claimed of a runner between two files.
LEMMA NextFileInv ==
  ASSUME Inv, NEW r \in Runners, file[r] \in Files, NextFile(r),
         UNCHANGED <<fileVars, dbVars, listed, attempts, sql, sum, runVars>>
  PROVE  Inv'
<1> USE DEF Inv, TypeOK, AtFile, Waiting, NextFile, Goto, fileVars, dbVars, runVars
<1>1. file' \in [Runners -> 1..(NFiles + 1)]
  BY DEF Files
<1>2. pc' \in [Runners -> Steps]
  BY DEF Steps, Ended
<1>3. TypeOK'
  BY <1>1, <1>2
<1>4. AtFile' /\ Waiting'
  OBVIOUS
<1> QED BY <1>3, <1>4

LEMMA StepInv == Inv /\ [Next]_vars => Inv'
<1> SUFFICES ASSUME Inv, [Next]_vars PROVE Inv'
  OBVIOUS
<1> USE DEF Inv, TypeOK, AtFile, Waiting, Goto, fileVars, dbVars, shellVars,
            runVars, Steps, Ended
<1>1. CASE UNCHANGED vars
  BY <1>1 DEF vars
<1>2. ASSUME NEW r \in Runners, RunnerStep(r) PROVE Inv'
  <2>1. CASE IsReady(r)
    BY <2>1 DEF IsReady
  <2>2. CASE NotReady(r)
    BY <2>2 DEF NotReady
  <2>3. CASE TableExists(r) \/ TableMissing(r)
    BY <2>3 DEF TableExists, TableMissing
  <2>4. CASE CreateTable(r)
    BY <2>4 DEF CreateTable
  <2>5. CASE TableConflict(r) \/ CatFails(r) \/ Changed(r) \/ Conflict(r)
    <3>1. Exit(r)
      BY <2>5 DEF TableConflict, CatFails, Changed, Conflict
    <3> QED BY <3>1 DEF Exit
  <2>6. CASE Glob(r)
    BY <2>6 DEF Glob
  <2>7. CASE Finish(r)
    BY <2>7 DEF Finish
  <2>8. CASE Skip(r)
    <3>1. file[r] \in Files /\ NextFile(r)
      BY <2>8 DEF Skip
    <3> QED BY <2>8, <3>1, NextFileInv DEF Skip
  <2>9. CASE Cat(r)
    BY <2>9 DEF Cat
  <2>10. CASE Md5sum(r)
    BY <2>10 DEF Md5sum
  <2>11. CASE Applied(r)
    <3>1. file[r] \in Files /\ NextFile(r)
      BY <2>11 DEF Applied
    <3> QED BY <2>11, <3>1, NextFileInv DEF Applied
  <2>12. CASE NotRecorded(r)
    BY <2>12 DEF NotRecorded
  <2>13. CASE Apply(r)
    <3>1. file[r] \in Files /\ sql[r] \in Versions
      BY <2>13 DEF Apply
    <3>2. /\ recorded' \in [Files -> SUBSET ({Absent} \cup Versions)]
          /\ applied' \in [Files -> Seq(Versions)]
      BY <2>13, <3>1 DEF Apply, Commit
    <3>3. /\ pc' \in [Runners -> Steps] /\ file' \in [Runners -> 1..(NFiles + 1)]
      BY <2>13, <3>1 DEF Apply, NextFile, Files
    <3>4. TypeOK'
      BY <2>13, <3>2, <3>3 DEF Apply
    <3>5. AtFile' /\ Waiting'
      BY <2>13 DEF Apply, NextFile
    <3> QED BY <3>4, <3>5
  <2>14. CASE ApplyUnheard(r)
    BY <2>14 DEF ApplyUnheard, Commit
  <2>15. CASE PsqlFails(r)
    BY <2>15 DEF PsqlFails
  <2> QED BY <1>2, <2>1, <2>2, <2>3, <2>4, <2>5, <2>6, <2>7, <2>8, <2>9, <2>10,
             <2>11, <2>12, <2>13, <2>14, <2>15 DEF RunnerStep
<1>3. ASSUME NEW r \in Runners, Rerun(r) PROVE Inv'
  <2>1. /\ runs' \in [Runners -> 1..MaxRuns] /\ since' \in [Runners -> Beginnings]
        /\ attempts' \in [Runners -> 0..MaxAttempts]
    BY <1>3 DEF Rerun, Beginnings
  <2>2. /\ pc' \in [Runners -> Steps] /\ file' \in [Runners -> 1..(NFiles + 1)]
        /\ listed' \in [Runners -> SUBSET Files]
    BY <1>3 DEF Rerun
  <2>3. /\ sql' \in [Runners -> {Absent} \cup Versions]
        /\ sum' \in [Runners -> {Absent} \cup Versions]
    BY <1>3 DEF Rerun
  <2>4. TypeOK'
    BY <1>3, <2>1, <2>2, <2>3 DEF Rerun
  <2>5. AtFile' /\ Waiting'
    BY <1>3 DEF Rerun
  <2> QED BY <2>4, <2>5
<1>4. ASSUME Toggle PROVE Inv'
  BY <1>4 DEF Toggle
<1>5. ASSUME NEW f \in Files, Edit(f) PROVE Inv'
  BY <1>5 DEF Edit, Change, Versions
<1>6. ASSUME NEW f \in Files, Vanish(f) PROVE Inv'
  BY <1>6 DEF Vanish, Change
<1>7. ASSUME NEW f \in Files, Reappear(f) PROVE Inv'
  BY <1>7 DEF Reappear, Change, Versions
<1> QED BY <1>1, <1>2, <1>3, <1>4, <1>5, <1>6, <1>7 DEF Next

LEMMA Invariance == Spec => []Inv
BY InitInv, StepInv, PTL DEF Spec

\* Every variable of the runner keeps its type: a runner never counts past its
\* attempts, commits only SQL it has read, and never walks past its list.
THEOREM TypeCorrect == Spec => []TypeOK
BY Invariance, PTL DEF Inv

-----------------------------------------------------------------------------
LEMMA CommitOnce ==
  ASSUME TypeOK, AppliedOnceAndRecorded, NEW r \in Runners, StepCommits(r)
  PROVE  AppliedOnceAndRecorded'
<1> SUFFICES ASSUME NEW f \in Files
             PROVE  /\ Len(applied'[f]) = Cardinality(recorded'[f])
                    /\ Len(applied'[f]) <= 1
  BY DEF AppliedOnceAndRecorded
<1>1. CASE f # file[r]
  BY <1>1 DEF StepCommits, Commit, TypeOK, AppliedOnceAndRecorded
<1>2. CASE f = file[r]
  <2>1. /\ applied'[f] = Append(applied[f], sql[r])
        /\ recorded'[f] = {sum[r]} /\ recorded[f] = {}
    BY <1>2 DEF StepCommits, Commit, TypeOK
  <2>2. Len(applied[f]) = 0
    BY <2>1, FS_EmptySet DEF AppliedOnceAndRecorded
  <2>3. Len(applied'[f]) = 1
    BY <2>1, <2>2 DEF TypeOK
  <2>4. Cardinality(recorded'[f]) = 1
    BY <2>1, FS_Singleton
  <2> QED BY <2>3, <2>4
<1> QED BY <1>1, <1>2

\* A migration is committed at most once, and recorded exactly when it is, with
\* any number of runners overlapping in any way, psql failing before or after
\* the server's commit, and files edited or unlinked between any two commands.
THEOREM AppliedOnce == Spec => []AppliedOnceAndRecorded
<1>1. Init => AppliedOnceAndRecorded
  BY FS_EmptySet DEF Init, AppliedOnceAndRecorded
<1>2. Inv /\ AppliedOnceAndRecorded /\ [Next]_vars => AppliedOnceAndRecorded'
  <2> SUFFICES ASSUME Inv, AppliedOnceAndRecorded, [Next]_vars
               PROVE  AppliedOnceAndRecorded'
    OBVIOUS
  <2>1. CASE HistoryStays
    BY <2>1 DEF HistoryStays, AppliedOnceAndRecorded
  <2>2. CASE \E r \in Runners : StepCommits(r)
    BY <2>2, CommitOnce DEF Inv
  <2> QED BY <2>1, <2>2, HistoryStep DEF Inv
<1> QED BY <1>1, <1>2, Invariance, PTL DEF Spec

\* The record of a committed migration, and what was committed under it, are
\* never written again.
THEOREM HistoryImmutable == Spec => HistoryIsImmutable
<1> DEFINE Kept == \A f \in Files : recorded[f] # {} =>
                     recorded'[f] = recorded[f] /\ applied'[f] = applied[f]
<1>1. Inv /\ [Next]_vars => [Kept]_vars
  <2> SUFFICES ASSUME Inv, [Next]_vars PROVE Kept
    OBVIOUS
  <2>1. CASE HistoryStays
    BY <2>1 DEF HistoryStays
  <2>2. ASSUME NEW r \in Runners, StepCommits(r) PROVE Kept
    BY <2>2 DEF StepCommits, Commit, Inv, TypeOK
  <2> QED BY <2>1, <2>2, HistoryStep DEF Inv
<1> QED BY <1>1, Invariance, PTL DEF Spec, HistoryIsImmutable

-----------------------------------------------------------------------------
(* Every run ends, but for ENABLED: no step but those of the runner, and of  *)
(* the operator who runs it again, touches what Left depends on.             *)

Place(r) == <<pc[r], file[r], listed[r], attempts[r], sum[r], since[r]>>

LEMMA LeftOfPlace ==
  ASSUME NEW r \in Runners, Place(r)' = Place(r)
  PROVE  Left(r)' = Left(r)
BY DEF Left, Place

\* The four ways a runner moves: it ends, it tries again, it goes on in the
\* script, or it goes on to the next file.
Ends(r)   == pc[r] \notin Ended /\ pc'[r] \in Ended
Retries(r) == /\ pc[r] = "wait" /\ pc'[r] = "wait" /\ file'[r] = file[r]
              /\ attempts'[r] = attempts[r] + 1
Forward   == {<<"wait", "table">>, <<"table", "glob">>, <<"table", "create">>,
              <<"create", "glob">>, <<"glob", "file">>, <<"file", "sum">>,
              <<"sum", "query">>, <<"query", "apply">>}
GoesOn(r) == /\ <<pc[r], pc'[r]>> \in Forward
             /\ file'[r] = file[r] /\ attempts'[r] = attempts[r]
Nexts(r)  == /\ pc[r] \in {"file", "query", "apply"} /\ pc'[r] = "file"
             /\ file'[r] = file[r] + 1 /\ attempts'[r] = attempts[r]

LEMMA Moves ==
  ASSUME Inv, NEW r \in Runners, RunnerStep(r)
  PROVE  Ends(r) \/ Retries(r) \/ GoesOn(r) \/ Nexts(r)
<1> USE DEF Inv, TypeOK, Goto, shellVars, Ended, Steps
<1>1. CASE IsReady(r)
  BY <1>1 DEF IsReady, GoesOn, Forward
<1>2. CASE NotReady(r)
  BY <1>2 DEF NotReady, Retries, Ends
<1>3. CASE TableExists(r) \/ TableMissing(r) \/ CreateTable(r) \/ Glob(r)
  BY <1>3 DEF TableExists, TableMissing, CreateTable, Glob, GoesOn, Forward
<1>4. CASE TableConflict(r) \/ CatFails(r) \/ Changed(r) \/ Conflict(r) \/ Finish(r)
  BY <1>4 DEF TableConflict, CatFails, Changed, Conflict, Finish, Exit, Ends
<1>5. CASE Cat(r) \/ Md5sum(r) \/ NotRecorded(r)
  BY <1>5 DEF Cat, Md5sum, NotRecorded, GoesOn, Forward
<1>6. CASE Skip(r) \/ Applied(r) \/ Apply(r)
  BY <1>6 DEF Skip, Applied, Apply, NextFile, Nexts
<1>7. CASE ApplyUnheard(r) \/ PsqlFails(r)
  BY <1>7 DEF ApplyUnheard, PsqlFails, Ends
<1> QED BY <1>1, <1>2, <1>3, <1>4, <1>5, <1>6, <1>7 DEF RunnerStep

LEMMA StepShrinks ==
  ASSUME Inv, NEW r \in Runners, RunnerStep(r)
  PROVE  Left(r)' < Left(r)
<1>1. /\ file[r] \in 1..(NFiles + 1) /\ attempts[r] \in 0..MaxAttempts
      /\ pc[r] \in Steps
      /\ pc[r] = "wait" => attempts[r] < MaxAttempts
  BY DEF Inv, TypeOK, Waiting
<1>2. CASE Ends(r)
  BY <1>1, <1>2 DEF Ends, Left, ToTheEnd, Ended, Steps
<1>3. CASE Retries(r)
  BY <1>1, <1>3 DEF Retries, Left, ToTheEnd, Ended
<1>4. CASE GoesOn(r)
  <2>1. pc[r] \notin Ended /\ pc'[r] \notin Ended
    BY <1>4 DEF GoesOn, Forward, Ended
  <2> QED BY <1>1, <1>4, <2>1 DEF GoesOn, Forward, Left, ToTheEnd
<1>5. CASE Nexts(r)
  BY <1>1, <1>5 DEF Nexts, Left, ToTheEnd, Ended
<1> QED BY <1>2, <1>3, <1>4, <1>5, Moves

\* A step of one runner does not move another.
LEMMA OthersStay ==
  ASSUME Inv, NEW r \in Runners, NEW o \in Runners \ {r}, RunnerStep(o) \/ Rerun(o)
  PROVE  Place(r)' = Place(r)
<1> USE DEF Inv, TypeOK, Goto, shellVars, runVars, Place
<1>1. CASE IsReady(o) \/ NotReady(o) \/ TableExists(o) \/ TableMissing(o)
           \/ CreateTable(o) \/ TableConflict(o) \/ Glob(o)
  BY <1>1 DEF IsReady, NotReady, TableExists, TableMissing, CreateTable,
              TableConflict, Exit, Glob
<1>2. CASE Finish(o) \/ Cat(o) \/ CatFails(o) \/ Md5sum(o) \/ Changed(o)
           \/ NotRecorded(o) \/ Conflict(o)
  BY <1>2 DEF Finish, Cat, CatFails, Exit, Md5sum, Changed, NotRecorded, Conflict
<1>3. CASE Skip(o) \/ Applied(o) \/ Apply(o)
  BY <1>3 DEF Skip, Applied, Apply, NextFile
<1>4. CASE ApplyUnheard(o) \/ PsqlFails(o)
  BY <1>4 DEF ApplyUnheard, PsqlFails
<1>5. CASE Rerun(o)
  BY <1>5 DEF Rerun
<1> QED BY <1>1, <1>2, <1>3, <1>4, <1>5 DEF RunnerStep

\* Every step of migrate.sh leaves the run with fewer steps to take, and nothing
\* else that happens gives it more, for any number of files and attempts.
THEOREM RunsShrink ==
  Spec => [][\A r \in Runners :
               /\ Left(r)' # Left(r) => Left(r)' < Left(r) \/ pc[r] \in Ended
               /\ RunnerStep(r) => Left(r)' < Left(r)]_vars
<1> DEFINE Shrinks(r) == /\ Left(r)' # Left(r) => Left(r)' < Left(r) \/ pc[r] \in Ended
                         /\ RunnerStep(r) => Left(r)' < Left(r)
<1>1. Inv /\ [Next]_vars => [\A r \in Runners : Shrinks(r)]_vars
  <2> SUFFICES ASSUME Inv, Next, NEW r \in Runners PROVE Shrinks(r)
    OBVIOUS
  <2>1. CASE RunnerStep(r)
    BY <2>1, StepShrinks
  <2>2. CASE Rerun(r)
    <3>1. pc[r] \in Ended
      BY <2>2 DEF Rerun
    <3> QED BY <3>1, StepShrinks
  <2>3. CASE Place(r)' = Place(r)
    BY <2>3, LeftOfPlace, StepShrinks
  <2>4. ASSUME NEW o \in Runners \ {r}, RunnerStep(o) \/ Rerun(o)
        PROVE  Place(r)' = Place(r)
    BY <2>4, OthersStay
  <2>5. ASSUME Toggle PROVE Place(r)' = Place(r)
    BY <2>5 DEF Toggle, shellVars, runVars, Place
  <2>6. ASSUME NEW f \in Files, Edit(f) \/ Vanish(f) \/ Reappear(f)
        PROVE  Place(r)' = Place(r)
    BY <2>6 DEF Edit, Vanish, Reappear, Change, shellVars, runVars, Place
  <2> QED BY <2>1, <2>2, <2>3, <2>4, <2>5, <2>6 DEF Next
<1> QED BY <1>1, Invariance, PTL DEF Spec
-----------------------------------------------------------------------------
(* The schema and the files.  What a run has passed is on record, unless it  *)
(* was away; and while no file has changed since the run began, what it has  *)
(* listed, read and passed is what there is (Undisturbed).                   *)

InLoop == {"file", "sum", "query", "apply"}

Undisturbed(r) ==
  /\ pc[r] \in InLoop => listed[r] = {f \in Files : content[f] # Absent}
  /\ pc[r] \in {"sum", "query", "apply"} => content[file[r]] # Absent
  /\ pc[r] \in {"query", "apply"} => sum[r] = content[file[r]]
  /\ \A f \in Files : f < file[r] /\ content[f] # Absent => recorded[f] = {content[f]}
  /\ pc[r] = "failed" /\ attempts[r] < MaxAttempts =>
       \/ table /\ ~ since[r].table
       \/ /\ file[r] \in Files /\ recorded[file[r]] # {}
          /\ \/ file[r] \notin since[r].recorded
             \/ recorded[file[r]] # {content[file[r]]}

Run(r) ==
  /\ since[r].changes <= changes
  /\ since[r].table => table
  /\ \A f \in since[r].recorded : recorded[f] # {}
  /\ pc[r] = "create" => ~ since[r].table
  /\ pc[r] = "done" => file[r] > NFiles
  /\ pc[r] \in InLoop => Files \ gone \subseteq listed[r]
  /\ \A f \in Files \ gone : f < file[r] => recorded[f] # {}
  /\ pc[r] = "apply" => file[r] \notin since[r].recorded \/ recorded[file[r]] = {Absent}
  /\ since[r].changes = changes => Undisturbed(r)

\* The record of a file is one checksum, there exactly when the file was
\* committed, and never there while that of an earlier file, never away, is not.
Db ==
  /\ \A f \in Files : /\ recorded[f] = {} <=> applied[f] = <<>>
                      /\ recorded[f] = {} \/ \E v \in {Absent} \cup Versions : recorded[f] = {v}
  /\ \A f \in Files \ gone : content[f] # Absent
  /\ \A f \in Files \ gone : \A g \in Files : f < g /\ recorded[g] # {} => recorded[f] # {}

SchemaInv == Inv /\ Db /\ \A r \in Runners : Run(r)

\* What no step undoes, and what a change of the files always shows.
Grows == /\ \A f \in Files : recorded[f] # {} => recorded'[f] = recorded[f]
         /\ table => table'
         /\ gone \subseteq gone'
Shows == UNCHANGED <<content, changes>> \/ changes' = changes + 1

LEMMA FilesOfRunner ==
  ASSUME NEW r \in Runners, RunnerStep(r) \/ Rerun(r)
  PROVE  UNCHANGED <<content, changes, gone>> /\ (table => table')
<1> USE DEF fileVars, dbVars
<1>1. CASE IsReady(r) \/ NotReady(r) \/ TableExists(r) \/ TableMissing(r)
           \/ CreateTable(r) \/ TableConflict(r) \/ Glob(r)
  BY <1>1 DEF IsReady, NotReady, TableExists, TableMissing, CreateTable,
              TableConflict, Exit, Glob
<1>2. CASE Finish(r) \/ Skip(r) \/ Cat(r) \/ CatFails(r) \/ Md5sum(r)
  BY <1>2 DEF Finish, Skip, Cat, CatFails, Exit, Md5sum
<1>3. CASE Applied(r) \/ Changed(r) \/ NotRecorded(r) \/ Conflict(r) \/ PsqlFails(r)
  BY <1>3 DEF Goto, Applied, Changed, NotRecorded, Conflict, PsqlFails, Exit
<1>4. CASE Apply(r) \/ ApplyUnheard(r) \/ Rerun(r)
  BY <1>4 DEF Apply, ApplyUnheard, Rerun
<1> QED BY <1>1, <1>2, <1>3, <1>4 DEF RunnerStep

LEMMA Growth ==
  ASSUME Inv, [Next]_vars
  PROVE  Grows /\ Shows
<1>1. \A f \in Files : recorded[f] # {} => recorded'[f] = recorded[f]
  <2>1. CASE HistoryStays
    BY <2>1 DEF HistoryStays
  <2>2. ASSUME NEW r \in Runners, StepCommits(r)
        PROVE  \A f \in Files : recorded[f] # {} => recorded'[f] = recorded[f]
    BY <2>2 DEF StepCommits, Commit, Inv, TypeOK
  <2> QED BY <2>1, <2>2, HistoryStep DEF Inv
<1>2. /\ (table => table') /\ gone \subseteq gone'
      /\ UNCHANGED <<content, changes>> \/ changes' = changes + 1
  <2>1. CASE UNCHANGED vars
    BY <2>1 DEF vars, fileVars, dbVars
  <2>2. CASE \E r \in Runners : RunnerStep(r) \/ Rerun(r)
    BY <2>2, FilesOfRunner
  <2>3. CASE Toggle
    BY <2>3 DEF Toggle, fileVars
  <2>4. CASE \E f \in Files : Edit(f) \/ Vanish(f) \/ Reappear(f)
    BY <2>4 DEF Edit, Vanish, Reappear, Change, dbVars
  <2> QED BY <2>1, <2>2, <2>3, <2>4 DEF Next
<1> QED BY <1>1, <1>2 DEF Grows, Shows

LEMMA Presence ==
  ASSUME Inv, Db, [Next]_vars
  PROVE  \A f \in Files \ gone' : content'[f] # Absent
<1>1. CASE UNCHANGED <<content, gone>>
  BY <1>1 DEF Db
<1>2. ASSUME NEW f \in Files, Edit(f) \/ Vanish(f) \/ Reappear(f)
      PROVE  \A g \in Files \ gone' : content'[g] # Absent
  <2>0. content \in [Files -> {Absent} \cup Versions] /\ changes \in Nat
    BY <1>2 DEF Inv, TypeOK
  <2>1. CASE Edit(f)
    BY <2>0, <2>1 DEF Edit, Db, Absent
  <2>2. CASE Vanish(f)
    BY <2>0, <2>2 DEF Vanish, Db
  <2>3. CASE Reappear(f)
    BY <2>0, <2>3 DEF Reappear, Db, Absent
  <2> QED BY <1>2, <2>1, <2>2, <2>3
<1>3. CASE Toggle \/ UNCHANGED vars
  BY <1>1, <1>3 DEF Toggle, vars, fileVars
<1> QED BY <1>1, <1>2, <1>3, FilesOfRunner DEF Next

\* A commit is of a file whose elders, but those that were away, are on record.
LEMMA DbStep ==
  ASSUME SchemaInv, [Next]_vars
  PROVE  Db'
<1>0. /\ Inv /\ Db /\ gone \subseteq gone' /\ (\A f \in Files \ gone' : content'[f] # Absent)
      /\ gone \subseteq Files /\ AtFile
  BY Growth, Presence DEF SchemaInv, Grows, Inv, TypeOK
<1>1. CASE HistoryStays
  BY <1>0, <1>1 DEF HistoryStays, Db
<1>2. ASSUME NEW r \in Runners, StepCommits(r) PROVE Db'
  <2> DEFINE f == file[r]
  <2>1. /\ f \in Files /\ recorded[f] = {} /\ Run(r) /\ sum[r] \in {Absent} \cup Versions
        /\ recorded' = [recorded EXCEPT ![f] = {sum[r]}]
        /\ applied' = [applied EXCEPT ![f] = Append(@, sql[r])]
        /\ applied[f] \in Seq(Versions) /\ sql[r] \in Versions
    BY <1>0, <1>2 DEF StepCommits, Commit, SchemaInv, Inv, TypeOK, AtFile
  <2>2. /\ recorded'[f] = {sum[r]} /\ applied'[f] = Append(applied[f], sql[r])
        /\ \A g \in Files : g # f => recorded'[g] = recorded[g] /\ applied'[g] = applied[g]
    BY <1>0, <2>1 DEF Inv, TypeOK
  <2>3. applied'[f] # <<>>
    BY <2>1, <2>2
  <2>4. \A g \in Files \ gone : g < f => recorded[g] # {}
    BY <2>1 DEF Run
  <2> HIDE DEF f
  <2>5. ASSUME NEW g \in Files
        PROVE  /\ recorded'[g] = {} <=> applied'[g] = <<>>
               /\ recorded'[g] = {} \/ \E v \in {Absent} \cup Versions : recorded'[g] = {v}
    <3>1. CASE g = f
      BY <2>1, <2>2, <2>3, <3>1
    <3>2. CASE g # f
      <4>1. recorded'[g] = recorded[g] /\ applied'[g] = applied[g]
        BY <2>2, <3>2
      <4>2. /\ recorded[g] = {} <=> applied[g] = <<>>
            /\ recorded[g] = {} \/ \E v \in {Absent} \cup Versions : recorded[g] = {v}
        BY <1>0 DEF Db
      <4> QED BY <4>1, <4>2
    <3> QED BY <3>1, <3>2
  <2>6. ASSUME NEW g \in Files \ gone', NEW h \in Files, g < h, recorded'[h] # {}
        PROVE  recorded'[g] # {}
    <3>1. g \in Files \ gone
      BY <1>0
    <3>2. CASE h = f
      BY <2>1, <2>2, <2>4, <2>6, <3>1, <3>2
    <3>3. CASE h # f
      BY <1>0, <2>2, <2>6, <3>1, <3>3 DEF Db
    <3> QED BY <3>2, <3>3
  <2> QED BY <1>0, <2>5, <2>6 DEF Db
<1> QED BY <1>0, <1>1, <1>2, HistoryStep

\* What another runner, or the operator, does leaves what is said of a run; a
\* change of the files is seen in `changes'.
LEMMA RunKept ==
  ASSUME Inv, NEW r \in Runners, Run(r), Grows, Shows, Place(r)' = Place(r)
  PROVE  Run(r)'
<1>1. /\ pc'[r] = pc[r] /\ file'[r] = file[r] /\ listed'[r] = listed[r]
      /\ attempts'[r] = attempts[r] /\ sum'[r] = sum[r] /\ since'[r] = since[r]
  BY DEF Place
<1>2. /\ since[r].changes \in Nat /\ since[r].recorded \subseteq Files /\ changes \in Nat
      /\ file[r] \in 1..(NFiles + 1) /\ (pc[r] \in InLoop \ {"file"} => file[r] \in Files)
  BY DEF Inv, TypeOK, Beginnings, AtFile, InLoop
<1>3. since'[r].changes = changes' => UNCHANGED <<content, changes>> /\ Undisturbed(r)
  BY <1>1, <1>2 DEF Shows, Run
<1>4. UNCHANGED <<content, changes>> /\ Undisturbed(r) => Undisturbed(r)'
  BY <1>1, <1>2 DEF Undisturbed, Grows, InLoop
<1>5. since'[r].changes <= changes'
  BY <1>1, <1>2 DEF Shows, Run
<1>6. /\ pc'[r] \in InLoop => Files \ gone' \subseteq listed'[r]
      /\ \A f \in Files \ gone' : f < file'[r] => recorded'[f] # {}
  BY <1>1 DEF Run, Grows
<1>7. pc'[r] = "apply" => file'[r] \notin since'[r].recorded \/ recorded'[file'[r]] = {Absent}
  BY <1>1, <1>2 DEF Run, Grows, InLoop
<1>8. \A f \in since'[r].recorded : recorded'[f] # {}
  BY <1>1, <1>2 DEF Run, Grows
<1> QED BY <1>1, <1>3, <1>4, <1>5, <1>6, <1>7, <1>8 DEF Run, Grows
\* A runner's own step, by what it changes of the runner.
Here(r, p) == pc'[r] = p /\ UNCHANGED <<file, attempts, since>>

LEMMA GotoHere ==
  ASSUME Inv, NEW r \in Runners, NEW p \in Steps, Goto(r, p), UNCHANGED <<file, attempts, since>>
  PROVE  Here(r, p)
BY DEF Inv, TypeOK, Goto, Here

\* Leaving the loop's body, or not having reached it, with a reason if it fails.
LEMMA RunLeaves ==
  ASSUME Inv, NEW r \in Runners, Run(r), Grows, UNCHANGED <<content, changes, gone>>,
         NEW p \in {"wait", "table", "create", "glob", "done", "failed", "lost"}, Here(r, p),
         p = "create" => ~ since[r].table,
         p = "done" => file[r] > NFiles,
         p = "failed" /\ since[r].changes = changes =>
           \/ table /\ ~ since[r].table
           \/ /\ file[r] \in Files /\ recorded[file[r]] # {}
              /\ \/ file[r] \notin since[r].recorded
                 \/ recorded[file[r]] # {content[file[r]]}
  PROVE  Run(r)'
<1>1. since[r].recorded \subseteq Files /\ file[r] \in 1..(NFiles + 1)
  BY DEF Inv, TypeOK, Beginnings
<1>2. Undisturbed(r) /\ since[r].changes = changes => Undisturbed(r)'
  BY <1>1 DEF Undisturbed, Grows, InLoop, Here
<1>3. \A f \in since[r].recorded : recorded'[f] # {}
  BY <1>1 DEF Run, Grows
<1>4. \A f \in Files \ gone : f < file[r] => recorded'[f] # {}
  BY DEF Run, Grows
<1> QED BY <1>1, <1>2, <1>3, <1>4 DEF Run, Here, InLoop, Grows

\* Going on in the loop's body, at the same file.
LEMMA RunGoesOn ==
  ASSUME Inv, NEW r \in Runners, Run(r), UNCHANGED <<content, changes, gone, table, recorded, listed>>,
         pc[r] \in InLoop,
         NEW p \in InLoop, Here(r, p),
         p = "apply" => file[r] \notin since[r].recorded \/ recorded[file[r]] = {Absent},
         since[r].changes = changes /\ p # "file" => content[file[r]] # Absent,
         since[r].changes = changes /\ p \in {"query", "apply"} => sum'[r] = content[file[r]]
  PROVE  Run(r)'
<1>1. Undisturbed(r) /\ since[r].changes = changes => Undisturbed(r)'
  BY DEF Undisturbed, InLoop, Here
<1> QED BY <1>1 DEF Run, Here, InLoop

\* Going on to the next file, this one being on record or away.
LEMMA RunGoesNext ==
  ASSUME Inv, NEW r \in Runners, Run(r), Grows, UNCHANGED <<content, changes, gone, listed, since>>,
         pc[r] \in InLoop, file[r] \in Files, NextFile(r), UNCHANGED attempts,
         file[r] \notin gone => recorded'[file[r]] # {},
         since[r].changes = changes /\ content[file[r]] # Absent
           => recorded'[file[r]] = {content[file[r]]}
  PROVE  Run(r)'
<1>1. /\ pc'[r] = "file" /\ file'[r] = file[r] + 1 /\ file[r] \in Nat
      /\ since[r].recorded \subseteq Files
  BY DEF Inv, TypeOK, NextFile, Goto, Files, Beginnings, Steps
<1>2. \A f \in Files : f < file'[r] => f < file[r] \/ f = file[r]
  BY <1>1 DEF Files
<1>3. \A f \in Files \ gone : f < file'[r] => recorded'[f] # {}
  BY <1>2 DEF Run, Grows
<1>4. Undisturbed(r) /\ since[r].changes = changes => Undisturbed(r)'
  <2> SUFFICES ASSUME Undisturbed(r), since[r].changes = changes PROVE Undisturbed(r)'
    OBVIOUS
  <2>1. ASSUME NEW f \in Files, f < file'[r], content[f] # Absent
        PROVE  recorded'[f] = {content[f]}
    <3>1. CASE f = file[r]
      BY <2>1, <3>1
    <3>2. CASE f < file[r]
      BY <2>1, <3>2 DEF Undisturbed, Grows
    <3> QED BY <1>2, <2>1, <3>1, <3>2
  <2> QED BY <1>1, <2>1 DEF Undisturbed, InLoop
<1>5. \A f \in since[r].recorded : recorded'[f] # {}
  BY <1>1 DEF Run, Grows
<1> QED BY <1>1, <1>3, <1>4, <1>5 DEF Run, InLoop, Grows

LEMMA RunStep ==
  ASSUME SchemaInv, Grows, NEW r \in Runners, RunnerStep(r)
  PROVE  Run(r)'
<1>0. /\ Inv /\ Db /\ Run(r) /\ UNCHANGED <<content, changes, gone>>
      /\ file[r] \in 1..(NFiles + 1) /\ recorded \in [Files -> SUBSET ({Absent} \cup Versions)]
  BY FilesOfRunner DEF SchemaInv, Inv, TypeOK
<1>u. since[r].changes = changes => Undisturbed(r)
  BY <1>0 DEF Run
<1>a. pc[r] \in {"sum", "query", "apply"} => file[r] \in Files
  BY <1>0 DEF Inv, AtFile
<1>1. CASE IsReady(r) \/ TableExists(r) \/ TableMissing(r) \/ CreateTable(r)
  <2>1. PICK p \in {"table", "glob", "create"} : Here(r, p) /\ (p = "create" => ~ table)
    BY <1>0, <1>1, GotoHere DEF IsReady, TableExists, TableMissing, CreateTable, shellVars,
                                runVars, Steps
  <2>2. p = "create" => ~ since[r].table
    BY <1>0, <2>1 DEF Run
  <2> QED BY <1>0, <2>1, <2>2, RunLeaves
<1>2. CASE NotReady(r)
  <2>1. /\ attempts'[r] = attempts[r] + 1 /\ UNCHANGED <<file, since>>
        /\ pc'[r] \in {"wait", "failed"} /\ pc[r] = "wait" /\ attempts[r] \in Nat
        /\ (pc'[r] = "failed" => attempts'[r] >= MaxAttempts)
    BY <1>0, <1>2 DEF NotReady, Goto, runVars, Inv, TypeOK
  <2>2. since[r].changes = changes => Undisturbed(r)'
    BY <1>0, <1>u, <2>1 DEF Undisturbed, InLoop, Grows
  <2>3. since[r].recorded \subseteq Files
    BY <1>0 DEF Inv, TypeOK, Beginnings
  <2> QED BY <1>0, <2>1, <2>2, <2>3 DEF Run, InLoop, Grows
<1>3. CASE TableConflict(r)
  <2>1. Here(r, "failed") /\ table /\ ~ since[r].table
    BY <1>0, <1>3, GotoHere DEF TableConflict, Exit, shellVars, runVars, Run, Steps, Ended
  <2> QED BY <1>0, <2>1, RunLeaves
<1>4. CASE Glob(r)
  <2>1. /\ Here(r, "file") /\ recorded' = recorded /\ table' = table
        /\ listed'[r] = {f \in Files : content[f] # Absent}
    BY <1>0, <1>4, GotoHere DEF Glob, runVars, dbVars, Steps, Inv, TypeOK
  <2>2. Files \ gone \subseteq listed'[r]
    BY <1>0, <2>1 DEF Db
  <2>3. since[r].changes = changes => Undisturbed(r)'
    BY <1>0, <1>u, <2>1 DEF Undisturbed, Here, InLoop
  <2> QED BY <1>0, <2>1, <2>2, <2>3 DEF Run, Here, InLoop
<1>5. CASE Finish(r)
  <2>1. Here(r, "done") /\ file[r] > NFiles
    BY <1>0, <1>5, GotoHere DEF Finish, shellVars, runVars, Steps, Ended
  <2> QED BY <1>0, <2>1, RunLeaves
<1>6. CASE Skip(r)
  <2>1. /\ pc[r] \in InLoop /\ file[r] \in Files /\ NextFile(r)
        /\ UNCHANGED <<listed, since, attempts, recorded>>
        /\ file[r] \notin listed[r] \/ content[file[r]] = Absent
    BY <1>6 DEF Skip, InLoop, runVars, dbVars
  <2>2. file[r] \in gone
    BY <1>0, <2>1 DEF Run, Db
  <2>3. since[r].changes = changes => content[file[r]] = Absent
    BY <1>u, <2>1 DEF Undisturbed
  <2> QED BY <1>0, <2>1, <2>2, <2>3, RunGoesNext
<1>7. CASE Cat(r)
  <2>1. /\ Here(r, "sum") /\ pc[r] \in InLoop /\ content[file[r]] # Absent
        /\ UNCHANGED <<table, recorded, listed>>
    BY <1>0, <1>7, GotoHere DEF Cat, InLoop, runVars, dbVars, Steps
  <2> QED BY <1>0, <2>1, RunGoesOn DEF InLoop
<1>8. CASE CatFails(r)
  <2>1. Here(r, "failed") /\ pc[r] \in InLoop /\ file[r] \in listed[r] /\ content[file[r]] = Absent
    BY <1>0, <1>8, GotoHere DEF CatFails, Exit, InLoop, shellVars, runVars, Steps, Ended
  <2>2. since[r].changes # changes
    BY <1>u, <2>1 DEF Undisturbed
  <2> QED BY <1>0, <2>1, <2>2, RunLeaves
<1>9. CASE Md5sum(r)
  <2>1. /\ Here(r, "query") /\ pc[r] = "sum" /\ sum'[r] = content[file[r]]
        /\ UNCHANGED <<table, recorded, listed>>
    BY <1>0, <1>9, GotoHere DEF Md5sum, runVars, dbVars, Steps, Inv, TypeOK
  <2>2. since[r].changes = changes => content[file[r]] # Absent
    BY <1>u, <2>1 DEF Undisturbed
  <2> QED BY <1>0, <2>1, <2>2, RunGoesOn DEF InLoop
<1>10. CASE Applied(r)
  <2>1. /\ pc[r] = "query" /\ NextFile(r) /\ UNCHANGED <<listed, since, attempts, recorded>>
        /\ recorded[file[r]] \ {Absent} = {sum[r]} /\ file[r] \in Files
    BY <1>a, <1>10 DEF Applied, Printed, runVars, dbVars
  <2>2. recorded[file[r]] = {sum[r]}
    <3>1. recorded[file[r]] = {} \/ \E v \in {Absent} \cup Versions : recorded[file[r]] = {v}
      BY <1>0, <2>1 DEF Db
    <3> QED BY <2>1, <3>1
  <2>3. since[r].changes = changes => sum[r] = content[file[r]]
    BY <1>u, <2>1 DEF Undisturbed
  <2> QED BY <1>0, <2>1, <2>2, <2>3, RunGoesNext DEF InLoop
<1>11. CASE Changed(r)
  <2>1. /\ Here(r, "failed") /\ pc[r] = "query" /\ file[r] \in Files
        /\ recorded[file[r]] \ {Absent} # {} /\ recorded[file[r]] \ {Absent} # {sum[r]}
    BY <1>0, <1>a, <1>11, GotoHere DEF Changed, Printed, Exit, shellVars, runVars, Steps, Ended
  <2>2. since[r].changes = changes => sum[r] = content[file[r]]
    BY <1>u, <2>1 DEF Undisturbed
  <2>3. recorded[file[r]] # {} /\ recorded[file[r]] # {sum[r]}
    BY <2>1
  <2> QED BY <1>0, <2>1, <2>2, <2>3, RunLeaves
<1>12. CASE NotRecorded(r)
  <2>1. /\ Here(r, "apply") /\ pc[r] = "query" /\ file[r] \in Files
        /\ recorded[file[r]] \ {Absent} = {} /\ UNCHANGED <<table, recorded, listed, sum>>
    BY <1>0, <1>a, <1>12, GotoHere DEF NotRecorded, Printed, shellVars, runVars, dbVars, Steps
  <2>2. file[r] \notin since[r].recorded \/ recorded[file[r]] = {Absent}
    BY <1>0, <2>1 DEF Run
  <2>3. since[r].changes = changes =>
          content[file[r]] # Absent /\ sum'[r] = content[file[r]]
    BY <1>u, <2>1 DEF Undisturbed
  <2> QED BY <1>0, <2>1, <2>2, <2>3, RunGoesOn DEF InLoop
<1>13. CASE Apply(r)
  <2>1. /\ pc[r] = "apply" /\ NextFile(r) /\ UNCHANGED <<listed, since, attempts>>
        /\ recorded' = [recorded EXCEPT ![file[r]] = {sum[r]}] /\ file[r] \in Files
    BY <1>a, <1>13 DEF Apply, Commit, runVars
  <2>2. recorded'[file[r]] = {sum[r]}
    BY <1>0, <2>1
  <2>3. since[r].changes = changes => sum[r] = content[file[r]]
    BY <1>u, <2>1 DEF Undisturbed
  <2> QED BY <1>0, <2>1, <2>2, <2>3, RunGoesNext DEF InLoop
<1>14. CASE ApplyUnheard(r) \/ PsqlFails(r)
  <2>1. Here(r, "lost")
    BY <1>0, <1>14, GotoHere DEF ApplyUnheard, PsqlFails, shellVars, runVars, Steps, Ended
  <2> QED BY <1>0, <2>1, RunLeaves
<1>15. CASE Conflict(r)
  <2>1. /\ Here(r, "failed") /\ pc[r] = "apply" /\ file[r] \in Files /\ recorded[file[r]] # {}
    BY <1>0, <1>a, <1>15, GotoHere DEF Conflict, Exit, shellVars, runVars, Steps, Ended
  <2>2. since[r].changes = changes => content[file[r]] # Absent
    BY <1>u, <2>1 DEF Undisturbed
  <2>3. file[r] \notin since[r].recorded \/ recorded[file[r]] = {Absent}
    BY <1>0, <2>1 DEF Run
  <2> QED BY <1>0, <2>1, <2>2, <2>3, RunLeaves
<1> QED BY <1>1, <1>2, <1>3, <1>4, <1>5, <1>6, <1>7, <1>8, <1>9, <1>10, <1>11, <1>12, <1>13,
           <1>14, <1>15 DEF RunnerStep

\* A run begins with the files and the records there are.
LEMMA RunBegins ==
  ASSUME Inv, NEW r \in Runners, Rerun(r)
  PROVE  Run(r)'
<1>1. /\ pc'[r] = "wait" /\ file'[r] = 1
      /\ UNCHANGED <<content, changes, gone, table, recorded>>
  BY DEF Inv, TypeOK, Rerun, Goto, fileVars, dbVars
<1>2. since'[r] = [changes |-> changes, table |-> table,
                   recorded |-> {f \in Files : recorded[f] # {}}]
  BY DEF Inv, TypeOK, Rerun
<1>3. changes \in Nat /\ \A f \in Files : ~ (f < 1)
  BY DEF Inv, TypeOK, Files
<1> QED BY <1>1, <1>2, <1>3 DEF Run, Undisturbed, InLoop

LEMMA SchemaStep == SchemaInv /\ [Next]_vars => SchemaInv'
<1> SUFFICES ASSUME SchemaInv, [Next]_vars PROVE SchemaInv'
  OBVIOUS
<1>1. Inv /\ Db /\ Inv' /\ Db' /\ Grows /\ Shows
  BY StepInv, DbStep, Growth DEF SchemaInv
<1>2. ASSUME NEW r \in Runners PROVE Run(r)'
  <2>1. CASE RunnerStep(r)
    BY <1>1, <2>1, RunStep
  <2>2. CASE Rerun(r)
    BY <1>1, <2>2, RunBegins
  <2>3. CASE Place(r)' = Place(r)
    BY <1>1, <2>3, RunKept DEF SchemaInv
  <2>4. ASSUME NEW o \in Runners \ {r}, RunnerStep(o) \/ Rerun(o)
        PROVE  Place(r)' = Place(r)
    BY <1>1, <2>4, OthersStay
  <2>5. ASSUME Toggle \/ UNCHANGED vars PROVE Place(r)' = Place(r)
    BY <2>5 DEF Toggle, vars, shellVars, runVars, Place
  <2>6. ASSUME NEW f \in Files, Edit(f) \/ Vanish(f) \/ Reappear(f)
        PROVE  Place(r)' = Place(r)
    BY <2>6 DEF Edit, Vanish, Reappear, Change, shellVars, runVars, Place
  <2> QED BY <2>1, <2>2, <2>3, <2>4, <2>5, <2>6 DEF Next
<1> QED BY <1>1, <1>2 DEF SchemaInv

LEMMA SchemaBegins == Init => SchemaInv
<1> SUFFICES ASSUME Init PROVE SchemaInv
  OBVIOUS
<1>1. Db
  BY DEF Init, Db, Absent
<1>2. \A f \in Files : ~ (f < 1)
  BY DEF Files
<1>3. \A r \in Runners : Run(r)
  BY <1>2 DEF Init, Run, Undisturbed, InLoop
<1> QED BY <1>1, <1>3, InitInv DEF SchemaInv

THEOREM SchemaInvariance == Spec => []SchemaInv
BY SchemaBegins, SchemaStep, PTL DEF Spec

\* The schema is always a prefix of the files, and all of them when a runner
\* exits 0, however many runners are at however many files.
THEOREM SchemaPrefix == Spec => []SchemaIsAPrefix
<1>1. SchemaInv => SchemaIsAPrefix
  <2> SUFFICES ASSUME SchemaInv, NEW f \in Files, applied[f] = <<>>, f \notin gone
               PROVE  /\ \A g \in Files : f < g => applied[g] = <<>>
                      /\ \A r \in Runners : pc[r] # "done"
    BY DEF SchemaIsAPrefix
  <2>1. recorded[f] = {}
    BY DEF SchemaInv, Db
  <2>2. \A g \in Files : f < g => applied[g] = <<>>
    BY <2>1 DEF SchemaInv, Db
  <2>3. ASSUME NEW r \in Runners PROVE pc[r] # "done"
    <3>1. Run(r) /\ file[r] \in Nat /\ f \in 1..NFiles
      BY DEF SchemaInv, Inv, TypeOK, Files
    <3>2. pc[r] = "done" => f < file[r]
      BY <3>1 DEF Run
    <3> QED BY <2>1, <3>1, <3>2 DEF Run
  <2> QED BY <2>2, <2>3
<1> QED BY <1>1, SchemaInvariance, PTL

\* A run that exits 0 over files nobody changed leaves every one of them on
\* record as it is.
THEOREM EditsCaught == Spec => []EditsAreCaught
<1>1. SchemaInv => EditsAreCaught
  <2> SUFFICES ASSUME SchemaInv, NEW r \in Runners, pc[r] = "done", since[r].changes = changes,
                      NEW f \in Files, content[f] # Absent
               PROVE  recorded[f] = {content[f]}
    BY DEF EditsAreCaught
  <2>1. Run(r) /\ Undisturbed(r) /\ file[r] \in Nat /\ f \in 1..NFiles
    <3>1. Run(r) /\ file[r] \in Nat /\ f \in 1..NFiles
      BY DEF SchemaInv, Inv, TypeOK, Files
    <3> QED BY <3>1 DEF Run
  <2>2. f < file[r]
    BY <2>1 DEF Run
  <2> QED BY <2>1, <2>2 DEF Undisturbed
<1> QED BY <1>1, SchemaInvariance, PTL

\* A run that fails of itself fails on what another created meanwhile, or on a
\* file that is not the one on record.
THEOREM FailuresCaused == Spec => []FailuresHaveCause
<1>1. SchemaInv => FailuresHaveCause
  BY DEF SchemaInv, Run, Undisturbed, FailuresHaveCause
<1> QED BY <1>1, SchemaInvariance, PTL
=============================================================================
