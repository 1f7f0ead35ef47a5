------------------------------ MODULE Migrate -------------------------------
(***************************************************************************)
(* pipeline/db/migrate.sh: apply every migration file not yet recorded in  *)
(* schema_migrations, in filename order, each in one transaction with its  *)
(* record.                                                                 *)
(*                                                                         *)
(* Several runners may overlap (two `compose up' calls); there is no lock  *)
(* between them.  The files are a directory of the operator's checkout,    *)
(* which may be edited, or replaced by git (unlink, then create), between  *)
(* any two commands of the script.  psql may fail at any command, and may  *)
(* lose the connection after the server has committed.                     *)
(***************************************************************************)
EXTENDS Naturals, Sequences, FiniteSets

CONSTANTS Runners,
          NFiles,        \* files 1..NFiles, in filename order
          MaxAttempts,   \* pg_isready attempts (60)
          MaxRuns,       \* bound on runs per runner
          MaxChanges     \* bound on changes of the files

ASSUME NFilesAssumption    == NFiles \in Nat
ASSUME AttemptsAssumption  == MaxAttempts \in Nat \ {0}
ASSUME BoundsAssumption    == MaxRuns \in Nat \ {0} /\ MaxChanges \in Nat

Files == 1..NFiles

\* A file's content is a version number and stands for its md5 as well; Absent
\* is a file that is not there, whose `md5sum | cut' yields the empty string.
Absent   == 0
Versions == 1..(MaxChanges + 1)

VARIABLES
  content,    \* the files
  changes,
  gone,       \* history: the files that have been unlinked
  ready,      \* does pg_isready succeed?
  table,      \* does schema_migrations exist?
  recorded,   \* its rows: recorded[f] is the checksum, as a set of at most one
  applied,    \* history: the contents committed for each file
  pc, file,   \* where each runner is: the command, and the file of the loop
  listed,     \* what the glob of the loop expanded to
  attempts, sql, sum,
  runs,
  since       \* history: what there was when the run began

dbVars    == <<ready, table, recorded, applied>>
fileVars  == <<content, changes, gone>>
shellVars == <<file, listed, attempts, sql, sum>>
runVars   == <<runs, since>>
vars      == <<fileVars, dbVars, pc, shellVars, runVars>>

\* Where a run ends: it exits 0, exits 1, or exits because psql failed.
Ended == {"done", "failed", "lost"}

Steps == {"wait", "table", "create", "glob", "file", "sum", "query", "apply"}
           \cup Ended

\* What FailuresHaveCause and EditsAreCaught look back to.
Beginnings == [changes : Nat, table : BOOLEAN, recorded : SUBSET Files]

TypeOK ==
  /\ content \in [Files -> {Absent} \cup Versions]
  /\ changes \in 0..(MaxChanges + 1) /\ gone \subseteq Files
  /\ ready \in BOOLEAN /\ table \in BOOLEAN
  /\ recorded \in [Files -> SUBSET ({Absent} \cup Versions)]
  /\ applied \in [Files -> Seq(Versions)]
  /\ pc \in [Runners -> Steps]
  /\ file \in [Runners -> 1..(NFiles + 1)]
  /\ listed \in [Runners -> SUBSET Files]
  /\ attempts \in [Runners -> 0..MaxAttempts]
  /\ sql \in [Runners -> {Absent} \cup Versions]
  /\ sum \in [Runners -> {Absent} \cup Versions]
  /\ runs \in [Runners -> 1..MaxRuns]
  /\ since \in [Runners -> Beginnings]

Init ==
  /\ content = [f \in Files |-> 1]
  /\ changes = 0 /\ gone = {}
  /\ ready \in BOOLEAN
  /\ table = FALSE
  /\ recorded = [f \in Files |-> {}]
  /\ applied = [f \in Files |-> <<>>]
  /\ pc = [r \in Runners |-> "wait"]
  /\ file = [r \in Runners |-> 1]
  /\ listed = [r \in Runners |-> {}]
  /\ attempts = [r \in Runners |-> 0]
  /\ sql = [r \in Runners |-> Absent]
  /\ sum = [r \in Runners |-> Absent]
  /\ runs = [r \in Runners |-> 1]
  /\ since = [r \in Runners |-> [changes |-> 0, table |-> FALSE, recorded |-> {}]]

Goto(r, l) == pc' = [pc EXCEPT ![r] = l]

\* `continue', or the end of the loop's body.
NextFile(r) == Goto(r, "file") /\ file' = [file EXCEPT ![r] = @ + 1]

\* set -e: any command that fails ends the script.
Exit(r) ==
  /\ Goto(r, "failed")
  /\ UNCHANGED <<fileVars, dbVars, shellVars, runVars>>

-----------------------------------------------------------------------------
(* Before the loop.                                                        *)

IsReady(r) ==
  /\ pc[r] = "wait" /\ ready
  /\ Goto(r, "table")
  /\ UNCHANGED <<fileVars, dbVars, shellVars, runVars>>

NotReady(r) ==
  /\ pc[r] = "wait" /\ ~ ready
  /\ attempts' = [attempts EXCEPT ![r] = @ + 1]
  /\ Goto(r, IF attempts[r] + 1 >= MaxAttempts THEN "failed" ELSE "wait")
  /\ UNCHANGED <<fileVars, dbVars, file, listed, sql, sum, runVars>>

\* CREATE TABLE IF NOT EXISTS looks for the table and creates it in two steps:
\* of two runners that both find none, one breaks a unique index of the
\* catalogue and fails.
TableExists(r) ==
  /\ pc[r] = "table" /\ table
  /\ Goto(r, "glob")
  /\ UNCHANGED <<fileVars, dbVars, shellVars, runVars>>

TableMissing(r) ==
  /\ pc[r] = "table" /\ ~ table
  /\ Goto(r, "create")
  /\ UNCHANGED <<fileVars, dbVars, shellVars, runVars>>

CreateTable(r) ==
  /\ pc[r] = "create" /\ ~ table
  /\ table' = TRUE
  /\ Goto(r, "glob")
  /\ UNCHANGED <<fileVars, ready, recorded, applied, shellVars, runVars>>

TableConflict(r) == pc[r] = "create" /\ table /\ Exit(r)

\* for path in "$MIGRATIONS_DIR"/*.sql: expanded once.
Glob(r) ==
  /\ pc[r] = "glob"
  /\ listed' = [listed EXCEPT ![r] = {f \in Files : content[f] # Absent}]
  /\ Goto(r, "file")
  /\ UNCHANGED <<fileVars, dbVars, file, attempts, sql, sum, runVars>>

-----------------------------------------------------------------------------
(* The loop over the files.                                                *)

Finish(r) ==
  /\ pc[r] = "file" /\ file[r] > NFiles
  /\ Goto(r, "done")
  /\ UNCHANGED <<fileVars, dbVars, shellVars, runVars>>

\* Not in the glob's list; or in it, and [ -e "$path" ] || continue.
Skip(r) ==
  /\ pc[r] = "file" /\ file[r] \in Files
  /\ file[r] \notin listed[r] \/ content[file[r]] = Absent
  /\ NextFile(r)
  /\ UNCHANGED <<fileVars, dbVars, listed, attempts, sql, sum, runVars>>

\* sql=$(cat "$path")
Cat(r) ==
  /\ pc[r] = "file" /\ file[r] \in Files
  /\ file[r] \in listed[r] /\ content[file[r]] # Absent
  /\ sql' = [sql EXCEPT ![r] = content[file[r]]]
  /\ Goto(r, "sum")
  /\ UNCHANGED <<fileVars, dbVars, file, listed, attempts, sum, runVars>>

\* The file goes between the test and the cat.
CatFails(r) ==
  /\ pc[r] = "file" /\ file[r] \in Files
  /\ file[r] \in listed[r] /\ content[file[r]] = Absent
  /\ Exit(r)

\* sum=$(md5sum "$path" | cut ...): md5sum's failure is hidden by the pipe.
Md5sum(r) ==
  /\ pc[r] = "sum"
  /\ sum' = [sum EXCEPT ![r] = content[file[r]]]
  /\ Goto(r, "query")
  /\ UNCHANGED <<fileVars, dbVars, file, listed, attempts, sql, runVars>>

\* What the query prints: nothing for no row, and for a recorded ''.
Printed(f) == recorded[f] \ {Absent}

\* Mutant: a file that was applied is skipped without a look at its checksum.
Applied_Unchecked(r) ==
  /\ pc[r] = "query" /\ Printed(file[r]) # {}
  /\ NextFile(r)
  /\ UNCHANGED <<fileVars, dbVars, listed, attempts, sql, sum, runVars>>

Applied(r) ==
  /\ pc[r] = "query" /\ Printed(file[r]) = {sum[r]}
  /\ NextFile(r)
  /\ UNCHANGED <<fileVars, dbVars, listed, attempts, sql, sum, runVars>>

Changed(r) ==
  /\ pc[r] = "query" /\ Printed(file[r]) # {}
  /\ Printed(file[r]) # {sum[r]}
  /\ Exit(r)

\* Mutant: every file is applied, whatever the query says.
NotRecorded_Always(r) ==
  /\ pc[r] = "query"
  /\ Goto(r, "apply")
  /\ UNCHANGED <<fileVars, dbVars, shellVars, runVars>>

NotRecorded(r) ==
  /\ pc[r] = "query" /\ Printed(file[r]) = {}
  /\ Goto(r, "apply")
  /\ UNCHANGED <<fileVars, dbVars, shellVars, runVars>>

\* Mutants of the transaction: the record goes in a transaction of its own
\* (here: is lost), or replaces an older one (ON CONFLICT DO UPDATE).
Commit_NoRecord(f, r) ==
  /\ recorded[f] = {}
  /\ applied' = [applied EXCEPT ![f] = Append(@, sql[r])]
  /\ UNCHANGED <<recorded>>

Commit_Upsert(f, r) ==
  /\ recorded' = [recorded EXCEPT ![f] = {sum[r]}]
  /\ applied' = [applied EXCEPT ![f] = Append(@, sql[r])]

\* BEGIN; the file; INSERT INTO schema_migrations; COMMIT.  The primary key on
\* filename lets it commit once.
Commit(f, r) ==
  /\ recorded[f] = {}
  /\ recorded' = [recorded EXCEPT ![f] = {sum[r]}]
  /\ applied' = [applied EXCEPT ![f] = Append(@, sql[r])]

Apply(r) ==
  /\ pc[r] = "apply"
  /\ Commit(file[r], r)
  /\ NextFile(r)
  /\ UNCHANGED <<fileVars, ready, table, listed, attempts, sql, sum, runVars>>

\* The server commits, but psql loses the connection before it hears so.
ApplyUnheard(r) ==
  /\ pc[r] = "apply"
  /\ Commit(file[r], r)
  /\ Goto(r, "lost")
  /\ UNCHANGED <<fileVars, ready, table, shellVars, runVars>>

\* Mutant: the loser looks again.
Conflict_Retries(r) ==
  /\ pc[r] = "apply" /\ recorded[file[r]] # {}
  /\ Goto(r, "query")
  /\ UNCHANGED <<fileVars, dbVars, shellVars, runVars>>

\* "already exists", or the primary key: the transaction is rolled back.
Conflict(r) ==
  /\ pc[r] = "apply" /\ recorded[file[r]] # {}
  /\ Exit(r)

\* Mutant: without set -e the script goes on after a failed file.
PsqlFails_Ignored(r) ==
  /\ pc[r] \in {"table", "create", "query", "apply"}
  /\ IF pc[r] \in {"table", "create"} THEN Goto(r, "glob") /\ UNCHANGED file
                                     ELSE NextFile(r)
  /\ UNCHANGED <<fileVars, dbVars, listed, attempts, sql, sum, runVars>>

\* Any psql command fails; a transaction under way is rolled back.
PsqlFails(r) ==
  /\ pc[r] \in {"table", "create", "query", "apply"}
  /\ Goto(r, "lost")
  /\ UNCHANGED <<fileVars, dbVars, shellVars, runVars>>

\* compose up again.
Rerun(r) ==
  /\ pc[r] \in Ended /\ runs[r] < MaxRuns
  /\ runs' = [runs EXCEPT ![r] = @ + 1]
  /\ Goto(r, "wait")
  /\ since' = [since EXCEPT ![r] =
                 [changes |-> changes, table |-> table,
                  recorded |-> {f \in Files : recorded[f] # {}}]]
  /\ file' = [file EXCEPT ![r] = 1]
  /\ listed' = [listed EXCEPT ![r] = {}]
  /\ attempts' = [attempts EXCEPT ![r] = 0]
  /\ sql' = [sql EXCEPT ![r] = Absent]
  /\ sum' = [sum EXCEPT ![r] = Absent]
  /\ UNCHANGED <<fileVars, dbVars>>

-----------------------------------------------------------------------------
(* The environment: Postgres comes up or goes away, the files change.      *)

Toggle ==
  /\ ready' = ~ ready
  /\ UNCHANGED <<fileVars, table, recorded, applied, pc, shellVars, runVars>>

Change == changes' = changes + 1 /\ UNCHANGED <<dbVars, pc, shellVars, runVars>>

Edit(f) ==
  /\ content[f] # Absent /\ changes < MaxChanges
  /\ content' = [content EXCEPT ![f] = changes + 2]
  /\ Change /\ UNCHANGED gone

Vanish(f) ==
  /\ content[f] # Absent /\ changes < MaxChanges
  /\ content' = [content EXCEPT ![f] = Absent]
  /\ gone' = gone \cup {f}
  /\ Change

\* ... as it was, or otherwise; also after the last change.
Reappear(f) ==
  /\ content[f] = Absent /\ changes <= MaxChanges
  /\ \E v \in 1..(changes + 1) : content' = [content EXCEPT ![f] = v]
  /\ Change /\ UNCHANGED gone

RunnerStep(r) ==
  \/ IsReady(r) \/ NotReady(r)
  \/ TableExists(r) \/ TableMissing(r) \/ CreateTable(r) \/ TableConflict(r)
  \/ Glob(r)
  \/ Finish(r) \/ Skip(r) \/ Cat(r) \/ CatFails(r) \/ Md5sum(r)
  \/ Applied(r) \/ Changed(r) \/ NotRecorded(r)
  \/ Apply(r) \/ ApplyUnheard(r) \/ Conflict(r) \/ PsqlFails(r)

Next ==
  \/ \E r \in Runners : RunnerStep(r) \/ Rerun(r)
  \/ Toggle
  \/ \E f \in Files : Edit(f) \/ Vanish(f) \/ Reappear(f)

Spec == Init /\ [][Next]_vars

-----------------------------------------------------------------------------
(* Safety.                                                                 *)

\* A file is committed at most once and recorded exactly when it is, however
\* runners overlap, psql fails or the files change ("one transaction per file:
\* a failed migration leaves nothing half-applied and nothing recorded").
AppliedOnceAndRecorded ==
  \A f \in Files : /\ Len(applied[f]) = Cardinality(recorded[f])
                   /\ Len(applied[f]) <= 1

\* No runner, whatever it has read before, rewrites the history of the schema.
HistoryIsImmutable ==
  [][\A f \in Files : recorded[f] # {} =>
       recorded'[f] = recorded[f] /\ applied'[f] = applied[f]]_vars

\* The schema is a prefix of the files in filename order, even when overlapping
\* runners are at different files, and all of them once a runner exits 0
\* ("migrations up to date"): the api, which waits for that, never starts on
\* half a schema.  Only a file that was away may be missing.
SchemaIsAPrefix ==
  \A f \in Files : applied[f] = <<>> /\ f \notin gone =>
    /\ \A g \in Files : f < g => applied[g] = <<>>
    /\ \A r \in Runners : pc[r] # "done"

\* "A later run refuses to start if a recorded file's content changed": when a
\* run during which no file changed exits 0, every file of the directory is
\* recorded with the checksum it has there, whatever overlapping runners had
\* read of it before an edit.  (Of the record, not of what was applied: an edit
\* between the two reads of a file sets them apart.)
EditsAreCaught ==
  \A r \in Runners : (pc[r] = "done" /\ since[r].changes = changes) =>
    \A f \in Files : content[f] # Absent => recorded[f] = {content[f]}

\* "The loser fails on already exists and a re-run fixes it": a run that fails,
\* for another reason than psql's, with Postgres up and the files unchanged
\* since it began, fails on what another run has created in the meantime, and
\* so no run after it fails on the same; or at a file that is not the one on
\* record, which no re-run mends.
FailuresHaveCause ==
  \A r \in Runners :
    (pc[r] = "failed" /\ attempts[r] < MaxAttempts /\ since[r].changes = changes) =>
      \/ table /\ ~ since[r].table
      \/ /\ file[r] \in Files /\ recorded[file[r]] # {}
         /\ \/ file[r] \notin since[r].recorded
            \/ recorded[file[r]] # {content[file[r]]}

\* The steps a run has left at most: those of each file still to come, those
\* to the end of the loop's body, and the attempts.
ToTheEnd == [wait |-> 8, table |-> 7, create |-> 6, glob |-> 5,
             file |-> 4, sum |-> 3, query |-> 2, apply |-> 1]

Left(r) ==
  IF pc[r] \in Ended THEN 0
  ELSE 5 * (NFiles + 1 - file[r]) + (MaxAttempts - attempts[r]) + ToTheEnd[pc[r]]

\* "Bounded: an unreachable database must fail the service, not hang compose
\* forever": a run that is under way can always go on, each of its steps leaves
\* it with fewer, and no other runner's step, no change of a file and no coming
\* and going of Postgres sets it back.  So every run ends.
RunsEnd ==
  [][\A r \in Runners :
       /\ pc[r] \notin Ended => ENABLED RunnerStep(r)
       /\ Left(r)' # Left(r) => Left(r)' < Left(r) \/ pc[r] \in Ended
       /\ RunnerStep(r) => Left(r)' < Left(r)]_vars
=============================================================================
