------------------------------ MODULE EvalDrift ------------------------------
(***************************************************************************)
(* drift.py: which run files it accepts for comparison, and what it says   *)
(* of the difference.  A run file has the fields MUST_MATCH names that can *)
(* differ between runs of one command line (set hash, commit and server    *)
(* version; Null when missing), the server's fingerprint, whether the tree *)
(* was dirty (Null: unknown), the set score, and the items' results.       *)
(***************************************************************************)
EXTENDS Integers, FiniteSets, FiniteSetsExt, EvalScore

Complete(file) == file.score # Null

\* Mutant: the state of the tree is not looked at.
Comparable_AnyTree(a, b) ==
  /\ \A file \in {a, b} : /\ file.commit # Null /\ file.version # Null
                          /\ Complete(file)
  /\ a.hash = b.hash /\ a.commit = b.commit /\ a.version = b.version
  /\ Null \in {a.fingerprint, b.fingerprint} \/ a.fingerprint = b.fingerprint
  /\ a.stamp # b.stamp

\* check_comparable: a missing field is a refusal, an unknown tree is not; the
\* fingerprint counts only when both runs have one.
Comparable(a, b) ==
  /\ \A file \in {a, b} : /\ file.commit # Null /\ file.version # Null
                          /\ file.dirty # TRUE
                          /\ Complete(file)
  /\ a.hash = b.hash /\ a.commit = b.commit /\ a.version = b.version
  /\ Null \in {a.fingerprint, b.fingerprint} \/ a.fingerprint = b.fingerprint
  /\ a.stamp # b.stamp

\* Mutant: each run is compared with the next one only.
Pairs_Adjacent(files) ==
  {p \in files \X files : p[1].stamp < p[2].stamp /\
     ~ \E f \in files : p[1].stamp < f.stamp /\ f.stamp < p[2].stamp}

\* compare_runs: every pair.
Pairs(files) == {p \in files \X files : p[1].stamp < p[2].stamp}

Accepts(files) == /\ Cardinality(files) >= 2
                  /\ \A p \in Pairs(files) : Comparable(p[1], p[2])

Gap(a, b) == IF a.score < b.score THEN b.score - a.score ELSE a.score - b.score

Drift(files) == Max({Gap(p[1], p[2]) : p \in Pairs(files)})

SameAnswer(a, b, i) == a.items[i].answer = b.items[i].answer
SameScore(a, b, i)  == a.items[i].score = b.items[i].score

Moved(a, b) == {i \in DOMAIN a.items : ~ SameScore(a, b, i)}

\* Mutant: an item is the judge's when its verdicts differ.
MovedByJudge_OnVerdicts(a, b) ==
  {i \in Moved(a, b) : a.items[i].verdict # b.items[i].verdict}

\* An item that moved on the same answer was moved by the judge, any other one
\* by generation.
MovedByJudge(a, b)      == {i \in Moved(a, b) : SameAnswer(a, b, i)}
MovedByGeneration(a, b) == {i \in Moved(a, b) : ~ SameAnswer(a, b, i)}

\* Verdicts that differ on the same answer without moving the score.
HiddenFlips(a, b) ==
  {i \in DOMAIN a.items : /\ SameAnswer(a, b, i) /\ SameScore(a, b, i)
                          /\ a.items[i].verdict # b.items[i].verdict}
=============================================================================
