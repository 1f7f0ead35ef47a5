------------------------------- MODULE EvalRun -------------------------------
(***************************************************************************)
(* Measuring the noise floor: pipeline/eval/run.py, run several times with *)
(* one command line, and drift.py over the files it wrote.                 *)
(*                                                                         *)
(* A run reads what it will be identified by at different moments: the     *)
(* code when it starts, the set's items when it loads them, the server     *)
(* version and the commit before the first question, the set's hash and    *)
(* the state of the tree after the last one.  In between, minutes of GPU   *)
(* time, the operator may edit, commit or check out, and the server may be *)
(* replaced.  A commit names the tree it holds.                            *)
(***************************************************************************)
EXTENDS EvalDrift

CONSTANTS
  NRuns,           \* runs 1..NRuns, one after the other on one box
  NItems,          \* items 1..NItems, in the order of the file
  Concurrency,     \* --concurrency: workers of the pool
  SetVersions, CodeVersions,
  Trees,           \* the trees the operator may have
  Builds, Release, \* Release[b]: the version build b reports
  Shape,           \* Shape[v][i]: item i of version v of the set
  Answers,         \* the model's answers
  Passing,         \* Passing[v]: the answers that pass version v's string checks
  FirstTree, FirstBuild,
  HasGit,          \* is there a git binary where the eval runs?
  MidRunChanges,   \* may the world change during a run?
  MaxChanges,      \* bound on changes of the world
  MaxFaults        \* bound on calls that fail

ASSUME ConcurrencyAssumption == Concurrency \in Nat \ {0}
ASSUME FirstAssumption ==
  /\ Trees \subseteq [code : CodeVersions, set : SetVersions]
  /\ FirstTree \in Trees /\ FirstBuild \in Builds
ASSUME SizesAssumption ==
  NRuns \in Nat \ {0} /\ NItems \in Nat \ {0} /\ MaxChanges \in Nat
  /\ MaxFaults \in Nat
ASSUME ShapeAssumption ==
  Shape \in [SetVersions -> [1..NItems -> Shapes]]
\* validate.py: every item has a positive check.
ASSUME PositiveAssumption ==
  \A v \in SetVersions : \A i \in 1..NItems : Positive(Shape[v][i])
ASSUME UnitAssumption ==
  /\ Unit \in Nat \ {0}
  /\ \A v \in SetVersions : \A i \in 1..NItems :
       Unit % (2 * (IF Shape[v][i].state = 0 THEN 1 ELSE Shape[v][i].state)) = 0

ASSUME NullAssumption == Null \notin Nat \cup Answers

Runs  == 1..NRuns
Items == 1..NItems

VARIABLES
  tree, head, build,   \* working tree, HEAD's tree, the server's build
  changes, faults,
  pc,                  \* where each run is
  code, loaded,        \* the code it runs, the version of the set it loaded
  server, commit,      \* what it read before the first question
  stage,               \* of each item: "todo", "asking", "judging" or "done"
  result,              \* its ItemResult; while it is judged, its answer
  answering,           \* history: the releases that answered or judged
  out                  \* the file it wrote

worldVars == <<tree, head, build, changes>>
idVars    == <<code, loaded, server, commit>>
itemVars  == <<stage, result, answering>>
vars      == <<worldVars, faults, pc, idVars, itemVars, out>>

Failure == [answer |-> Null, verdict |-> Null, score |-> Null]

Verdicts == UNION {VerdictsOn(Shape[v][i]) : v \in SetVersions, i \in Items}

Results == [answer : Answers \cup {Null}, verdict : Verdicts \cup {Null},
            score : 0..Unit \cup {Null}]

EvalTypeOK ==
  /\ tree \in Trees /\ head \in Trees /\ build \in Builds
  /\ pc \in [Runs -> {"new", "load", "identify", "commit", "score", "written",
                      "crashed"}]
  /\ stage \in [Runs -> [Items -> {"todo", "asking", "judging", "done"}]]
  /\ result \in [Runs -> [Items -> Results]]
  /\ \A r \in Runs : out[r] # Null =>
       out[r].score \in 0..(NItems * Unit) \cup {Null}

Init ==
  /\ tree = FirstTree /\ head = FirstTree
  /\ build = FirstBuild
  /\ changes = 0 /\ faults = 0
  /\ pc = [r \in Runs |-> "new"]
  /\ code = [r \in Runs |-> Null] /\ loaded = [r \in Runs |-> Null]
  /\ server = [r \in Runs |-> Null] /\ commit = [r \in Runs |-> Null]
  /\ stage = [r \in Runs |-> [i \in Items |-> "todo"]]
  /\ result = [r \in Runs |-> [i \in Items |-> Failure]]
  /\ answering = [r \in Runs |-> {}]
  /\ out = [r \in Runs |-> Null]

Goto(r, l) == pc' = [pc EXCEPT ![r] = l]

\* n more calls fail.
Faults(n) == faults + n <= MaxFaults /\ faults' = faults + n

Over(r)     == pc[r] \in {"written", "crashed"}
UnderWay(r) == pc[r] # "new" /\ ~ Over(r)

-----------------------------------------------------------------------------
(* Before the first question.                                              *)

\* The process imports its code.
Start(r) ==
  /\ pc[r] = "new" /\ \A q \in 1..(r - 1) : Over(q)
  /\ Goto(r, "load")
  /\ code' = [code EXCEPT ![r] = tree.code]
  /\ UNCHANGED <<worldVars, faults, loaded, server, commit, itemVars, out>>

LoadSet(r) ==
  /\ pc[r] = "load"
  /\ Goto(r, "identify")
  /\ loaded' = [loaded EXCEPT ![r] = tree.set]
  /\ UNCHANGED <<worldVars, faults, code, server, commit, itemVars, out>>

\* Version and fingerprint, each best effort.
ServerIdentity(r) ==
  /\ pc[r] = "identify"
  /\ Goto(r, "commit")
  /\ \E version \in {Release[build], Null}, fingerprint \in {build, Null} :
       /\ server' = [server EXCEPT ![r] =
                       [version |-> version, fingerprint |-> fingerprint]]
       /\ Faults(Cardinality({v \in {version, fingerprint} : v = Null}))
  /\ UNCHANGED <<worldVars, code, loaded, commit, itemVars, out>>

\* git rev-parse HEAD, or the files under .git.
GitCommit(r) ==
  /\ pc[r] = "commit"
  /\ Goto(r, "score")
  /\ commit' = [commit EXCEPT ![r] = head]
  /\ UNCHANGED <<worldVars, faults, code, loaded, server, itemVars, out>>

-----------------------------------------------------------------------------
(* Scoring: the pool takes the items in order.                             *)

ShapeOf(r, i) == Shape[loaded[r]][i]
InFlight(r)   == {i \in Items : stage[r][i] \in {"asking", "judging"}}

Stage(r, i, s)  == stage' = [stage EXCEPT ![r][i] = s]
Settle(r, i, x) == Stage(r, i, "done") /\ result' = [result EXCEPT ![r][i] = x]

Hears(r) == answering' = [answering EXCEPT ![r] = @ \cup {Release[build]}]

Ask(r, i) ==
  /\ pc[r] = "score" /\ stage[r][i] = "todo"
  /\ \A j \in 1..(i - 1) : stage[r][j] # "todo"
  /\ Cardinality(InFlight(r)) < Concurrency
  /\ Stage(r, i, "asking")
  /\ UNCHANGED <<worldVars, faults, pc, idVars, result, answering, out>>

\* The ItemResult of an answer and a verdict.
Scored(r, i, a, v) ==
  [answer |-> a, verdict |-> v,
   score |-> ItemScore(ShapeOf(r, i), a \in Passing[loaded[r]], v)]

\* An answer arrives; an item with no claims is scored without a judge.
Answer(r, i) ==
  /\ pc[r] = "score" /\ stage[r][i] = "asking"
  /\ \E a \in Answers :
       IF Judged(ShapeOf(r, i))
       THEN /\ Stage(r, i, "judging")
            /\ result' = [result EXCEPT ![r][i].answer = a]
       ELSE Settle(r, i, Scored(r, i, a, NoVerdict))
  /\ Hears(r)
  /\ UNCHANGED <<worldVars, faults, pc, idVars, out>>

JudgeItem(r, i) ==
  /\ pc[r] = "score" /\ stage[r][i] = "judging"
  /\ \E v \in VerdictsOn(ShapeOf(r, i)) :
       Settle(r, i, Scored(r, i, result[r][i].answer, v))
  /\ Hears(r)
  /\ UNCHANGED <<worldVars, faults, pc, idVars, out>>

\* RunError or JudgeError: recorded, and the run goes on.
ItemFails(r, i) ==
  /\ pc[r] = "score" /\ i \in InFlight(r) /\ Faults(1)
  /\ Settle(r, i, Failure)
  /\ UNCHANGED <<worldVars, pc, idVars, answering, out>>

\* Any other exception (a reset while the reply is read, a reply that is not
\* JSON): it leaves score_one and, through the pool, main.
ItemEscapes(r, i) ==
  /\ pc[r] = "score" /\ i \in InFlight(r) /\ Faults(1)
  /\ Goto(r, "crashed")
  /\ UNCHANGED <<worldVars, idVars, itemVars, out>>

-----------------------------------------------------------------------------
(* The file.                                                               *)

\* The sum of the scores there are.
Total(res) ==
  LET sum[n \in 0..NItems] ==
        IF n = 0 THEN 0
        ELSE sum[n - 1] + (IF res[n].score = Null THEN 0 ELSE res[n].score)
  IN  sum[NItems]

\* Mutant: the mean of the items that were scored.
SetScore_OfScored(res) == Total(res)

\* No set score from a partial run.
SetScore(res) ==
  IF \E i \in Items : res[i] = Failure THEN Null ELSE Total(res)

WriteOut(r) ==
  /\ pc[r] = "score" /\ \A i \in Items : stage[r][i] = "done"
  /\ Goto(r, "written")
  /\ out' = [out EXCEPT ![r] =
       [stamp |-> r,
        hash |-> tree.set,
        commit |-> commit[r],
        dirty |-> IF HasGit THEN tree # head ELSE Null,
        version |-> server[r].version,
        fingerprint |-> server[r].fingerprint,
        items |-> result[r],
        score |-> SetScore(result[r])]]
  /\ UNCHANGED <<worldVars, faults, idVars, itemVars>>

-----------------------------------------------------------------------------
(* The operator and the server's owner.                                    *)

MayChange == /\ changes < MaxChanges
             /\ MidRunChanges \/ \A r \in Runs : ~ UnderWay(r)
             /\ \E r \in Runs : ~ Over(r)

Change ==
  /\ MayChange
  /\ changes' = changes + 1
  /\ UNCHANGED <<faults, pc, idVars, itemVars, out>>

Edit ==
  /\ Change
  /\ \E t \in Trees \ {tree} : tree' = t
  /\ UNCHANGED <<head, build>>

\* git commit -a, or checkout: the tree is clean afterwards.
Commit ==
  /\ Change
  /\ \E t \in Trees : /\ {tree, head} # {t}
                      /\ tree' = t /\ head' = t
  /\ UNCHANGED build

Redeploy ==
  /\ Change
  /\ \E b \in Builds \ {build} : build' = b
  /\ UNCHANGED <<tree, head>>

RunStep(r) ==
  \/ Start(r) \/ LoadSet(r) \/ ServerIdentity(r) \/ GitCommit(r) \/ WriteOut(r)
  \/ \E i \in Items : Ask(r, i) \/ Answer(r, i) \/ JudgeItem(r, i)
                      \/ ItemFails(r, i) \/ ItemEscapes(r, i)

Next == (\E r \in Runs : RunStep(r)) \/ Edit \/ Commit \/ Redeploy

Spec == Init /\ [][Next]_vars

-----------------------------------------------------------------------------
(* Safety.                                                                 *)

Files == {out[r] : r \in Runs} \ {Null}

\* A set score is a mean over the whole set: a file has one exactly when every
\* item was answered and judged, and every item has a score of its own (the
\* JudgeError of an item without layers is never raised on a validated set).
ScoreIsWhole ==
  \A f \in Files :
    /\ f.score # Null <=> \A i \in Items : f.items[i].answer # Null
    /\ \A i \in Items : f.items[i].answer # Null => f.items[i].score # Null

\* drift.py:14, "refuses to compare runs that differ in anything but time": two
\* runs it compares ran the same code on the same set against one release, if
\* there is a git to tell the state of the tree and the world was left alone
\* while each of them was under way.
NoiseOnly ==
  \A r, q \in Runs :
    (out[r] # Null /\ out[q] # Null /\ r # q /\ Comparable(out[r], out[q])) =>
      /\ code[r] = code[q] /\ loaded[r] = loaded[q]
      /\ answering[r] = answering[q]

\* Comparability is not transitive (a run without a fingerprint matches any),
\* yet a report that is accepted has at most one fingerprint; and the drift it
\* reports is the whole spread of the scores.
ReportIsHomogeneous ==
  Accepts(Files) =>
    /\ Cardinality({f.fingerprint : f \in Files} \ {Null}) <= 1
    /\ LET scores == {f.score : f \in Files}
       IN  Drift(Files) = Max(scores) - Min(scores)

\* If the world was left alone, as for NoiseOnly: every item that moved has one
\* cause, an item blamed on the judge has other verdicts, no change of verdict
\* on the same answer goes unreported, and a gap has an item that explains it.
DriftIsExplained ==
  \A a, b \in Files : (a # b /\ Comparable(a, b)) =>
    /\ MovedByJudge(a, b) \cap MovedByGeneration(a, b) = {}
    /\ MovedByJudge(a, b) \cup MovedByGeneration(a, b) = Moved(a, b)
    /\ \A i \in Items :
         (SameAnswer(a, b, i) /\ a.items[i].verdict # b.items[i].verdict)
           <=> i \in MovedByJudge(a, b) \cup HiddenFlips(a, b)
    /\ Gap(a, b) > 0 => Moved(a, b) # {}

-----------------------------------------------------------------------------
(* What the documentation says and the code does not do.                   *)

\* run.py:416-418, "the hash is how an edit is caught": two runs that are
\* compared have scored the same items.
EditIsCaught ==
  \A r, q \in Runs :
    (out[r] # Null /\ out[q] # Null /\ r # q /\ Comparable(out[r], out[q])) =>
      loaded[r] = loaded[q]
=============================================================================
