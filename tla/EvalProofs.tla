----------------------------- MODULE EvalProofs -----------------------------
(***************************************************************************)
(* Proofs about EvalRun, for any number of runs and items, any set, any    *)
(* concurrency and any history of the code, the set and the server.        *)
(*                                                                         *)
(* A score is a sum over the items, so the first part is induction, with   *)
(* the lemmas of Counting: Total is what counting up the items arrives at. *)
(*                                                                         *)
(* EvalInv says of each run by itself what its result, and then its file,  *)
(* is made of.  What two files say of each other needs QuietInv too: while *)
(* a run is under way the world still is what it has read of it, which is  *)
(* so when nothing changes meanwhile.  A file then names by its hash and   *)
(* its version the set and the release, and by its commit, if the tree is  *)
(* known to be clean, the code.                                            *)
(***************************************************************************)
EXTENDS EvalRun, Counting, FiniteSetTheorems, TLAPS

USE SizesAssumption DEF Runs, Items

-----------------------------------------------------------------------------
(* The total of a run is a sum.                                            *)

Points(x) == IF x.score = Null THEN 0 ELSE x.score

\* Results whose scores can be added.
Summable(res) == \A i \in Items : Points(res[i]) \in Nat /\ Points(res[i]) <= Unit

Worths(res) == [i \in Items |-> Points(res[i])]

\* Total is what counting up all items arrives at.
LEMMA TotalIsTheSum ==
  ASSUME NEW res, Summable(res)
  PROVE  \E g : Sums(g, Worths(res), NItems) /\ Total(res) = g[NItems]
<1> DEFINE f == CHOOSE f : f = [n \in 0..NItems |->
                  IF n = 0 THEN 0
                  ELSE f[n - 1] + (IF res[n].score = Null THEN 0 ELSE res[n].score)]
<1>1. Total(res) = f[NItems]
  BY DEF Total
<1>2. NItems \in Nat /\ \A n \in 1..NItems : Worths(res)[n] \in Nat
  BY DEF Worths, Summable
<1>3. PICK g : Sums(g, Worths(res), NItems)
  BY <1>2, SumsExist
<1>4. g = [n \in 0..NItems |->
             IF n = 0 THEN 0
             ELSE g[n - 1] + (IF res[n].score = Null THEN 0 ELSE res[n].score)]
  BY <1>3 DEF Sums, Points, Worths
<1>5. f = [n \in 0..NItems |->
             IF n = 0 THEN 0
             ELSE f[n - 1] + (IF res[n].score = Null THEN 0 ELSE res[n].score)]
  BY <1>4
<1> HIDE DEF f
<1>6. f = [n \in 0..NItems |-> IF n = 0 THEN 0 ELSE f[n - 1] + Worths(res)[n]]
  BY <1>5 DEF Points, Worths
<1>7. Sums(f, Worths(res), NItems)
  BY <1>2, <1>6, SumsOf
<1> QED BY <1>1, <1>7

\* A run of N items has at most N full scores.
LEMMA TotalType ==
  ASSUME NEW res, Summable(res)
  PROVE  Total(res) \in 0..(NItems * Unit)
<1>1. PICK g : Sums(g, Worths(res), NItems) /\ Total(res) = g[NItems]
  BY TotalIsTheSum
<1>2. Unit \in Nat
  BY UnitAssumption
<1> DEFINE S == {n \in Nat : n <= NItems => g[n] <= n * Unit}
<1>3. 0 \in S
  BY <1>1, <1>2 DEF Sums
<1>4. ASSUME NEW n \in Nat, n \in S PROVE n + 1 \in S
  <2>1. SUFFICES ASSUME n + 1 <= NItems PROVE g[n + 1] <= (n + 1) * Unit
    OBVIOUS
  <2>2. n + 1 \in 1..NItems /\ n + 1 - 1 = n /\ n \in 0..NItems
    BY <2>1
  <2>3. g[n + 1] = g[n] + Points(res[n + 1]) /\ g[n] \in Nat
    BY <1>1, <2>2 DEF Sums, Worths
  <2>4. Points(res[n + 1]) \in Nat /\ Points(res[n + 1]) <= Unit
    BY <2>2 DEF Summable
  <2>5. g[n] <= n * Unit
    BY <1>4, <2>2
  <2>6. (n + 1) * Unit = n * Unit + Unit /\ n * Unit \in Nat
    BY <1>2
  <2> QED BY <1>2, <2>3, <2>4, <2>5, <2>6
<1> HIDE DEF S
<1>5. NItems \in S
  BY <1>3, <1>4, CountingUp
<1>6. g[NItems] \in Nat /\ NItems * Unit \in Nat
  BY <1>1, <1>2 DEF Sums
<1> QED BY <1>1, <1>5, <1>6 DEF S

\* Runs whose items have the same scores have the same total.
LEMMA TotalOfSameScores ==
  ASSUME NEW x, NEW y, Summable(x), Summable(y),
         \A i \in Items : x[i].score = y[i].score
  PROVE  Total(x) = Total(y)
<1>1. PICK g : Sums(g, Worths(x), NItems) /\ Total(x) = g[NItems]
  BY TotalIsTheSum
<1>2. PICK h : Sums(h, Worths(y), NItems) /\ Total(y) = h[NItems]
  BY TotalIsTheSum
<1> DEFINE S == {n \in Nat : n <= NItems => g[n] = h[n]}
<1>3. 0 \in S
  BY <1>1, <1>2 DEF Sums
<1>4. ASSUME NEW n \in Nat, n \in S PROVE n + 1 \in S
  <2>1. SUFFICES ASSUME n + 1 <= NItems PROVE g[n + 1] = h[n + 1]
    OBVIOUS
  <2>2. n + 1 \in 1..NItems /\ n + 1 - 1 = n
    BY <2>1
  <2>3. g[n + 1] = g[n] + Points(x[n + 1]) /\ h[n + 1] = h[n] + Points(y[n + 1])
    BY <1>1, <1>2, <2>2 DEF Sums, Worths
  <2>4. g[n] = h[n]
    BY <1>4, <2>2
  <2> QED BY <2>2, <2>3, <2>4 DEF Points
<1> HIDE DEF S
<1>5. NItems \in S
  BY <1>3, <1>4, CountingUp
<1> QED BY <1>1, <1>2, <1>5 DEF S

-----------------------------------------------------------------------------
(* The score of an item.                                                   *)

\* A part of at most s out of s is at most the whole.
LEMMA PartOfWhole ==
  ASSUME NEW u \in Nat, NEW s \in Nat \ {0}, NEW c \in 0..s
  PROVE  (u * c) \div s \in 0..u
<1>1. u * c \in Nat /\ s \in Nat /\ s > 0
  OBVIOUS
<1> DEFINE q == (u * c) \div s
<1>2. q \in Nat /\ s * q <= u * c
  BY <1>1
<1>3. u * c <= u * s
  OBVIOUS
<1> HIDE DEF q
<1>4. ASSUME q > u PROVE FALSE
  <2>1. q >= u + 1 
    BY <1>2, <1>4
  <2>2. s * q >= s * (u + 1)
    BY <1>1, <1>2, <2>1
  <2>3. s * (u + 1) = u * s + s
    OBVIOUS
  <2> QED BY <1>1, <1>2, <1>3, <2>2, <2>3
<1>5. q \in 0..u
  BY <1>2, <1>4
<1> QED BY <1>5 DEF q

\* An item of a validated set has a score, whatever the verdict.
LEMMA ItemScoreType ==
  ASSUME NEW s \in Shapes, Positive(s), NEW passes, NEW v \in VerdictsOn(s)
  PROVE  ItemScore(s, passes, v) \in 0..Unit
<1>1. Unit \in Nat /\ Null \notin Nat
  BY UnitAssumption, NullAssumption
<1>2. s.state \in Nat /\ s.strings \in BOOLEAN
  BY DEF Shapes
<1>3. Cardinality(v.stated) \in 0..s.state
  <2>1. v.stated \in SUBSET (1..s.state)
    BY DEF VerdictsOn
  <2>2. IsFiniteSet(1..s.state) /\ Cardinality(1..s.state) = s.state
    <3> DEFINE n == s.state
    <3>1. n \in Nat
      BY <1>2
    <3> HIDE DEF n
    <3>2. IsFiniteSet(1..n) /\ Cardinality(1..n) = n
      BY <3>1, FS_Interval
    <3> QED BY <3>2 DEF n
  <2>3. IsFiniteSet(v.stated) /\ Cardinality(v.stated) <= s.state
    BY <2>1, <2>2, FS_Subset
  <2> QED BY <1>2, <2>3, FS_CardinalityType
<1>4. StringScore(s, passes) \in 0..Unit \cup {Null}
  BY <1>1 DEF StringScore
<1>5. JudgeScore(s, v) \in 0..Unit \cup {Null}
  <2>1. CASE v.claimed # {} \/ s.state = 0
    BY <1>1, <2>1 DEF JudgeScore
  <2>2. CASE v.claimed = {} /\ s.state # 0
    BY <1>1, <1>2, <1>3, <2>2, PartOfWhole DEF JudgeScore
  <2> QED BY <2>1, <2>2
<1>6. StringScore(s, passes) = Null => JudgeScore(s, v) # Null
  <2>1. SUFFICES ASSUME StringScore(s, passes) = Null PROVE JudgeScore(s, v) # Null
    OBVIOUS
  <2>2. ~ s.strings
    BY <1>1, <2>1 DEF StringScore
  <2>3. s.state # 0
    BY <1>2, <2>2 DEF Positive
  <2>4. (Unit * Cardinality(v.stated)) \div s.state \in Nat
    BY <1>1, <1>2, <1>3, <2>3, PartOfWhole
  <2> QED BY <1>1, <2>3, <2>4 DEF JudgeScore
<1> DEFINE a == StringScore(s, passes)
           b == JudgeScore(s, v)
<1>7. ItemScore(s, passes, v)
        = IF a = Null THEN b ELSE IF b = Null THEN a ELSE (a + b) \div 2
  BY DEF ItemScore
<1> HIDE DEF a, b
<1>8. a \in 0..Unit \cup {Null} /\ b \in 0..Unit \cup {Null} /\ (a = Null => b # Null)
  BY <1>4, <1>5, <1>6 DEF a, b
<1>9. CASE a # Null /\ b # Null
  BY <1>1, <1>7, <1>8, <1>9
<1>10. CASE a = Null \/ b = Null
  BY <1>7, <1>8, <1>10
<1> QED BY <1>9, <1>10

-----------------------------------------------------------------------------
(* The invariant.                                                          *)

Releases == {Release[b] : b \in Builds}
Servers  == [version : Releases \cup {Null}, fingerprint : Builds \cup {Null}]

Stages == {"todo", "asking", "judging", "done"}

\* What an item ends as: failed, or answered and scored.
Settled == {x \in Results : x = Failure \/ (x.answer \in Answers /\ x.score \in 0..Unit)}

FilesWritten ==
  [stamp : Runs, hash : SetVersions, commit : Trees \cup {Null},
   dirty : BOOLEAN \cup {Null}, version : Releases \cup {Null},
   fingerprint : Builds \cup {Null}, items : [Items -> Settled],
   score : 0..(NItems * Unit) \cup {Null}]

WorldType == tree \in Trees /\ head \in Trees /\ build \in Builds

RunsType ==
  /\ pc \in [Runs -> {"new", "load", "identify", "commit", "score", "written",
                      "crashed"}]
  /\ code \in [Runs -> CodeVersions \cup {Null}]
  /\ loaded \in [Runs -> SetVersions \cup {Null}]
  /\ server \in [Runs -> Servers \cup {Null}]
  /\ commit \in [Runs -> Trees \cup {Null}]
  /\ stage \in [Runs -> [Items -> Stages]]
  /\ result \in [Runs -> [Items -> Results]]
  /\ answering \in [Runs -> SUBSET Releases]
  /\ out \in [Runs -> FilesWritten \cup {Null}]

\* Where item i of version v of the set is says what its result is.
ItemSound(v, i, s, x) ==
  /\ s \in {"todo", "asking"} => x = Failure
  /\ s = "judging" => x.answer \in Answers
  /\ s = "done" =>
       /\ x \in Settled
       /\ x # Failure =>
            x.score = ItemScore(Shape[v][i], x.answer \in Passing[v], x.verdict)

\* By the time a run scores it knows its set and its server; the file is made of
\* what the run has gathered.
RunSound(r) ==
  /\ pc[r] \notin {"new", "load"} => loaded[r] \in SetVersions
  /\ pc[r] \in {"new", "load"} => \A i \in Items : stage[r][i] = "todo"
  /\ pc[r] \in {"commit", "score", "written"} => server[r] \in Servers
  /\ \A i \in Items : ItemSound(loaded[r], i, stage[r][i], result[r][i])
  /\ out[r] # Null =>
       /\ pc[r] = "written"
       /\ out[r].stamp = r /\ out[r].commit = commit[r]
       /\ out[r].version = server[r].version
       /\ out[r].items = result[r] /\ out[r].score = SetScore(result[r])
       /\ \A i \in Items : stage[r][i] = "done"

EvalInv == WorldType /\ RunsType /\ \A r \in Runs : RunSound(r)

\* While a run is under way the world is as it found it, as far as it has
\* looked; a file names its set by the hash and, if its tree is known to be clean,
\* its code by the commit.
RunQuiet(r) ==
  /\ pc[r] \in {"load", "identify", "commit", "score"} => code[r] = tree.code
  /\ pc[r] \in {"identify", "commit", "score"} => loaded[r] = tree.set
  /\ pc[r] \in {"commit", "score"} => server[r].version \in {Release[build], Null}
  /\ pc[r] = "score" => commit[r] = head /\ answering[r] \subseteq {Release[build]}
  /\ pc[r] \in {"new", "load", "identify", "commit"} => answering[r] = {}
  /\ (\E i \in Items : result[r][i] # Failure) => answering[r] # {}
  /\ out[r] # Null =>
       /\ out[r].hash = loaded[r]
       /\ HasGit /\ out[r].dirty # TRUE => code[r] = out[r].commit.code
       /\ \E v \in Releases : /\ answering[r] \subseteq {v}
                              /\ out[r].version \in {v, Null}

QuietInv == \A r \in Runs : RunQuiet(r)

-----------------------------------------------------------------------------
(* Steps.                                                                  *)

LEMMA FailureSettles == Failure \in Settled /\ Failure.answer = Null
BY NullAssumption DEF Failure, Settled, Results

\* What score_one returns of an answer and a verdict that fits it.
LEMMA ScoredSettles ==
  ASSUME NEW r \in Runs, loaded[r] \in SetVersions, NEW i \in Items,
         NEW a \in Answers, NEW v \in VerdictsOn(ShapeOf(r, i))
  PROVE  Scored(r, i, a, v) \in Settled
<1>1. ShapeOf(r, i) \in Shapes /\ Positive(ShapeOf(r, i))
  BY ShapeAssumption, PositiveAssumption DEF ShapeOf
<1>2. ItemScore(ShapeOf(r, i), a \in Passing[loaded[r]], v) \in 0..Unit
  BY <1>1, ItemScoreType
<1>3. v \in Verdicts
  BY DEF Verdicts, ShapeOf
<1> QED BY <1>2, <1>3 DEF Scored, Settled, Results

LEMMA NoVerdictFits == ASSUME NEW s PROVE NoVerdict \in VerdictsOn(s)
BY DEF NoVerdict, VerdictsOn

\* What a step may touch of a run.
Local(q) == <<pc[q], code[q], loaded[q], server[q], commit[q], stage[q], result[q],
              answering[q], out[q]>>

LEMMA SettleIsLocal ==
  ASSUME RunsType, NEW r \in Runs, NEW i \in Items, NEW x \in Results,
         Settle(r, i, x)
  PROVE  /\ stage' \in [Runs -> [Items -> Stages]]
         /\ result' \in [Runs -> [Items -> Results]]
         /\ \A q \in Runs \ {r} : stage'[q] = stage[q] /\ result'[q] = result[q]
         /\ \A j \in Items \ {i} : /\ stage'[r][j] = stage[r][j]
                                   /\ result'[r][j] = result[r][j]
         /\ stage'[r][i] = "done" /\ result'[r][i] = x
BY DEF RunsType, Settle, Stage, Stages

LEMMA StageIsLocal ==
  ASSUME RunsType, NEW r \in Runs, NEW i \in Items, NEW s \in Stages, Stage(r, i, s)
  PROVE  /\ stage' \in [Runs -> [Items -> Stages]]
         /\ \A q \in Runs \ {r} : stage'[q] = stage[q]
         /\ \A j \in Items \ {i} : stage'[r][j] = stage[r][j]
         /\ stage'[r][i] = s
BY DEF RunsType, Stage, Stages

LEMMA HearsIsLocal ==
  ASSUME WorldType, RunsType, NEW r \in Runs, Hears(r)
  PROVE  /\ answering' \in [Runs -> SUBSET Releases]
         /\ \A q \in Runs \ {r} : answering'[q] = answering[q]
         /\ answering'[r] = answering[r] \cup {Release[build]}
BY DEF WorldType, RunsType, Hears, Releases

LEMMA GotoIsLocal ==
  ASSUME RunsType, NEW r \in Runs,
         NEW l \in {"load", "identify", "commit", "score", "written", "crashed"},
         Goto(r, l)
  PROVE  /\ pc' \in [Runs -> {"new", "load", "identify", "commit", "score", "written",
                              "crashed"}]
         /\ \A q \in Runs \ {r} : pc'[q] = pc[q]
         /\ pc'[r] = l
BY DEF RunsType, Goto

\* A run a step does not touch stays sound.
LEMMA SoundKept ==
  ASSUME NEW q \in Runs, RunSound(q), UNCHANGED Local(q)
  PROVE  RunSound(q)'
BY DEF RunSound, Local

-----------------------------------------------------------------------------
(* The steps of a run keep the invariant.                                  *)

LEMMA StartSound ==
  ASSUME EvalInv, NEW r \in Runs, Start(r)
  PROVE  EvalInv'
<1>1. RunsType' /\ pc'[r] = "load" /\ \A q \in Runs \ {r} : UNCHANGED Local(q)
  <2>1. code' \in [Runs -> CodeVersions \cup {Null}]
        /\ \A q \in Runs \ {r} : code'[q] = code[q]
    BY FirstAssumption DEF EvalInv, WorldType, RunsType, Start
  <2> QED BY <2>1, GotoIsLocal DEF EvalInv, RunsType, Start, idVars, itemVars, Local
<1>2. RunSound(r)'
  BY <1>1 DEF EvalInv, RunSound, Start, itemVars, ItemSound
<1> QED BY <1>1, <1>2, SoundKept DEF EvalInv, WorldType, Start, worldVars

LEMMA LoadSetSound ==
  ASSUME EvalInv, NEW r \in Runs, LoadSet(r)
  PROVE  EvalInv'
<1>1. RunsType' /\ pc'[r] = "identify" /\ \A q \in Runs \ {r} : UNCHANGED Local(q)
  <2>1. loaded' \in [Runs -> SetVersions \cup {Null}]
        /\ \A q \in Runs \ {r} : loaded'[q] = loaded[q]
    BY FirstAssumption DEF EvalInv, WorldType, RunsType, LoadSet
  <2> QED BY <2>1, GotoIsLocal DEF EvalInv, RunsType, LoadSet, itemVars, Local
<1>2. loaded'[r] \in SetVersions
  BY FirstAssumption DEF EvalInv, WorldType, RunsType, LoadSet
<1>3. RunSound(r)'
  BY <1>1, <1>2 DEF EvalInv, RunSound, LoadSet, itemVars, ItemSound
<1> QED BY <1>1, <1>3, SoundKept DEF EvalInv, WorldType, LoadSet, worldVars

LEMMA ServerIdentitySound ==
  ASSUME EvalInv, NEW r \in Runs, ServerIdentity(r)
  PROVE  EvalInv'
<1>0. PICK x \in Servers : server' = [server EXCEPT ![r] = x]
  BY DEF EvalInv, WorldType, ServerIdentity, Servers, Releases
<1>1. RunsType' /\ pc'[r] = "commit" /\ \A q \in Runs \ {r} : UNCHANGED Local(q)
  <2>1. server' \in [Runs -> Servers \cup {Null}]
        /\ \A q \in Runs \ {r} : server'[q] = server[q]
    BY <1>0 DEF EvalInv, RunsType
  <2> QED BY <2>1, GotoIsLocal DEF EvalInv, RunsType, ServerIdentity, itemVars, Local
<1>2. server'[r] \in Servers
  BY <1>0 DEF EvalInv, RunsType
<1>3. RunSound(r)'
  BY <1>1, <1>2 DEF EvalInv, RunSound, ServerIdentity, itemVars, ItemSound
<1> QED BY <1>1, <1>3, SoundKept DEF EvalInv, WorldType, ServerIdentity, worldVars

LEMMA GitCommitSound ==
  ASSUME EvalInv, NEW r \in Runs, GitCommit(r)
  PROVE  EvalInv'
<1>1. RunsType' /\ pc'[r] = "score" /\ \A q \in Runs \ {r} : UNCHANGED Local(q)
  <2>1. commit' \in [Runs -> Trees \cup {Null}]
        /\ \A q \in Runs \ {r} : commit'[q] = commit[q]
    BY DEF EvalInv, WorldType, RunsType, GitCommit
  <2> QED BY <2>1, GotoIsLocal DEF EvalInv, RunsType, GitCommit, itemVars, Local
<1>2. RunSound(r)'
  BY <1>1 DEF EvalInv, RunSound, GitCommit, itemVars, ItemSound
<1> QED BY <1>1, <1>2, SoundKept DEF EvalInv, WorldType, GitCommit, worldVars

\* A step of the pool on one item of one run.
OnlyItem(r, i) ==
  /\ stage' \in [Runs -> [Items -> Stages]]
  /\ result' \in [Runs -> [Items -> Results]]
  /\ answering' \in [Runs -> SUBSET Releases]
  /\ \A q \in Runs \ {r} : /\ stage'[q] = stage[q] /\ result'[q] = result[q]
                          /\ answering'[q] = answering[q]
  /\ \A j \in Items \ {i} : /\ stage'[r][j] = stage[r][j]
                           /\ result'[r][j] = result[r][j]

LEMMA ItemStepSound ==
  ASSUME EvalInv, NEW r \in Runs, NEW i \in Items, pc[r] = "score",
         stage[r][i] # "done", OnlyItem(r, i),
         ItemSound(loaded[r], i, stage'[r][i], result'[r][i]),
         UNCHANGED <<worldVars, pc, idVars, out>>
  PROVE  EvalInv'
<1>1. RunsType' /\ WorldType'
  BY DEF EvalInv, RunsType, WorldType, OnlyItem, worldVars, idVars
<1>2. \A q \in Runs \ {r} : UNCHANGED Local(q)
  BY DEF Local, OnlyItem, idVars
<1>3. out[r] = Null
  BY DEF EvalInv, RunSound
<1>4. \A j \in Items : ItemSound(loaded[r], j, stage[r][j], result[r][j])'
  BY DEF EvalInv, RunSound, OnlyItem, idVars
<1>5. RunSound(r)'
  BY <1>3, <1>4 DEF EvalInv, RunSound, idVars
<1> QED BY <1>1, <1>2, <1>5, SoundKept DEF EvalInv

LEMMA AskSound ==
  ASSUME EvalInv, NEW r \in Runs, NEW i \in Items, Ask(r, i)
  PROVE  EvalInv'
<1>1. Stage(r, i, "asking") /\ stage[r][i] = "todo" /\ result' = result
  BY DEF Ask
<1>2. ItemSound(loaded[r], i, stage'[r][i], result'[r][i])
  BY <1>1, StageIsLocal DEF EvalInv, RunSound, ItemSound, Stages
<1>3. OnlyItem(r, i)
  BY <1>1, StageIsLocal DEF EvalInv, RunsType, Stages, Ask, OnlyItem
<1> QED BY <1>1, <1>2, <1>3, ItemStepSound DEF Ask

LEMMA AnswerSound ==
  ASSUME EvalInv, NEW r \in Runs, NEW i \in Items, Answer(r, i)
  PROVE  EvalInv'
<1>1. /\ pc[r] = "score" /\ stage[r][i] = "asking" /\ loaded[r] \in SetVersions
      /\ Hears(r) /\ UNCHANGED <<worldVars, pc, idVars, out>>
  BY DEF Answer, EvalInv, RunSound
<1>2. PICK a \in Answers :
        IF Judged(ShapeOf(r, i))
        THEN Stage(r, i, "judging") /\ result' = [result EXCEPT ![r][i].answer = a]
        ELSE Settle(r, i, Scored(r, i, a, NoVerdict))
  BY DEF Answer
<1>3. CASE Judged(ShapeOf(r, i))
  <2>1. result[r][i] \in Results /\ [result[r][i] EXCEPT !.answer = a] \in Results
    <3>1. result[r][i] \in Results
      BY DEF EvalInv, RunsType
    <3> QED BY <3>1 DEF Results
  <2> DEFINE x == [result[r][i] EXCEPT !.answer = a]
  <2>2. result' = [result EXCEPT ![r] = [result[r] EXCEPT ![i] = x]]
    BY <1>2, <1>3
  <2> HIDE DEF x
  <2>3. /\ result' \in [Runs -> [Items -> Results]]
        /\ \A q \in Runs \ {r} : result'[q] = result[q]
        /\ \A j \in Items \ {i} : result'[r][j] = result[r][j]
        /\ result'[r][i] = x
    BY <2>1, <2>2 DEF EvalInv, RunsType, x
  <2>4. stage'[r][i] = "judging" /\ result'[r][i].answer = a
    BY <1>2, <1>3, <2>1, <2>3, StageIsLocal DEF EvalInv, Stages, Results, x
  <2>5. ItemSound(loaded[r], i, stage'[r][i], result'[r][i])
    BY <2>4 DEF ItemSound
  <2>6. OnlyItem(r, i)
    BY <1>1, <1>2, <1>3, <2>3, StageIsLocal, HearsIsLocal DEF EvalInv, Stages, OnlyItem
  <2> QED BY <1>1, <2>5, <2>6, ItemStepSound
<1>4. CASE ~ Judged(ShapeOf(r, i))
  <2> DEFINE x == Scored(r, i, a, NoVerdict)
  <2>1. x \in Settled /\ x \in Results
    BY <1>1, NoVerdictFits, ScoredSettles DEF Settled
  <2>2. Settle(r, i, x)
    BY <1>2, <1>4
  <2>3. x.score = ItemScore(Shape[loaded[r]][i], x.answer \in Passing[loaded[r]], x.verdict)
    BY DEF Scored, ShapeOf
  <2> HIDE DEF x
  <2>4. ItemSound(loaded[r], i, stage'[r][i], result'[r][i])
    BY <2>1, <2>2, <2>3, SettleIsLocal DEF EvalInv, ItemSound
  <2>5. OnlyItem(r, i)
    BY <1>1, <2>1, <2>2, SettleIsLocal, HearsIsLocal DEF EvalInv, OnlyItem
  <2> QED BY <1>1, <2>4, <2>5, ItemStepSound
<1> QED BY <1>3, <1>4

LEMMA JudgeItemSound ==
  ASSUME EvalInv, NEW r \in Runs, NEW i \in Items, JudgeItem(r, i)
  PROVE  EvalInv'
<1>1. /\ pc[r] = "score" /\ stage[r][i] = "judging" /\ loaded[r] \in SetVersions
      /\ result[r][i].answer \in Answers
      /\ Hears(r) /\ UNCHANGED <<worldVars, pc, idVars, out>>
  BY DEF JudgeItem, EvalInv, RunSound, ItemSound
<1>2. PICK v \in VerdictsOn(ShapeOf(r, i)) :
        Settle(r, i, Scored(r, i, result[r][i].answer, v))
  BY DEF JudgeItem
<1> DEFINE x == Scored(r, i, result[r][i].answer, v)
<1>3. x \in Settled /\ x \in Results
  BY <1>1, ScoredSettles DEF Settled
<1>4. Settle(r, i, x)
  BY <1>2
<1>5. x.score = ItemScore(Shape[loaded[r]][i], x.answer \in Passing[loaded[r]], x.verdict)
  BY DEF Scored, ShapeOf
<1> HIDE DEF x
<1>6. ItemSound(loaded[r], i, stage'[r][i], result'[r][i])
  BY <1>3, <1>4, <1>5, SettleIsLocal DEF EvalInv, ItemSound
<1>7. OnlyItem(r, i)
  BY <1>1, <1>3, <1>4, SettleIsLocal, HearsIsLocal DEF EvalInv, OnlyItem
<1> QED BY <1>1, <1>6, <1>7, ItemStepSound

LEMMA ItemFailsSound ==
  ASSUME EvalInv, NEW r \in Runs, NEW i \in Items, ItemFails(r, i)
  PROVE  EvalInv'
<1>1. /\ pc[r] = "score" /\ stage[r][i] # "done" /\ Settle(r, i, Failure)
      /\ UNCHANGED <<worldVars, pc, idVars, answering, out>>
  BY DEF ItemFails, InFlight
<1>2. Failure \in Settled /\ Failure \in Results
  BY FailureSettles DEF Settled
<1>3. ItemSound(loaded[r], i, stage'[r][i], result'[r][i])
  BY <1>1, <1>2, SettleIsLocal DEF EvalInv, ItemSound
<1>4. OnlyItem(r, i)
  BY <1>1, <1>2, SettleIsLocal DEF EvalInv, RunsType, OnlyItem
<1> QED BY <1>1, <1>3, <1>4, ItemStepSound

LEMMA ItemEscapesSound ==
  ASSUME EvalInv, NEW r \in Runs, NEW i \in Items, ItemEscapes(r, i)
  PROVE  EvalInv'
<1>1. RunsType' /\ pc'[r] = "crashed" /\ \A q \in Runs \ {r} : UNCHANGED Local(q)
  BY GotoIsLocal DEF EvalInv, RunsType, ItemEscapes, idVars, itemVars, Local
<1>2. RunSound(r)'
  BY <1>1 DEF EvalInv, RunSound, ItemEscapes, idVars, itemVars, ItemSound
<1> QED BY <1>1, <1>2, SoundKept DEF EvalInv, WorldType, ItemEscapes, worldVars

LEMMA WriteOutSound ==
  ASSUME EvalInv, NEW r \in Runs, WriteOut(r)
  PROVE  EvalInv'
<1> DEFINE file == [stamp |-> r, hash |-> tree.set, commit |-> commit[r],
                    dirty |-> IF HasGit THEN tree # head ELSE Null,
                    version |-> server[r].version,
                    fingerprint |-> server[r].fingerprint,
                    items |-> result[r], score |-> SetScore(result[r])]
<1>1. /\ pc[r] = "score" /\ \A i \in Items : stage[r][i] = "done"
      /\ loaded[r] \in SetVersions /\ server[r] \in Servers
      /\ out' = [out EXCEPT ![r] = file]
      /\ UNCHANGED <<worldVars, idVars, itemVars>>
  BY DEF WriteOut, EvalInv, RunSound
<1>2. result[r] \in [Items -> Settled]
  BY <1>1 DEF EvalInv, RunsType, RunSound, ItemSound
<1>3. SetScore(result[r]) \in 0..(NItems * Unit) \cup {Null}
  <2>1. SUFFICES ASSUME \A i \in Items : result[r][i] # Failure
                 PROVE  Total(result[r]) \in 0..(NItems * Unit)
    BY DEF SetScore
  <2>2. ASSUME NEW i \in Items PROVE result[r][i].score \in 0..Unit
    BY <1>2, <2>1 DEF Settled
  <2>3. Summable(result[r])
    BY <2>2, UnitAssumption DEF Summable, Points
  <2> QED BY <2>3, TotalType
<1>4. file \in FilesWritten
  <2>1. tree.set \in SetVersions
    BY FirstAssumption DEF EvalInv, WorldType
  <2>2. commit[r] \in Trees \cup {Null}
    BY DEF EvalInv, RunsType
  <2>3. server[r].version \in Releases \cup {Null} /\ server[r].fingerprint \in Builds \cup {Null}
    BY <1>1 DEF Servers
  <2>4. (IF HasGit THEN tree # head ELSE Null) \in BOOLEAN \cup {Null}
    OBVIOUS
  <2> QED BY <1>2, <1>3, <2>1, <2>2, <2>3, <2>4 DEF FilesWritten
<1>5. /\ file.stamp = r /\ file.commit = commit[r] /\ file.version = server[r].version
      /\ file.items = result[r] /\ file.score = SetScore(result[r])
  OBVIOUS
<1> HIDE DEF file
<1>6. /\ out' \in [Runs -> FilesWritten \cup {Null}]
      /\ out'[r] = file /\ \A q \in Runs \ {r} : out'[q] = out[q]
  BY <1>1, <1>4 DEF EvalInv, RunsType
<1>7. RunsType' /\ pc'[r] = "written" /\ \A q \in Runs \ {r} : UNCHANGED Local(q)
  BY <1>1, <1>6, GotoIsLocal DEF EvalInv, RunsType, WriteOut, idVars, itemVars, Local
<1>8. RunSound(r)'
  <2>1. UNCHANGED <<loaded, server, commit, stage, result>>
    BY <1>1 DEF idVars, itemVars
  <2>2. \A i \in Items : ItemSound(loaded[r], i, stage[r][i], result[r][i])'
    BY <2>1 DEF EvalInv, RunSound
  <2>3. /\ out'[r].stamp = r /\ out'[r].commit = commit'[r]
        /\ out'[r].version = server'[r].version
        /\ out'[r].items = result'[r] /\ out'[r].score = SetScore(result'[r])
        /\ \A i \in Items : stage'[r][i] = "done"
    BY <1>1, <1>5, <1>6, <2>1
  <2> QED BY <1>1, <1>7, <2>1, <2>2, <2>3 DEF RunSound
<1> QED BY <1>1, <1>7, <1>8, SoundKept DEF EvalInv, WorldType, worldVars

LEMMA WorldSound ==
  ASSUME EvalInv, Edit \/ Commit \/ Redeploy
  PROVE  EvalInv'
<1>1. WorldType'
  BY DEF EvalInv, WorldType, Edit, Commit, Redeploy
<1>2. UNCHANGED <<pc, idVars, itemVars, out>>
  BY DEF Edit, Commit, Redeploy, Change
<1>3. RunsType' /\ \A q \in Runs : UNCHANGED Local(q)
  BY <1>2 DEF EvalInv, RunsType, idVars, itemVars, Local
<1> QED BY <1>1, <1>3, SoundKept DEF EvalInv

LEMMA InitSound == Init => EvalInv
<1> SUFFICES ASSUME Init PROVE EvalInv
  OBVIOUS
<1>1. WorldType
  BY FirstAssumption DEF Init, WorldType
<1>2. RunsType
  BY FailureSettles DEF Init, RunsType, Stages, Settled
<1>3. ASSUME NEW r \in Runs PROVE RunSound(r)
  BY <1>3 DEF Init, RunSound, ItemSound
<1> QED BY <1>1, <1>2, <1>3 DEF EvalInv

LEMMA StepSound ==
  ASSUME EvalInv, [Next]_vars
  PROVE  EvalInv'
<1>1. CASE UNCHANGED vars
  <2>1. UNCHANGED <<worldVars, pc, idVars, itemVars, out>>
    BY <1>1 DEF vars
  <2>2. WorldType' /\ RunsType' /\ \A q \in Runs : UNCHANGED Local(q)
    BY <2>1 DEF EvalInv, WorldType, RunsType, worldVars, idVars, itemVars, Local
  <2> QED BY <2>2, SoundKept DEF EvalInv
<1>2. CASE Edit \/ Commit \/ Redeploy
  BY <1>2, WorldSound
<1>3. ASSUME NEW r \in Runs, RunStep(r) PROVE EvalInv'
  <2>1. CASE Start(r)
    BY <2>1, StartSound
  <2>2. CASE LoadSet(r)
    BY <2>2, LoadSetSound
  <2>3. CASE ServerIdentity(r)
    BY <2>3, ServerIdentitySound
  <2>4. CASE GitCommit(r)
    BY <2>4, GitCommitSound
  <2>5. CASE WriteOut(r)
    BY <2>5, WriteOutSound
  <2>6. ASSUME NEW i \in Items, Ask(r, i) \/ Answer(r, i) PROVE EvalInv'
    BY <2>6, AskSound, AnswerSound
  <2>7. ASSUME NEW i \in Items, JudgeItem(r, i) \/ ItemFails(r, i) \/ ItemEscapes(r, i)
        PROVE  EvalInv'
    BY <2>7, JudgeItemSound, ItemFailsSound, ItemEscapesSound
  <2> QED BY <1>3, <2>1, <2>2, <2>3, <2>4, <2>5, <2>6, <2>7 DEF RunStep
<1> QED BY <1>1, <1>2, <1>3 DEF Next

\* Every run is where its variables say, and every file is what its run
\* gathered.
THEOREM EvalInvariance == Spec => []EvalInv
<1>1. Init => EvalInv
  BY InitSound
<1>2. EvalInv /\ [Next]_vars => EvalInv'
  BY StepSound
<1> QED BY <1>1, <1>2, PTL DEF Spec

\* EvalTypeOK: a set score, too, stays in its range.
THEOREM EvalTypeCorrect == Spec => []EvalTypeOK
<1>1. ASSUME EvalInv PROVE EvalTypeOK
  <2>1. \A r \in Runs : out[r] # Null => out[r].score \in 0..(NItems * Unit) \cup {Null}
    BY <1>1 DEF EvalInv, RunsType, FilesWritten
  <2> QED BY <1>1, <2>1 DEF EvalInv, WorldType, RunsType, Stages, EvalTypeOK
<1> QED BY <1>1, EvalInvariance, PTL

-----------------------------------------------------------------------------
(* What a file says.                                                       *)

\* What the invariant says of one file.
FileSound(f) == /\ f \in FilesWritten /\ f.score = SetScore(f.items)
                /\ f.stamp \in Runs /\ out[f.stamp] = f

LEMMA FilesSound ==
  ASSUME EvalInv, NEW f \in Files
  PROVE  FileSound(f)
<1>1. PICK r \in Runs : out[r] = f /\ f # Null
  BY DEF Files
<1>2. f \in FilesWritten /\ f.stamp = r /\ f.items = result[r] /\ f.score = SetScore(result[r])
  BY <1>1 DEF EvalInv, RunsType, RunSound
<1> QED BY <1>1, <1>2 DEF FileSound

\* A file is complete when none of its items failed; its score is then the sum
\* of the scores of all of them.
LEMMA CompleteFile ==
  ASSUME NEW f, FileSound(f)
  PROVE  /\ Complete(f) <=> \A i \in Items : f.items[i] # Failure
         /\ Complete(f) => /\ \A i \in Items : /\ f.items[i].answer \in Answers
                                             /\ f.items[i].score \in 0..Unit
                          /\ Summable(f.items)
                          /\ f.score = Total(f.items) /\ f.score \in Nat
                          /\ f.score <= NItems * Unit
<1>1. f.items \in [Items -> Settled] /\ f.score = SetScore(f.items)
  BY DEF FileSound, FilesWritten
<1>2. CASE \E i \in Items : f.items[i] = Failure
  BY <1>1, <1>2 DEF SetScore, Complete
<1>3. CASE \A i \in Items : f.items[i] # Failure
  <2>1. ASSUME NEW i \in Items
        PROVE  f.items[i].answer \in Answers /\ f.items[i].score \in 0..Unit
    <3>1. f.items[i] \in Settled /\ f.items[i] # Failure
      BY <1>1, <1>3
    <3> QED BY <3>1 DEF Settled
  <2>2. Summable(f.items)
    BY <2>1, UnitAssumption DEF Summable, Points
  <2>3. f.score = Total(f.items) /\ f.score \in 0..(NItems * Unit)
    BY <1>1, <1>3, <2>2, TotalType DEF SetScore
  <2>4. f.score \in Nat /\ f.score <= NItems * Unit /\ f.score # Null
    BY <2>3, UnitAssumption, NullAssumption
  <2> QED BY <1>3, <2>1, <2>2, <2>3, <2>4 DEF Complete
<1> QED BY <1>2, <1>3

\* A set score is a mean over the whole set (summarise).
THEOREM ScoreWhole == Spec => []ScoreIsWhole
<1>1. ASSUME EvalInv PROVE ScoreIsWhole
  <2>1. SUFFICES ASSUME NEW f \in Files
        PROVE /\ f.score # Null <=> \A i \in Items : f.items[i].answer # Null
              /\ \A i \in Items : f.items[i].answer # Null => f.items[i].score # Null
    BY DEF ScoreIsWhole
  <2>2. FileSound(f)
    BY <1>1, FilesSound
  <2>3. ASSUME NEW i \in Items
        PROVE  /\ f.items[i].answer # Null <=> f.items[i] # Failure
               /\ f.items[i].answer # Null => f.items[i].score # Null
    <3>1. f.items[i] \in Settled
      BY <2>2 DEF FileSound, FilesWritten
    <3> QED BY <3>1, NullAssumption, FailureSettles, UnitAssumption DEF Settled
  <2> QED BY <2>2, <2>3, CompleteFile DEF Complete
<1> QED BY <1>1, EvalInvariance, PTL

-----------------------------------------------------------------------------
(* A quiet world.                                                          *)

LEMMA QuietKept ==
  ASSUME NEW q \in Runs, RunQuiet(q), UNCHANGED <<worldVars, Local(q)>>
  PROVE  RunQuiet(q)'
BY DEF RunQuiet, Local, worldVars

\* A change waits until no run is under way, and what is over is not looked at
\* again.
LEMMA WorldQuiet ==
  ASSUME ~ MidRunChanges, EvalInv, QuietInv, Edit \/ Commit \/ Redeploy
  PROVE  QuietInv'
<1>1. /\ \A r \in Runs : ~ UnderWay(r)
      /\ UNCHANGED <<pc, idVars, itemVars, out>>
  BY DEF Edit, Commit, Redeploy, Change, MayChange
<1>2. ASSUME NEW r \in Runs PROVE RunQuiet(r)'
  <2>1. pc[r] \notin {"load", "identify", "commit", "score"}
    BY <1>1 DEF UnderWay, Over
  <2> QED BY <1>1, <2>1 DEF QuietInv, RunQuiet, idVars, itemVars
<1> QED BY <1>2 DEF QuietInv

LEMMA StartQuiet ==
  ASSUME EvalInv, QuietInv, NEW r \in Runs, Start(r)
  PROVE  QuietInv'
<1>1. /\ pc[r] = "new" /\ pc'[r] = "load" /\ \A q \in Runs \ {r} : UNCHANGED Local(q)
      /\ code'[r] = tree.code /\ UNCHANGED <<worldVars, itemVars, out>>
  BY GotoIsLocal DEF EvalInv, RunsType, Start, idVars, itemVars, Local
<1>2. out[r] = Null
  BY <1>1 DEF EvalInv, RunSound
<1>3. RunQuiet(r)'
  BY <1>1, <1>2 DEF QuietInv, RunQuiet, worldVars, itemVars
<1> QED BY <1>1, <1>3, QuietKept DEF QuietInv

LEMMA LoadSetQuiet ==
  ASSUME EvalInv, QuietInv, NEW r \in Runs, LoadSet(r)
  PROVE  QuietInv'
<1>1. /\ pc[r] = "load" /\ pc'[r] = "identify"
      /\ \A q \in Runs \ {r} : UNCHANGED Local(q)
      /\ loaded'[r] = tree.set /\ UNCHANGED <<worldVars, code, itemVars, out>>
  BY GotoIsLocal DEF EvalInv, RunsType, LoadSet, idVars, itemVars, Local
<1>2. out[r] = Null
  BY <1>1 DEF EvalInv, RunSound
<1>3. RunQuiet(r)'
  BY <1>1, <1>2 DEF QuietInv, RunQuiet, worldVars, itemVars
<1> QED BY <1>1, <1>3, QuietKept DEF QuietInv

LEMMA ServerIdentityQuiet ==
  ASSUME EvalInv, QuietInv, NEW r \in Runs, ServerIdentity(r)
  PROVE  QuietInv'
<1>0. PICK v \in {Release[build], Null}, f \in {build, Null} :
        server' = [server EXCEPT ![r] = [version |-> v, fingerprint |-> f]]
  BY DEF ServerIdentity
<1>1. /\ pc[r] = "identify" /\ pc'[r] = "commit"
      /\ \A q \in Runs \ {r} : UNCHANGED Local(q)
      /\ server'[r].version = v /\ UNCHANGED <<worldVars, code, loaded, itemVars, out>>
  BY <1>0, GotoIsLocal DEF EvalInv, RunsType, ServerIdentity, idVars, itemVars, Local
<1>2. out[r] = Null
  BY <1>1 DEF EvalInv, RunSound
<1>3. RunQuiet(r)'
  BY <1>1, <1>2 DEF QuietInv, RunQuiet, worldVars, itemVars
<1> QED BY <1>1, <1>3, QuietKept DEF QuietInv

LEMMA GitCommitQuiet ==
  ASSUME EvalInv, QuietInv, NEW r \in Runs, GitCommit(r)
  PROVE  QuietInv'
<1>1. /\ pc[r] = "commit" /\ pc'[r] = "score"
      /\ \A q \in Runs \ {r} : UNCHANGED Local(q)
      /\ commit'[r] = head
      /\ UNCHANGED <<worldVars, code, loaded, server, itemVars, out>>
  BY GotoIsLocal DEF EvalInv, RunsType, GitCommit, idVars, itemVars, Local
<1>2. out[r] = Null
  BY <1>1 DEF EvalInv, RunSound
<1>3. RunQuiet(r)'
  BY <1>1, <1>2 DEF QuietInv, RunQuiet, worldVars, itemVars
<1> QED BY <1>1, <1>3, QuietKept DEF QuietInv

\* A step of the pool: whoever answers or judges is the server that is there.
LEMMA ItemQuiet ==
  ASSUME EvalInv, QuietInv, NEW r \in Runs, pc[r] = "score",
         UNCHANGED <<worldVars, pc, idVars, out>>,
         \A q \in Runs \ {r} : result'[q] = result[q] /\ answering'[q] = answering[q],
         \/ answering'[r] = answering[r] \cup {Release[build]}
         \/ /\ answering'[r] = answering[r]
            /\ \A i \in Items : result'[r][i] # Failure => result[r][i] # Failure
  PROVE  QuietInv'
<1>1. out[r] = Null
  BY DEF EvalInv, RunSound
<1>2. RunQuiet(r)'
  BY <1>1 DEF QuietInv, RunQuiet, worldVars, idVars
<1>3. ASSUME NEW q \in Runs \ {r} PROVE RunQuiet(q)'
  <2>1. UNCHANGED <<pc[q], code[q], loaded[q], server[q], commit[q], result[q],
                    answering[q], out[q], worldVars>>
    BY DEF idVars
  <2>2. RunQuiet(q)
    BY DEF QuietInv
  <2> QED BY <2>1, <2>2 DEF RunQuiet, worldVars
<1> QED BY <1>2, <1>3 DEF QuietInv

LEMMA PoolQuiet ==
  ASSUME EvalInv, QuietInv, NEW r \in Runs, NEW i \in Items,
         Ask(r, i) \/ Answer(r, i) \/ JudgeItem(r, i) \/ ItemFails(r, i)
  PROVE  QuietInv'
<1>1. pc[r] = "score" /\ UNCHANGED <<worldVars, pc, idVars, out>>
  BY DEF Ask, Answer, JudgeItem, ItemFails
<1>2. CASE Ask(r, i)
  BY <1>1, <1>2, ItemQuiet DEF Ask
<1>3. CASE Answer(r, i) \/ JudgeItem(r, i)
  <2>1. \A q \in Runs \ {r} : result'[q] = result[q]
    BY <1>3 DEF EvalInv, RunsType, Answer, JudgeItem, Settle
  <2> QED BY <1>1, <1>3, <2>1, HearsIsLocal, ItemQuiet DEF EvalInv, Answer, JudgeItem
<1>4. CASE ItemFails(r, i)
  <2>1. Settle(r, i, Failure) /\ answering' = answering
    BY <1>4 DEF ItemFails
  <2>2. /\ \A q \in Runs \ {r} : result'[q] = result[q]
        /\ \A j \in Items : result'[r][j] # Failure => result[r][j] # Failure
    BY <2>1 DEF EvalInv, RunsType, Settle
  <2> QED BY <1>1, <2>1, <2>2, ItemQuiet
<1> QED BY <1>2, <1>3, <1>4

LEMMA ItemEscapesQuiet ==
  ASSUME EvalInv, QuietInv, NEW r \in Runs, NEW i \in Items, ItemEscapes(r, i)
  PROVE  QuietInv'
<1>1. /\ pc[r] = "score" /\ pc'[r] = "crashed"
      /\ \A q \in Runs \ {r} : UNCHANGED Local(q)
      /\ UNCHANGED <<worldVars, idVars, itemVars, out>>
  BY GotoIsLocal DEF EvalInv, RunsType, ItemEscapes, idVars, itemVars, Local
<1>2. out[r] = Null
  BY <1>1 DEF EvalInv, RunSound
<1>3. RunQuiet(r)'
  BY <1>1, <1>2 DEF QuietInv, RunQuiet, worldVars, idVars, itemVars
<1> QED BY <1>1, <1>3, QuietKept DEF QuietInv

\* A file names the set it was made of, and one whose tree is known to be clean
\* was made by the commit's code.
LEMMA WriteOutQuiet ==
  ASSUME EvalInv, QuietInv, NEW r \in Runs, WriteOut(r)
  PROVE  QuietInv'
<1>1. /\ pc[r] = "score" /\ pc'[r] = "written"
      /\ \A q \in Runs \ {r} : UNCHANGED Local(q)
      /\ out'[r].commit = commit[r] /\ out'[r].version = server[r].version
      /\ out'[r].hash = tree.set
      /\ HasGit => out'[r].dirty = (tree # head)
      /\ UNCHANGED <<worldVars, idVars, itemVars>>
  BY GotoIsLocal DEF EvalInv, RunsType, WriteOut, idVars, itemVars, Local
<1>2. /\ out'[r].hash = loaded[r]
      /\ HasGit /\ out'[r].dirty # TRUE => code[r] = out'[r].commit.code
      /\ Release[build] \in Releases
      /\ answering[r] \subseteq {Release[build]}
      /\ out'[r].version \in {Release[build], Null}
  BY <1>1 DEF EvalInv, WorldType, Releases, QuietInv, RunQuiet
<1>3. RunQuiet(r)'
  BY <1>1, <1>2 DEF QuietInv, RunQuiet, idVars, itemVars
<1> QED BY <1>1, <1>3, QuietKept DEF QuietInv

\* If the world is left alone while a run is under way, a run's file tells what
\* it ran (main and git_commit of run.py).
THEOREM QuietInvariance ==
  ASSUME ~ MidRunChanges
  PROVE  Spec => []QuietInv
<1>1. Init => QuietInv
  <2> SUFFICES ASSUME Init, NEW r \in Runs PROVE RunQuiet(r)
    BY DEF QuietInv
  <2> QED BY DEF Init, RunQuiet
<1>2. EvalInv /\ QuietInv /\ [Next]_vars => QuietInv'
  <2> SUFFICES ASSUME EvalInv, QuietInv, [Next]_vars PROVE QuietInv'
    OBVIOUS
  <2>1. CASE UNCHANGED vars
    BY <2>1, QuietKept DEF vars, QuietInv, Local, idVars, itemVars
  <2>2. CASE Edit \/ Commit \/ Redeploy
    BY <2>2, WorldQuiet
  <2>3. ASSUME NEW r \in Runs, RunStep(r) PROVE QuietInv'
    <3>1. CASE Start(r) \/ LoadSet(r) \/ ServerIdentity(r) \/ GitCommit(r)
      BY <3>1, StartQuiet, LoadSetQuiet, ServerIdentityQuiet, GitCommitQuiet
    <3>2. CASE WriteOut(r)
      BY <3>2, WriteOutQuiet
    <3>3. ASSUME NEW i \in Items,
                 \/ Ask(r, i) \/ Answer(r, i) \/ JudgeItem(r, i)
                 \/ ItemFails(r, i) \/ ItemEscapes(r, i)
          PROVE  QuietInv'
      BY <3>3, PoolQuiet, ItemEscapesQuiet
    <3> QED BY <2>3, <3>1, <3>2, <3>3 DEF RunStep
  <2> QED BY <2>1, <2>2, <2>3 DEF Next
<1> QED BY <1>1, <1>2, EvalInvariance, PTL DEF Spec

-----------------------------------------------------------------------------
(* What two files say.                                                     *)

\* Two runs that are compared measured the same thing, with the same code if
\* there was a git to ask.
LEMMA ComparedRuns ==
  ASSUME EvalInv, QuietInv, NEW r \in Runs, NEW q \in Runs,
         out[r] # Null, out[q] # Null, Comparable(out[r], out[q])
  PROVE  /\ HasGit => code[r] = code[q]
         /\ loaded[r] = loaded[q] /\ answering[r] = answering[q]
<1>1. /\ out[r].hash = out[q].hash /\ out[r].commit = out[q].commit
      /\ out[r].version = out[q].version
      /\ out[r].version # Null /\ out[r].dirty # TRUE /\ out[q].dirty # TRUE
      /\ Complete(out[r]) /\ Complete(out[q])
  BY DEF Comparable
<1>2. loaded[r] = loaded[q]
  BY <1>1 DEF QuietInv, RunQuiet
<1>3. ASSUME NEW s \in Runs, out[s] # Null, Complete(out[s]), out[s].version # Null
      PROVE  answering[s] = {out[s].version}
  <2>1. FileSound(out[s]) /\ out[s].items = result[s]
    BY <1>3, FilesSound DEF Files, EvalInv, RunSound
  <2>2. 1 \in Items /\ result[s][1] # Failure
    BY <1>3, <2>1, CompleteFile
  <2>3. answering[s] # {}
    BY <2>2 DEF QuietInv, RunQuiet
  <2>4. PICK v \in Releases : answering[s] \subseteq {v} /\ out[s].version \in {v, Null}
    BY <1>3 DEF QuietInv, RunQuiet
  <2> QED BY <1>3, <2>3, <2>4
<1>4. answering[r] = answering[q]
  BY <1>1, <1>3
<1>5. ASSUME HasGit PROVE code[r] = code[q]
  <2>1. RunQuiet(r) /\ RunQuiet(q)
    BY DEF QuietInv
  <2>2. code[r] = out[r].commit.code /\ code[q] = out[q].commit.code
    BY <1>5, <1>1, <2>1 DEF RunQuiet
  <2> QED BY <1>1, <2>2
<1> QED BY <1>2, <1>4, <1>5

\* drift.py:14: what it compares differs in nothing but time.
THEOREM OnlyNoise ==
  ASSUME HasGit, ~ MidRunChanges
  PROVE  Spec => []NoiseOnly
<1>1. EvalInv /\ QuietInv => NoiseOnly
  BY ComparedRuns DEF NoiseOnly
<1> QED BY <1>1, EvalInvariance, QuietInvariance, PTL

\* The report names one cause for every item that moved, blames the judge where
\* the verdicts differ, and a gap between two scores has an item that moved
\* (compare).
THEOREM DriftExplained ==
  ASSUME ~ MidRunChanges
  PROVE  Spec => []DriftIsExplained
<1>1. ASSUME EvalInv, QuietInv PROVE DriftIsExplained
  <2>1. SUFFICES ASSUME NEW a \in Files, NEW b \in Files, Comparable(a, b)
        PROVE  /\ MovedByJudge(a, b) \cap MovedByGeneration(a, b) = {}
               /\ MovedByJudge(a, b) \cup MovedByGeneration(a, b) = Moved(a, b)
               /\ \A i \in Items :
                    (SameAnswer(a, b, i) /\ a.items[i].verdict # b.items[i].verdict)
                      <=> i \in MovedByJudge(a, b) \cup HiddenFlips(a, b)
               /\ Gap(a, b) > 0 => Moved(a, b) # {}
    BY DEF DriftIsExplained
  <2>2. FileSound(a) /\ FileSound(b) /\ Complete(a) /\ Complete(b)
    BY <1>1, <2>1, FilesSound DEF Comparable
  <2>3. DOMAIN a.items = Items
    BY <2>2 DEF FileSound, FilesWritten
  <2>4. /\ MovedByJudge(a, b) \cap MovedByGeneration(a, b) = {}
        /\ MovedByJudge(a, b) \cup MovedByGeneration(a, b) = Moved(a, b)
    BY DEF MovedByJudge, MovedByGeneration
  <2>5. ASSUME NEW i \in Items, SameAnswer(a, b, i),
               a.items[i].verdict = b.items[i].verdict
        PROVE  SameScore(a, b, i)
    <3>1. PICK r \in Runs, q \in Runs :
            r = a.stamp /\ q = b.stamp /\ out[r] = a /\ out[q] = b
      BY <2>2 DEF FileSound
    <3>2. a # Null /\ b # Null
      BY DEF Files
    <3>3. loaded[r] = loaded[q]
      BY <1>1, <2>1, <3>1, <3>2, ComparedRuns
    <3>4. ASSUME NEW s \in Runs, out[s] # Null, Complete(out[s])
          PROVE  out[s].items[i].score
                   = ItemScore(Shape[loaded[s]][i],
                               out[s].items[i].answer \in Passing[loaded[s]],
                               out[s].items[i].verdict)
      <4>1. out[s].items = result[s] /\ FileSound(out[s]) /\ stage[s][i] = "done"
        BY <1>1, <3>4, FilesSound DEF Files, EvalInv, RunSound
      <4>2. result[s][i] # Failure
        BY <3>4, <4>1, CompleteFile
      <4>3. ItemSound(loaded[s], i, stage[s][i], result[s][i])
        BY <1>1 DEF EvalInv, RunSound
      <4> QED BY <4>1, <4>2, <4>3 DEF ItemSound
    <3>5. a.items[i].score
            = ItemScore(Shape[loaded[r]][i], a.items[i].answer \in Passing[loaded[r]],
                        a.items[i].verdict)
      BY <2>2, <3>1, <3>2, <3>4
    <3>6. b.items[i].score
            = ItemScore(Shape[loaded[q]][i], b.items[i].answer \in Passing[loaded[q]],
                        b.items[i].verdict)
      BY <2>2, <3>1, <3>2, <3>4
    <3>7. a.items[i].answer = b.items[i].answer
      BY <2>5 DEF SameAnswer
    <3> QED BY <2>5, <3>3, <3>5, <3>6, <3>7 DEF SameScore
  <2>6. ASSUME NEW i \in Items
        PROVE  (SameAnswer(a, b, i) /\ a.items[i].verdict # b.items[i].verdict)
                 <=> i \in MovedByJudge(a, b) \cup HiddenFlips(a, b)
    BY <2>3, <2>5 DEF MovedByJudge, HiddenFlips, Moved
  <2>7. ASSUME Moved(a, b) = {} PROVE ~ (Gap(a, b) > 0)
    <3>1. \A i \in Items : a.items[i].score = b.items[i].score
      BY <2>3, <2>7 DEF Moved, SameScore
    <3>2. a.score = b.score /\ a.score \in Nat
      BY <2>2, <3>1, CompleteFile, TotalOfSameScores
    <3> QED BY <3>2 DEF Gap
  <2> QED BY <2>4, <2>6, <2>7
<1> QED BY <1>1, EvalInvariance, QuietInvariance, PTL

-----------------------------------------------------------------------------
(* What a report says of many files.                                       *)

\* Two files of a report are compared, in one order or the other.
LEMMA EveryTwo ==
  ASSUME EvalInv, Accepts(Files), NEW a \in Files, NEW b \in Files, a # b
  PROVE  /\ <<a, b>> \in Pairs(Files) \/ <<b, a>> \in Pairs(Files)
         /\ Comparable(a, b) \/ Comparable(b, a)
<1>1. /\ a.stamp \in Runs /\ b.stamp \in Runs /\ a.stamp # b.stamp
  BY FilesSound DEF FileSound
<1>2. <<a, b>> \in Pairs(Files) \/ <<b, a>> \in Pairs(Files)
  <2>1. a.stamp < b.stamp \/ b.stamp < a.stamp
    BY <1>1
  <2> QED BY <2>1 DEF Pairs
<1>3. \A p \in Pairs(Files) : Comparable(p[1], p[2])
  BY DEF Accepts
<1> QED BY <1>2, <1>3

\* A set whose elements are all the same has at most one.
LEMMA AtMostOne ==
  ASSUME NEW S, \A x, y \in S : x = y
  PROVE  Cardinality(S) <= 1
<1>1. CASE S = {}
  BY <1>1, FS_EmptySet
<1>2. ASSUME NEW x \in S PROVE Cardinality(S) <= 1
  <2>1. S = {x}
    OBVIOUS
  <2> QED BY <2>1, FS_Singleton
<1> QED BY <1>1, <1>2

\* A set that has at least two elements has two that differ.
LEMMA TwoOfThem ==
  ASSUME NEW S, Cardinality(S) >= 2
  PROVE  \E x, y \in S : x # y
<1>1. SUFFICES ASSUME \A x, y \in S : x = y PROVE FALSE
  OBVIOUS
<1>2. Cardinality(S) \in {0, 1}
  <2>1. CASE S = {}
    BY <2>1, FS_EmptySet
  <2>2. ASSUME NEW x \in S PROVE Cardinality(S) \in {0, 1}
    <3>1. S = {x}
      BY <1>1
    <3> QED BY <3>1, FS_Singleton
  <2> QED BY <2>1, <2>2
<1> QED BY <1>2

\* A report has at most one fingerprint (check_comparable), and its drift is the
\* spread of the scores (compare_runs).
THEOREM ReportHomogeneous == Spec => []ReportIsHomogeneous
<1>1. ASSUME EvalInv, Accepts(Files)
      PROVE  Cardinality({f.fingerprint : f \in Files} \ {Null}) <= 1
  <2>1. ASSUME NEW a \in Files, NEW b \in Files,
               a.fingerprint # Null, b.fingerprint # Null
        PROVE  a.fingerprint = b.fingerprint
    BY <1>1, <2>1, EveryTwo DEF Comparable
  <2> QED BY <2>1, AtMostOne
<1>2. ASSUME EvalInv, Accepts(Files)
      PROVE  Drift(Files) = Max({f.score : f \in Files}) - Min({f.score : f \in Files})
  <2> DEFINE S == {f.score : f \in Files}
             G == {Gap(p[1], p[2]) : p \in Pairs(Files)}
  <2>1. PICK x \in Files, y \in Files : x # y
    BY <1>2, TwoOfThem DEF Accepts
  <2>2. ASSUME NEW f \in Files
        PROVE  f.score \in Nat /\ f.score <= NItems * Unit
    <3>1. PICK g \in Files : g # f
      BY <2>1
    <3>2. Complete(f)
      BY <1>2, <3>1, EveryTwo DEF Comparable
    <3> QED BY <1>2, <3>2, FilesSound, CompleteFile
  <2>3. S \in SUBSET Nat /\ S # {}
    BY <2>1, <2>2
  <2>4. NItems * Unit \in Nat
    BY UnitAssumption
  <2>5. PICK top \in S : \A s \in S : s <= top
    <3>1. \A s \in S : s <= NItems * Unit
      BY <2>2
    <3> HIDE DEF S
    <3> QED BY <2>3, <2>4, <3>1, GreatestNat
  <2>6. PICK low \in S : \A s \in S : low <= s
    BY <2>3, LeastNat
  <2>7. Max(S) = top /\ Min(S) = low
    BY <2>3, <2>5, <2>6 DEF Max, Min
  <2>8. PICK t \in Files, l \in Files : t.score = top /\ l.score = low
    BY <2>5, <2>6
  <2>9. top - low \in G
    <3>1. CASE t # l
      <4>1. top \in Nat /\ low \in Nat /\ low <= top
        BY <2>3, <2>5, <2>6
      <4>2. Gap(t, l) = top - low /\ Gap(l, t) = top - low
        BY <2>8, <4>1 DEF Gap
      <4>3. <<t, l>> \in Pairs(Files) \/ <<l, t>> \in Pairs(Files)
        BY <1>2, <3>1, EveryTwo
      <4>4. ASSUME NEW p \in Pairs(Files), p = <<t, l>> \/ p = <<l, t>>
            PROVE  top - low \in G
        <5>1. Gap(p[1], p[2]) = top - low
          BY <4>2, <4>4
        <5> QED BY <5>1
      <4> QED BY <4>3, <4>4
    <3>2. CASE t = l
      <4>1. ASSUME NEW f \in Files PROVE f.score = top
        <5>1. f.score \in Nat /\ f.score <= top /\ low <= f.score /\ top = low
          BY <2>2, <2>5, <2>6, <2>8, <3>2
        <5> QED BY <2>3, <5>1
      <4>2. PICK p \in Pairs(Files) : p[1] \in Files /\ p[2] \in Files
        BY <1>2, <2>1, EveryTwo
      <4>3. Gap(p[1], p[2]) = top - low
        BY <2>2, <2>8, <3>2, <4>1, <4>2 DEF Gap
      <4> QED BY <4>3
    <3> QED BY <3>1, <3>2
  <2>10. ASSUME NEW p \in Pairs(Files)
         PROVE  Gap(p[1], p[2]) \in Nat /\ Gap(p[1], p[2]) <= top - low
    <3>1. p[1] \in Files /\ p[2] \in Files
      BY DEF Pairs
    <3>2. /\ p[1].score \in Nat /\ p[2].score \in Nat /\ top \in Nat /\ low \in Nat
          /\ p[1].score <= top /\ p[2].score <= top
          /\ low <= p[1].score /\ low <= p[2].score
      BY <2>2, <2>3, <2>5, <2>6, <3>1
    <3> QED BY <3>2 DEF Gap
  <2>11. \A g \in G : g \in Nat /\ g <= top - low
    BY <2>10
  <2>12. Drift(Files) = Max(G)
    BY DEF Drift
  <2> HIDE DEF G
  <2>13. Max(G) = top - low
    BY <2>9, <2>11 DEF Max
  <2> QED BY <2>7, <2>12, <2>13
<1>3. EvalInv => ReportIsHomogeneous
  BY <1>1, <1>2 DEF ReportIsHomogeneous
<1> QED BY <1>3, EvalInvariance, PTL
=============================================================================
