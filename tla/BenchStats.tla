----------------------------- MODULE BenchStats -----------------------------
(***************************************************************************)
(* bench/common.py and bench/compare.py: what a benchmark run reports of   *)
(* its samples, and what is said of two runs.  None is Null; a duration    *)
(* and a number of tokens are natural numbers.                             *)
(*                                                                         *)
(* The rank is exact, and percentile() computes it in floats.  For the two *)
(* percents that are asked of it (Percents) that makes no difference:      *)
(* 50 / 100.0 is 0.5, and 95 / 100.0 lies just below 0.95, so that a       *)
(* product which should be whole rounds to at most that, and any other is  *)
(* 0.05 away from a whole number.  For others it does: of 7 percent of 100 *)
(* samples percentile() would take the 8th and not the 7th, so nothing     *)
(* here is said of them.                                                   *)
(***************************************************************************)
EXTENDS Integers, Sequences, FiniteSets

Null == -1

\* The positions I by ascending key, equal keys in their order, as sorted() has
\* them; with the position itself for a key, what a comprehension lists.
\* (SortSeq and SelectSeq are built in to the provers, who know nothing of them.)
UpTo(i, I, key) == {j \in I : key[j] < key[i] \/ (key[j] = key[i] /\ j <= i)}

Listed(I, key) ==
  [k \in 1..Cardinality(I) |-> CHOOSE i \in I : Cardinality(UpTo(i, I, key)) = k]

Selected(values, I) ==
  [k \in 1..Cardinality(I) |-> values[Listed(I, [i \in I |-> i])[k]]]

\* What summarize(), the only caller, asks percentile() for.
Percents == {50, 95}

\* Mutant: the rank is rounded down.
Rank_Floor(p, n) == (p * n) \div 100

\* math.ceil((p / 100.0) * n)
Rank(p, n) == (p * n + 99) \div 100

\* min(max(rank, 1), n), counted from 1.
Position(p, n) ==
  IF Rank(p, n) < 1 THEN 1 ELSE IF Rank(p, n) > n THEN n ELSE Rank(p, n)

Percentile(values, p) ==
  IF values = <<>> THEN Null
  ELSE values[Listed(DOMAIN values, values)[Position(p, Len(values))]]

Summarize(values) ==
  [n |-> Len(values), p50 |-> Percentile(values, 50), p95 |-> Percentile(values, 95)]

\* What "nearest rank" means: v was observed, at least p percent of the values
\* are no larger, and fewer than p percent are smaller.
IsNearestRank(v, values, p) ==
  LET n == Len(values)
  IN  /\ \E i \in 1..n : values[i] = v
      /\ 100 * Cardinality({i \in 1..n : values[i] <= v}) >= p * n
      /\ 100 * Cardinality({i \in 1..n : values[i] < v}) < p * n

-----------------------------------------------------------------------------
(* compare.py.  A result has a workload, the model of its provenance, the  *)
(* rate of its waves and the latency of its requests.                      *)

\* Mutant: a value that is missing counts as none.
Comparable_Zero(candidate, baseline) == baseline # 0

\* ratio() and pct_change() have a value, or the row says UNMEASURED.
Comparable(candidate, baseline) ==
  candidate # Null /\ baseline # Null /\ baseline # 0

Mismatches(baseline, candidate) ==
  {f \in {"workload", "model"} : baseline[f] # candidate[f]}

Rows(baseline, candidate) ==
  [rate    |-> Comparable(candidate.rate.p50, baseline.rate.p50),
   latency |-> Comparable(candidate.latency.p50, baseline.latency.p50)]
=============================================================================
