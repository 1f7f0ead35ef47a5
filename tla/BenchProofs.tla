---------------------------- MODULE BenchProofs -----------------------------
(***************************************************************************)
(* Proofs about the two load tools, for any workload, number of waves and  *)
(* of requests, any concurrency and any answers of the server.             *)
(*                                                                         *)
(* First what the helpers return: positions listed by key are a bijection, *)
(* so p50 and p95 are nearest ranks in every sequence of numbers, a        *)
(* selection has what it selects, and a wave in order has prompt k at k.   *)
(*                                                                         *)
(* BenchInv then says of the benchmark where its threads are (those of     *)
(* earlier waves over, those of later ones new), that the collector has    *)
(* one sample of each thread of the wave that is over, and that what was   *)
(* gathered is whole waves.  Joining a wave is the step with the work: the *)
(* collected prompts are a permutation, and sorting undoes it.             *)
(*                                                                         *)
(* What LoadIsKept says of the load generator is nearly inductive; Settled *)
(* adds that the counters are 0..n, that main() has exited only when every *)
(* thread is over, and when there is an exit code.                         *)
(***************************************************************************)
EXTENDS BenchTools, Counting, FiniteSetTheorems, TLAPS

-----------------------------------------------------------------------------
(* Ranks and percentiles.                                                  *)

\* percentile() of bench/common.py as summarize() calls it: of at least one sample,
\* and for p = 50 and 95, the clamp min(max(rank, 1), n) never acts, at least p
\* percent of the samples are at or before the rank, and fewer than p percent are
\* before it.
THEOREM RankIsNearest ==
  ASSUME NEW n \in Nat \ {0}, NEW p \in Percents
  PROVE  /\ Position(p, n) = Rank(p, n)
         /\ Rank(p, n) \in 1..n
         /\ 100 * Rank(p, n) >= p * n
         /\ 100 * (Rank(p, n) - 1) < p * n
<1> DEFINE q == p * n
           r == (q + 99) \div 100
<1>1. q \in Nat /\ 1 <= q /\ q <= 100 * n
  <2>1. CASE p = 50
    BY <2>1
  <2>2. CASE p = 95
    BY <2>2
  <2> QED BY <2>1, <2>2 DEF Percents
<1> HIDE DEF q
<1>2. r \in Nat /\ 100 * r >= q /\ 100 * (r - 1) < q
  BY <1>1
<1>3. r \in 1..n
  BY <1>1, <1>2
<1>4. Rank(p, n) = r
  BY DEF Rank, q
<1>5. Position(p, n) = r
  BY <1>3, <1>4 DEF Position
<1> QED BY <1>2, <1>3, <1>4, <1>5 DEF q

\* No two positions have the same rank, so the ranks are 1 to their number.
LEMMA Ranks ==
  ASSUME NEW I \in SUBSET Nat, IsFiniteSet(I), NEW key, \A i \in I : key[i] \in Int
  PROVE  /\ Cardinality(I) \in Nat
         /\ \A i \in I : /\ UpTo(i, I, key) \subseteq I /\ IsFiniteSet(UpTo(i, I, key))
                         /\ Cardinality(UpTo(i, I, key)) \in 1..Cardinality(I)
         /\ \A i, j \in I :
              Cardinality(UpTo(i, I, key)) = Cardinality(UpTo(j, I, key)) => i = j
<1>1. Cardinality(I) \in Nat
  BY FS_CardinalityType
<1>2. \A i \in I : UpTo(i, I, key) \subseteq I /\ i \in UpTo(i, I, key)
  BY DEF UpTo
<1>3. \A i \in I : /\ IsFiniteSet(UpTo(i, I, key))
                   /\ Cardinality(UpTo(i, I, key)) \in Nat
                   /\ Cardinality(UpTo(i, I, key)) <= Cardinality(I)
                   /\ Cardinality(UpTo(i, I, key)) # 0
  BY <1>2, FS_Subset, FS_CardinalityType, FS_EmptySet
<1>4. ASSUME NEW i \in I, NEW j \in I, i # j,
             key[i] < key[j] \/ (key[i] = key[j] /\ i <= j)
      PROVE  Cardinality(UpTo(i, I, key)) < Cardinality(UpTo(j, I, key))
  <2>1. UpTo(i, I, key) \subseteq UpTo(j, I, key)
    <3>1. ASSUME NEW m \in I, key[m] < key[i] \/ (key[m] = key[i] /\ m <= i)
          PROVE  key[m] < key[j] \/ (key[m] = key[j] /\ m <= j)
      <4>1. /\ key[m] \in Int /\ key[i] \in Int /\ key[j] \in Int
            /\ m \in Nat /\ i \in Nat /\ j \in Nat
        OBVIOUS
      <4> QED BY <1>4, <3>1, <4>1
    <3> QED BY <3>1 DEF UpTo
  <2>2. j \notin UpTo(i, I, key)
    BY <1>4 DEF UpTo
  <2>3. /\ Cardinality(UpTo(i, I, key)) <= Cardinality(UpTo(j, I, key))
        /\ Cardinality(UpTo(i, I, key)) # Cardinality(UpTo(j, I, key))
    BY <1>2, <1>3, <2>1, <2>2, FS_Subset
  <2> QED BY <1>3, <2>3
<1>5. ASSUME NEW i \in I, NEW j \in I, i # j
      PROVE  Cardinality(UpTo(i, I, key)) # Cardinality(UpTo(j, I, key))
  <2>1. \/ key[i] < key[j] \/ (key[i] = key[j] /\ i <= j)
        \/ key[j] < key[i] \/ (key[j] = key[i] /\ j <= i)
    OBVIOUS
  <2> QED BY <1>3, <1>4, <1>5, <2>1
<1> QED BY <1>1, <1>2, <1>3, <1>5

\* Listed has every position once, at its rank.
LEMMA ListedByRank ==
  ASSUME NEW I \in SUBSET Nat, IsFiniteSet(I), NEW key, \A i \in I : key[i] \in Int
  PROVE  /\ Cardinality(I) \in Nat
         /\ \A k \in 1..Cardinality(I) :
              Listed(I, key)[k] \in I /\ Cardinality(UpTo(Listed(I, key)[k], I, key)) = k
         /\ \A i \in I : \E k \in 1..Cardinality(I) : Listed(I, key)[k] = i
<1> DEFINE n == Cardinality(I)
           f == [i \in I |-> Cardinality(UpTo(i, I, key))]
<1>1. /\ n \in Nat
      /\ \A i \in I : f[i] \in 1..n
      /\ \A i, j \in I : f[i] = f[j] => i = j
  BY Ranks
<1>2. f \in [I -> 1..n] /\ \A i \in I : f[i] = Cardinality(UpTo(i, I, key))
  BY <1>1
<1> HIDE DEF f
<1>3. IsFiniteSet(1..n) /\ Cardinality(1..n) = n
  BY <1>1, FS_Interval
<1>4. f \in Injection(I, 1..n)
  BY <1>1, <1>2 DEF Injection, IsInjective
<1>5. f \in Surjection(I, 1..n)
  BY <1>3, <1>4, FS_Injection
<1>6. \A k \in 1..n : \E i \in I : f[i] = k
  BY <1>5 DEF Surjection
<1>7. ASSUME NEW k \in 1..n
      PROVE  Listed(I, key)[k] \in I /\ f[Listed(I, key)[k]] = k
  <2>1. Listed(I, key)[k] = CHOOSE i \in I : Cardinality(UpTo(i, I, key)) = k
    BY DEF Listed
  <2>2. \E i \in I : Cardinality(UpTo(i, I, key)) = k
    BY <1>2, <1>6
  <2> QED BY <1>2, <2>1, <2>2
<1>8. ASSUME NEW i \in I PROVE Listed(I, key)[f[i]] = i
  BY <1>1, <1>7
<1> QED BY <1>1, <1>2, <1>7, <1>8

\* What summarize() is given for p50 and p95 of at least one sample is the nearest
\* rank among them, and so one of the samples itself.
THEOREM PercentileIsNearest ==
  ASSUME NEW values \in Seq(Nat), values # <<>>, NEW p \in Percents
  PROVE  Percentile(values, p) \in Nat /\ IsNearestRank(Percentile(values, p), values, p)
<1> DEFINE n == Len(values)
           r == Rank(p, n)
           i == Listed(1..n, values)[r]
           v == values[i]
           Least == {j \in 1..n : values[j] <= v}
           Less  == {j \in 1..n : values[j] < v}
<1>1. n \in Nat \ {0} /\ DOMAIN values = 1..n /\ \A j \in 1..n : values[j] \in Nat
  OBVIOUS
<1>2. /\ Position(p, n) = r /\ r \in 1..n
      /\ 100 * r >= p * n /\ 100 * (r - 1) < p * n
  BY <1>1, RankIsNearest
<1>3. Percentile(values, p) = v
  BY <1>1, <1>2 DEF Percentile
<1> HIDE DEF n, r
<1>4. IsFiniteSet(1..n) /\ Cardinality(1..n) = n /\ 1..n \in SUBSET Nat
  BY <1>1, FS_Interval
<1>5. i \in 1..n /\ Cardinality(UpTo(i, 1..n, values)) = r
  <2>1. \A k \in 1..n :
           /\ Listed(1..n, values)[k] \in 1..n
           /\ Cardinality(UpTo(Listed(1..n, values)[k], 1..n, values)) = k
    <3>1. \A j \in 1..n : values[j] \in Int
      BY <1>1
    <3> HIDE DEF i
    <3> QED BY <1>4, <3>1, ListedByRank
  <2>2. r \in 1..n
    BY <1>2
  <2> QED BY <2>1, <2>2
<1> HIDE DEF i
<1>6. UpTo(i, 1..n, values) \subseteq Least /\ Less \subseteq UpTo(i, 1..n, values) \ {i}
  BY <1>1, <1>5 DEF UpTo
<1>7. /\ IsFiniteSet(UpTo(i, 1..n, values)) /\ i \in UpTo(i, 1..n, values)
      /\ IsFiniteSet(Least) /\ IsFiniteSet(Less)
      /\ Cardinality(Least) \in Nat /\ Cardinality(Less) \in Nat
  <2>1. UpTo(i, 1..n, values) \subseteq 1..n /\ Least \subseteq 1..n /\ Less \subseteq 1..n
    BY DEF UpTo
  <2>2. i \in UpTo(i, 1..n, values)
    BY <1>1, <1>5 DEF UpTo
  <2> QED BY <1>4, <2>1, <2>2, FS_Subset, FS_CardinalityType
<1>8. Cardinality(Least) >= r
  BY <1>2, <1>5, <1>6, <1>7, FS_Subset
<1>9. Cardinality(Less) <= r - 1
  <2>1. /\ IsFiniteSet(UpTo(i, 1..n, values) \ {i})
        /\ Cardinality(UpTo(i, 1..n, values) \ {i}) = r - 1
    BY <1>5, <1>7, FS_RemoveElement
  <2> QED BY <1>6, <2>1, FS_Subset
<1>10. 100 * Cardinality(Least) >= p * n /\ 100 * Cardinality(Less) < p * n
  <2> HIDE DEF Least, Less
  <2>1. p * n \in Nat
    BY <1>1 DEF Percents
  <2> DEFINE q == p * n
  <2> HIDE DEF q
  <2>2. 100 * r >= q /\ 100 * (r - 1) < q /\ q \in Nat /\ r \in Nat
    BY <1>2, <2>1 DEF q
  <2>3. 100 * Cardinality(Least) >= q /\ 100 * Cardinality(Less) < q
    BY <1>7, <1>8, <1>9, <2>2
  <2> QED BY <2>3 DEF q
<1> QED BY <1>1, <1>3, <1>5, <1>10 DEF IsNearestRank, n

\* A selection has as many values as positions, and exactly the values there.
LEMMA SelectedAre ==
  ASSUME NEW I \in SUBSET Nat, IsFiniteSet(I), NEW values,
         NEW S, \A i \in I : values[i] \in S
  PROVE  /\ Selected(values, I) \in Seq(S)
         /\ Len(Selected(values, I)) = Cardinality(I)
         /\ \A k \in 1..Cardinality(I) : \E i \in I : Selected(values, I)[k] = values[i]
         /\ \A i \in I : \E k \in 1..Cardinality(I) : Selected(values, I)[k] = values[i]
<1> DEFINE key == [i \in I |-> i]
<1>1. \A i \in I : key[i] \in Int
  OBVIOUS
<1> HIDE DEF key
<1>2. /\ Cardinality(I) \in Nat
      /\ \A k \in 1..Cardinality(I) : Listed(I, key)[k] \in I
      /\ \A i \in I : \E k \in 1..Cardinality(I) : Listed(I, key)[k] = i
  BY <1>1, ListedByRank
<1>3. Selected(values, I) = [k \in 1..Cardinality(I) |-> values[Listed(I, key)[k]]]
  BY DEF Selected, key
<1>4. Selected(values, I) \in [1..Cardinality(I) -> S]
  BY <1>2, <1>3
<1>5. Selected(values, I) \in Seq(S) /\ Len(Selected(values, I)) = Cardinality(I)
  BY <1>2, <1>4
<1>6. \A k \in 1..Cardinality(I) : \E i \in I : Selected(values, I)[k] = values[i]
  BY <1>2, <1>3
<1>7. ASSUME NEW i \in I
      PROVE  \E k \in 1..Cardinality(I) : Selected(values, I)[k] = values[i]
  <2>1. PICK k \in 1..Cardinality(I) : Listed(I, key)[k] = i
    BY <1>2
  <2> QED BY <1>3, <2>1
<1> QED BY <1>5, <1>6, <1>7

-----------------------------------------------------------------------------
(* The benchmark: what its waves measure.                                  *)

Samples == [wave : Nat, prompt : Prompts, status : {"ok", "failed"},
            tokens : Nat \cup {Null}, total : Nat \cup {Null}]

\* An ok sample has a time, a failed one no tokens, and none counts 0 tokens.
Sound(s) == /\ s.status = "ok" => s.total \in Nat
            /\ s.status = "failed" => s.tokens = Null
            /\ s.tokens # 0

Reading == [chunks : Nat, tokens : Nat, said : {"nothing", "error", "done"}, total : Nat]

AllSound(samples) == /\ samples \in Seq(Samples)
                     /\ \A k \in 1..Len(samples) : Sound(samples[k])

BenchTypeOK ==
  /\ at \in [Threads -> Places] /\ got \in [Threads -> Reading]
  /\ setup \in Setups
  /\ main \in {"preflight", "probe", "refused", "wave", "done"}
  /\ wave \in 0..(Warmups + Repeats + 1) /\ started \in 0..NPrompts
  /\ AllSound(collected) /\ AllSound(all) /\ rates \in Seq(Nat)

\* Where main() is says where the threads are: those of earlier waves are over,
\* those of later ones new, those of this wave started in order.
InWaves ==
  /\ main = "preflight" => at[Probe] = "new"
  /\ main \in {"wave", "done"} => wave # 0 /\ at[Probe] = "over"
  /\ main \notin {"wave", "done"} => wave = 0 /\ started = 0
  /\ main = "done" => wave = Warmups + Repeats + 1
  /\ \A w \in Waves, i \in Prompts :
       /\ w < wave => at[<<w, i>>] = "over"
       /\ w > wave => at[<<w, i>>] = "new"
       /\ w = wave => (at[<<w, i>>] = "new" <=> i > started)

\* The collector has one sample of each thread of the wave that is over.
OneOfEach ==
  /\ \A k \in 1..Len(collected) :
       wave \in Waves /\ collected[k].wave = wave
       /\ at[<<wave, collected[k].prompt>>] = "over"
  /\ \A k, l \in 1..Len(collected) : collected[k].prompt = collected[l].prompt => k = l
  /\ \A i \in Prompts : wave \in Waves /\ at[<<wave, i>>] = "over" =>
       \E k \in 1..Len(collected) : collected[k].prompt = i

\* The measured waves that have been joined.
Measured == IF wave > Warmups + 1 THEN wave - 1 - Warmups ELSE 0

AtItsPlace(samples) ==
  \A k \in 1..Len(samples) :
    /\ samples[k].wave = Warmups + ((k - 1) \div NPrompts) + 1
    /\ samples[k].prompt = ((k - 1) % NPrompts) + 1

Gathered ==
  /\ Len(all) = NPrompts * Measured /\ Len(rates) = Measured
  /\ AtItsPlace(all)
  /\ (\E w \in 1..Len(rates) : rates[w] # 0)
       <=> (\E k \in 1..Len(all) : all[k].tokens # Null)

Reported ==
  /\ result = IF main = "done" THEN {Payload} ELSE {}
  /\ \A c \in compared :
       /\ main = "done" /\ c.baseline \in Baselines
       /\ c.mismatches = Mismatches(c.baseline, Payload)
       /\ c.rows = Rows(c.baseline, Payload)
  /\ main \in {"probe", "wave", "done"} /\ setup.mode = "vllm" => setup.model = setup.served

BenchInv == BenchTypeOK /\ InWaves /\ OneOfEach /\ Gathered /\ Reported

-----------------------------------------------------------------------------
(* What main() computes of samples.                                        *)

\* The comprehension of ok samples has all of them and nothing else.
LEMMA OkAre ==
  ASSUME NEW s, AllSound(s)
  PROVE  /\ AllSound(Ok(s)) /\ Len(Ok(s)) \in Nat /\ Len(Ok(s)) <= Len(s)
         /\ \A k \in 1..Len(Ok(s)) : \E i \in 1..Len(s) :
              s[i].status = "ok" /\ Ok(s)[k] = s[i]
         /\ \A i \in 1..Len(s) : s[i].status = "ok" =>
              \E k \in 1..Len(Ok(s)) : Ok(s)[k] = s[i]
<1> DEFINE I == {i \in DOMAIN s : s[i].status = "ok"}
<1>1. s \in Seq(Samples) /\ DOMAIN s = 1..Len(s) /\ Len(s) \in Nat
  BY DEF AllSound
<1>2. IsFiniteSet(1..Len(s)) /\ Cardinality(1..Len(s)) = Len(s)
  BY <1>1, FS_Interval
<1>3. I \subseteq 1..Len(s) /\ I \in SUBSET Nat
  BY <1>1
<1>4. IsFiniteSet(I) /\ Cardinality(I) \in Nat /\ Cardinality(I) <= Len(s)
  BY <1>2, <1>3, FS_Subset, FS_CardinalityType
<1>5. \A i \in I : s[i] \in Samples /\ s[i].status = "ok" /\ Sound(s[i])
  BY <1>1 DEF AllSound
<1>6. \A i \in 1..Len(s) : s[i].status = "ok" => i \in I
  BY <1>1
<1>7. Ok(s) = Selected(s, I)
  BY DEF Ok
<1> HIDE DEF I
<1>8. /\ Ok(s) \in Seq(Samples) /\ Len(Ok(s)) = Cardinality(I)
      /\ \A k \in 1..Cardinality(I) : \E i \in I : Ok(s)[k] = s[i]
      /\ \A i \in I : \E k \in 1..Cardinality(I) : Ok(s)[k] = s[i]
  <2>1. \A i \in I : s[i] \in Samples
    BY <1>5
  <2>2. /\ Selected(s, I) \in Seq(Samples)
        /\ Len(Selected(s, I)) = Cardinality(I)
        /\ \A k \in 1..Cardinality(I) : \E i \in I : Selected(s, I)[k] = s[i]
        /\ \A i \in I : \E k \in 1..Cardinality(I) : Selected(s, I)[k] = s[i]
    BY <1>3, <1>4, <2>1, SelectedAre
  <2> QED BY <1>7, <2>2
<1>9. \A k \in 1..Len(Ok(s)) : Sound(Ok(s)[k])
  BY <1>5, <1>8
<1> QED BY <1>3, <1>4, <1>5, <1>6, <1>8, <1>9 DEF AllSound

\* The times of the ok samples are numbers.
LEMMA TotalsAre ==
  ASSUME NEW s, AllSound(s)
  PROVE  Totals(s) \in Seq(Nat) /\ Len(Totals(s)) = Len(Ok(s))
<1>1. Ok(s) \in Seq(Samples) /\ DOMAIN Ok(s) = 1..Len(Ok(s)) /\ Len(Ok(s)) \in Nat
  BY OkAre DEF AllSound
<1>2. \A k \in 1..Len(Ok(s)) : Ok(s)[k].total \in Nat
  <2>1. ASSUME NEW k \in 1..Len(Ok(s)) PROVE Ok(s)[k].total \in Nat
    <3>1. PICK i \in 1..Len(s) : s[i].status = "ok" /\ Ok(s)[k] = s[i]
      BY OkAre
    <3>2. Sound(s[i])
      BY DEF AllSound
    <3> QED BY <3>1, <3>2 DEF Sound
  <2> QED BY <2>1
<1>3. Totals(s) \in [1..Len(Ok(s)) -> Nat]
  BY <1>1, <1>2 DEF Totals
<1> QED BY <1>1, <1>3

\* No tokens are counted exactly when no sample has any.
LEMMA TokensAre ==
  ASSUME NEW s, AllSound(s)
  PROVE  /\ Tokens(s) \in Nat
         /\ Tokens(s) = 0 <=> \A k \in 1..Len(s) : s[k].tokens = Null
<1> DEFINE n == Len(s)
           d == [k \in 1..n |-> IF s[k].tokens = Null THEN 0 ELSE s[k].tokens]
           f == CHOOSE f : f = [k \in 0..n |->
                  IF k = 0 THEN 0
                  ELSE f[k - 1] + IF s[k].tokens = Null THEN 0 ELSE s[k].tokens]
<1>1. Tokens(s) = f[n]
  BY DEF Tokens
<1>2. n \in Nat /\ \A k \in 1..n : s[k] \in Samples /\ Sound(s[k])
  BY DEF AllSound
<1>3. /\ \A k \in 1..n : d[k] = IF s[k].tokens = Null THEN 0 ELSE s[k].tokens
      /\ \A k \in 1..n : d[k] \in Nat /\ (d[k] = 0 <=> s[k].tokens = Null)
  BY <1>2 DEF Samples, Sound
<1> HIDE DEF d, n
<1>4. PICK g : Sums(g, d, n)
  BY <1>2, <1>3, SumsExist
<1>5. g = [k \in 0..n |->
             IF k = 0 THEN 0
             ELSE g[k - 1] + IF s[k].tokens = Null THEN 0 ELSE s[k].tokens]
  BY <1>3, <1>4 DEF Sums
<1>6. f = [k \in 0..n |->
             IF k = 0 THEN 0
             ELSE f[k - 1] + IF s[k].tokens = Null THEN 0 ELSE s[k].tokens]
  BY <1>5
<1> HIDE DEF f
<1>7. f = [k \in 0..n |-> IF k = 0 THEN 0 ELSE f[k - 1] + d[k]]
  <2>1. ASSUME NEW k \in 0..n
        PROVE  f[k] = IF k = 0 THEN 0 ELSE f[k - 1] + d[k]
    <3>1. k = 0 \/ k \in 1..n
      BY <1>2
    <3> QED BY <1>3, <1>6, <3>1
  <2>2. f = [k \in 0..n |-> f[k]]
    BY <1>6
  <2> QED BY <2>1, <2>2
<1>8. Sums(f, d, n)
  BY <1>2, <1>3, <1>7, SumsOf
<1>9. f[n] = 0 <=> \A k \in 1..n : d[k] = 0
  BY <1>2, <1>3, <1>8, SumZero
<1>10. f[n] \in Nat
  BY <1>2, <1>8 DEF Sums
<1> QED BY <1>1, <1>3, <1>9, <1>10 DEF n

LEMMA OkTokens ==
  ASSUME NEW s, AllSound(s)
  PROVE  /\ Tokens(Ok(s)) \in Nat
         /\ Tokens(Ok(s)) = 0 <=> \A k \in 1..Len(s) : s[k].tokens = Null
<1>1. /\ Tokens(Ok(s)) \in Nat
      /\ Tokens(Ok(s)) = 0 <=> \A k \in 1..Len(Ok(s)) : Ok(s)[k].tokens = Null
  BY OkAre, TokensAre
<1>2. ASSUME NEW i \in 1..Len(s), s[i].tokens # Null
      PROVE  \E k \in 1..Len(Ok(s)) : Ok(s)[k].tokens # Null
  <2>1. s[i] \in Samples /\ Sound(s[i])
    BY DEF AllSound
  <2>2. s[i].status = "ok"
    BY <1>2, <2>1 DEF Samples, Sound
  <2>3. PICK k \in 1..Len(Ok(s)) : Ok(s)[k] = s[i]
    BY <2>2, OkAre
  <2> QED BY <1>2, <2>3
<1>3. ASSUME NEW k \in 1..Len(Ok(s)), Ok(s)[k].tokens # Null
      PROVE  \E i \in 1..Len(s) : s[i].tokens # Null
  <2>1. PICK i \in 1..Len(s) : Ok(s)[k] = s[i]
    BY OkAre
  <2> QED BY <1>3, <2>1
<1> QED BY <1>1, <1>2, <1>3

\* A wave with one sample of each prompt, in the order of the prompts.
LEMMA InOrderIs ==
  ASSUME NEW s \in Seq(Samples),
         \A k, l \in 1..Len(s) : s[k].prompt = s[l].prompt => k = l,
         \A i \in Prompts : \E k \in 1..Len(s) : s[k].prompt = i
  PROVE  /\ Len(s) = NPrompts
         /\ InOrder(s) \in Seq(Samples) /\ Len(InOrder(s)) = NPrompts
         /\ \A k \in Prompts : InOrder(s)[k].prompt = k
         /\ \A k \in Prompts : \E i \in 1..Len(s) : InOrder(s)[k] = s[i]
         /\ \A i \in 1..Len(s) : \E k \in Prompts : InOrder(s)[k] = s[i]
<1> DEFINE n == Len(s)
           key == [i \in 1..n |-> s[i].prompt]
<1>1. /\ n \in Nat /\ DOMAIN s = 1..n /\ NPrompts \in Nat
      /\ \A i \in 1..n : s[i] \in Samples /\ s[i].prompt \in Prompts
  <2>1. n \in Nat /\ DOMAIN s = 1..n /\ \A i \in 1..n : s[i] \in Samples
    OBVIOUS
  <2>2. \A x \in Samples : x.prompt \in Prompts
    BY DEF Samples
  <2> QED BY <2>1, <2>2, ThreadsAssumption
<1>2. /\ key \in [1..n -> Prompts]
      /\ \A i \in 1..n : key[i] = s[i].prompt
  BY <1>1
<1>3. InOrder(s) = [k \in 1..n |-> s[Listed(1..n, key)[k]]]
  BY <1>1 DEF InOrder
<1> HIDE DEF key, n
<1>4. key \in Injection(1..n, Prompts) /\ key \in Surjection(1..n, Prompts)
  BY <1>2 DEF Injection, IsInjective, Surjection, n
<1>5. /\ IsFiniteSet(1..n) /\ Cardinality(1..n) = n
      /\ IsFiniteSet(Prompts) /\ Cardinality(Prompts) = NPrompts
  BY <1>1, FS_Interval DEF Prompts
<1>6. n = NPrompts
  BY <1>1, <1>4, <1>5, FS_Injection
<1>7. /\ \A k \in 1..n : /\ Listed(1..n, key)[k] \in 1..n
                         /\ Cardinality(UpTo(Listed(1..n, key)[k], 1..n, key)) = k
      /\ \A i \in 1..n : \E k \in 1..n : Listed(1..n, key)[k] = i
  <2>1. 1..n \in SUBSET Nat /\ \A i \in 1..n : key[i] \in Int
    BY <1>1, <1>2 DEF Prompts
  <2> DEFINE I == 1..n
  <2>2. IsFiniteSet(I) /\ Cardinality(I) = n /\ I \in SUBSET Nat
        /\ \A i \in I : key[i] \in Int
    BY <1>5, <2>1
  <2> HIDE DEF I
  <2>3. /\ \A k \in 1..Cardinality(I) :
             Listed(I, key)[k] \in I /\ Cardinality(UpTo(Listed(I, key)[k], I, key)) = k
        /\ \A i \in I : \E k \in 1..Cardinality(I) : Listed(I, key)[k] = i
    BY <2>2, ListedByRank
  <2> QED BY <2>2, <2>3 DEF I
<1>8. ASSUME NEW i \in 1..n
      PROVE  Cardinality(UpTo(i, 1..n, key)) = key[i]
  <2> DEFINE U == UpTo(i, 1..n, key)
             h == [j \in U |-> key[j]]
  <2>1. U = {j \in 1..n : key[j] <= key[i]}
    <3>1. ASSUME NEW j \in 1..n
          PROVE  key[j] < key[i] \/ (key[j] = key[i] /\ j <= i) <=> key[j] <= key[i]
      <4>1. key[j] \in Int /\ key[i] \in Int
        BY <1>1, <1>2 DEF Prompts
      <4>2. key[j] = key[i] => j = i
        BY <1>2 DEF n
      <4> QED BY <1>1, <4>1, <4>2
    <3> QED BY <3>1 DEF UpTo
  <2>2. key[i] \in Prompts /\ key[i] \in Nat
    BY <1>1, <1>2 DEF Prompts
  <2> HIDE DEF U
  <2>3. h \in [U -> 1..key[i]]
    BY <1>1, <1>2, <2>1, <2>2 DEF Prompts
  <2>4. \A j, m \in U : h[j] = h[m] => j = m
    BY <1>2, <2>1 DEF n
  <2>5. ASSUME NEW x \in 1..key[i] PROVE \E j \in U : h[j] = x
    <3>1. x \in Prompts /\ x <= key[i]
      BY <1>1, <2>2 DEF Prompts
    <3>2. PICK j \in 1..n : key[j] = x
      BY <1>2, <3>1 DEF n
    <3>3. j \in U
      BY <2>1, <3>1, <3>2
    <3> QED BY <3>2, <3>3
  <2>6. h \in Injection(U, 1..key[i]) /\ h \in Surjection(U, 1..key[i])
    BY <2>3, <2>4, <2>5 DEF Injection, IsInjective, Surjection
  <2>7. IsFiniteSet(1..key[i]) /\ Cardinality(1..key[i]) = key[i]
    <3>1. \A m \in Nat : IsFiniteSet(1..m) /\ Cardinality(1..m) = m
      BY FS_Interval
    <3> QED BY <2>2, <3>1
  <2>8. Cardinality(U) = key[i]
    BY <2>6, <2>7, FS_Injection
  <2> QED BY <2>8 DEF U
<1>9. ASSUME NEW k \in 1..n
      PROVE  /\ InOrder(s)[k] = s[Listed(1..n, key)[k]]
             /\ InOrder(s)[k] \in Samples /\ InOrder(s)[k].prompt = k
  <2>1. Listed(1..n, key)[k] \in 1..n /\ key[Listed(1..n, key)[k]] = k
    BY <1>7, <1>8
  <2>2. InOrder(s)[k] = s[Listed(1..n, key)[k]]
    BY <1>3
  <2> QED BY <1>1, <1>2, <2>1, <2>2
<1>10. InOrder(s) \in Seq(Samples) /\ Len(InOrder(s)) = n
  <2>1. InOrder(s) \in [1..n -> Samples]
    BY <1>3, <1>9
  <2> QED BY <1>1, <2>1
<1>11. ASSUME NEW i \in 1..n PROVE \E k \in 1..n : InOrder(s)[k] = s[i]
  BY <1>7, <1>9
<1>12. 1..n = Prompts
  BY <1>6 DEF Prompts
<1>13. \A k \in 1..n : \E i \in 1..n : InOrder(s)[k] = s[i]
  BY <1>7, <1>9
<1> QED BY <1>6, <1>9, <1>10, <1>11, <1>12, <1>13 DEF n

-----------------------------------------------------------------------------
(* The benchmark: every step keeps BenchInv.                               *)

LEMMA ThreadsAre ==
  /\ NPrompts \in Nat \ {0} /\ Warmups \in Nat /\ Repeats \in Nat
  /\ Probe \in Threads /\ Probe[1] = 0 /\ 0 \notin Waves
  /\ \A w \in Waves, i \in Prompts :
       <<w, i>> \in Threads /\ <<w, i>> # Probe /\ w \in Nat \ {0} /\ i \in Nat \ {0}
  /\ \A t \in Threads : t = Probe \/ \E w \in Waves, i \in Prompts : t = <<w, i>>
BY ThreadsAssumption DEF Probe, Waves, Prompts

LEMMA BenchInitially == BenchInit => BenchInv
<1> SUFFICES ASSUME BenchInit PROVE BenchInv
  OBVIOUS
<1> USE DEF BenchInit, ClientInit
<1>1. BenchTypeOK
  <2>1. AllSound(<<>>) /\ <<>> \in Seq(Nat)
    BY DEF AllSound
  <2>2. got \in [Threads -> Reading] /\ at \in [Threads -> Places]
    BY DEF Reading, Nothing, Places
  <2> QED BY <2>1, <2>2, ThreadsAssumption DEF BenchTypeOK
<1>2. InWaves
  <2>1. \A t \in Threads : at[t] = "new"
    OBVIOUS
  <2>2. ASSUME NEW w \in Waves, NEW i \in Prompts
        PROVE  <<w, i>> \in Threads /\ w > 0 /\ ~ (w < 0) /\ w # 0
    <3>1. <<w, i>> \in Threads /\ w \in Nat \ {0}
      BY ThreadsAre
    <3> QED BY <3>1
  <2> QED BY <2>1, <2>2, ThreadsAre DEF InWaves
<1>3. OneOfEach
  BY DEF OneOfEach, Waves
<1>4. Gathered
  <2>1. Measured = 0
    BY ThreadsAre DEF Measured
  <2> QED BY <2>1, ThreadsAre DEF Gathered, AtItsPlace
<1>5. Reported
  BY DEF Reported
<1> QED BY <1>1, <1>2, <1>3, <1>4, <1>5 DEF BenchInv

LEMMA ReadingOn ==
  ASSUME NEW r \in Reading, NEW n \in Nat, NEW m \in Nat, NEW d \in Nat
  PROVE  /\ [r EXCEPT !.chunks = n, !.tokens = m] \in Reading
         /\ [r EXCEPT !.chunks = n, !.said = "error"] \in Reading
         /\ [r EXCEPT !.said = "done"] \in Reading
         /\ [r EXCEPT !.total = d] \in Reading
BY DEF Reading

\* A thread that reads on moves between sent, reading and its two ends.
LEMMA ClientMoves ==
  ASSUME NEW t \in Threads, ClientStep(t),
         at \in [Threads -> Places], got \in [Threads -> Reading]
  PROVE  /\ at' \in [Threads -> Places] /\ got' \in [Threads -> Reading]
         /\ at[t] \in {"sent", "reading"} /\ at'[t] \in InFlight
         /\ \A u \in Threads : u # t => at'[u] = at[u]
<1> USE DEF MoveTo, InFlight, Returned, Places
<1>1. CASE HttpError(t) \/ Headers(t) \/ Breaks(t)
  BY <1>1 DEF HttpError, Headers, Breaks
<1>2. ASSUME NEW n \in ChunkTokens, DataChunk(t, n)
      PROVE  /\ at' = at /\ at[t] = "reading" /\ got' \in [Threads -> Reading]
  <2>1. got[t] \in Reading /\ n \in Nat
    BY AnswersAssumption
  <2>2. got[t].chunks + 1 \in Nat /\ got[t].tokens + n \in Nat
    BY <2>1 DEF Reading
  <2>3. [got[t] EXCEPT !.chunks = got[t].chunks + 1, !.tokens = got[t].tokens + n] \in Reading
    BY <2>1, <2>2, ReadingOn
  <2> QED BY <1>2, <2>3 DEF DataChunk, Reads
<1>3. CASE ErrorEvent(t)
  <2>1. got[t] \in Reading
    OBVIOUS
  <2>2. got[t].chunks + 1 \in Nat
    BY <2>1 DEF Reading
  <2>3. [got[t] EXCEPT !.chunks = got[t].chunks + 1, !.said = "error"] \in Reading
    BY <2>1, <2>2, ReadingOn
  <2> QED BY <1>3, <2>3 DEF ErrorEvent, Reads
<1>4. CASE DoneLine(t)
  <2>1. got[t] \in Reading
    OBVIOUS
  <2>2. [got[t] EXCEPT !.said = "done"] \in Reading
    BY <2>1, ReadingOn
  <2> QED BY <1>4, <2>2 DEF DoneLine, Reads
<1>5. ASSUME NEW d \in Latencies, BodyEnds(t, d)
      PROVE  /\ at[t] = "reading" /\ at' = [at EXCEPT ![t] = "ok"]
             /\ got' \in [Threads -> Reading]
  <2>1. got[t] \in Reading /\ d \in Nat
    BY AnswersAssumption
  <2>2. [got[t] EXCEPT !.total = d] \in Reading
    BY <2>1, ReadingOn
  <2> QED BY <1>5, <2>2 DEF BodyEnds
<1>6. CASE \E n \in ChunkTokens : DataChunk(t, n)
  BY <1>2, <1>6
<1>7. CASE \E d \in Latencies : BodyEnds(t, d)
  BY <1>5, <1>7
<1> QED BY <1>1, <1>3, <1>4, <1>6, <1>7 DEF ClientStep

\* What the collector gets of a thread that has returned.
LEMMA SampleIs ==
  ASSUME NEW w \in Waves, NEW i \in Prompts, at[<<w, i>>] \in Returned,
         got \in [Threads -> Reading]
  PROVE  /\ Sample(<<w, i>>) \in Samples /\ Sound(Sample(<<w, i>>))
         /\ Sample(<<w, i>>).wave = w /\ Sample(<<w, i>>).prompt = i
<1>1. got[<<w, i>>] \in Reading /\ w \in Nat
  BY ThreadsAre
<1>2. got[<<w, i>>].tokens \in Nat /\ got[<<w, i>>].total \in Nat
  BY <1>1 DEF Reading
<1>3. <<w, i>>[1] = w /\ <<w, i>>[2] = i
  OBVIOUS
<1>4. CASE at[<<w, i>>] = "failed"
  BY <1>1, <1>3, <1>4 DEF Sample, Samples, Sound, Null
<1>5. CASE at[<<w, i>>] = "ok"
  BY <1>1, <1>2, <1>3, <1>5 DEF Sample, Samples, Sound, Null
<1> QED BY <1>4, <1>5 DEF Returned

\* Samples are of the workload's prompts.
LEMMA SoundPrompts ==
  ASSUME NEW s, AllSound(s)
  PROVE  \A k \in 1..Len(s) : s[k].prompt \in Prompts
<1>1. \A k \in 1..Len(s) : s[k] \in Samples
  BY DEF AllSound
<1>2. \A x \in Samples : x.prompt \in Prompts
  BY DEF Samples
<1> QED BY <1>1, <1>2

\* A step after which the same threads are new and the same over.
SamePhases == \A t \in Threads : /\ at'[t] = "new" <=> at[t] = "new"
                                 /\ at'[t] = "over" <=> at[t] = "over"

LEMMA PhasesKept ==
  ASSUME InWaves, OneOfEach, AllSound(collected),
         UNCHANGED <<main, wave, started, collected>>, SamePhases
  PROVE  InWaves' /\ OneOfEach'
<1>1. InWaves'
  <2>1. ASSUME NEW w \in Waves, NEW i \in Prompts
        PROVE  /\ at'[<<w, i>>] = "new" <=> at[<<w, i>>] = "new"
               /\ at'[<<w, i>>] = "over" <=> at[<<w, i>>] = "over"
    BY ThreadsAre DEF SamePhases
  <2>2. /\ at'[Probe] = "new" <=> at[Probe] = "new"
        /\ at'[Probe] = "over" <=> at[Probe] = "over"
    BY ThreadsAre DEF SamePhases
  <2> QED BY <2>1, <2>2 DEF InWaves
<1>2. ASSUME NEW i \in Prompts, wave \in Waves
      PROVE  at'[<<wave, i>>] = "over" <=> at[<<wave, i>>] = "over"
  BY <1>2, ThreadsAre DEF SamePhases
<1>3. \A k \in 1..Len(collected) : collected[k].prompt \in Prompts
  BY SoundPrompts
<1>4. OneOfEach'
  BY <1>2, <1>3 DEF OneOfEach
<1> QED BY <1>1, <1>4

LEMMA GatheredKept ==
  ASSUME Gathered, UNCHANGED <<wave, all, rates>>
  PROVE  Gathered'
BY DEF Gathered, AtItsPlace, Measured

LEMMA ReportedKept ==
  ASSUME Reported, UNCHANGED <<main, setup, all, rates, result, compared>>
  PROVE  Reported'
<1>1. Payload' = Payload
  BY DEF Payload
<1> QED BY <1>1 DEF Reported

LEMMA TypesKept ==
  ASSUME BenchTypeOK, UNCHANGED <<setup, wave, started, collected, all, rates>>,
         at' \in [Threads -> Places], got' \in [Threads -> Reading],
         main' \in {"preflight", "probe", "refused", "wave", "done"}
  PROVE  BenchTypeOK'
BY DEF BenchTypeOK, AllSound

-----------------------------------------------------------------------------
LEMMA PreflightKeeps ==
  ASSUME BenchInv, RefuseSetup \/ StartProbe \/ RefuseProbe \/ Measure
  PROVE  BenchInv'
<1> USE DEF BenchInv
<1>0. at \in [Threads -> Places] /\ got \in [Threads -> Reading]
  BY DEF BenchTypeOK
<1>1. CASE RefuseSetup \/ RefuseProbe
  <2>1. /\ main \in {"preflight", "probe"} /\ main' = "refused"
        /\ UNCHANGED <<clientVars, setup, wave, started, collected, all, rates, result, compared>>
    BY <1>1 DEF RefuseSetup, RefuseProbe, Refuse
  <2>2. BenchTypeOK' /\ Gathered'
    BY <1>0, <2>1, TypesKept, GatheredKept DEF clientVars
  <2>3. InWaves' /\ OneOfEach'
    BY <2>1 DEF InWaves, OneOfEach, clientVars
  <2>4. Reported'
    BY <2>1 DEF Reported
  <2> QED BY <2>2, <2>3, <2>4
<1>2. CASE StartProbe
  <2>1. /\ main = "preflight" /\ main' = "probe"
        /\ setup.mode = "vllm" => setup.model = setup.served
        /\ at' = [at EXCEPT ![Probe] = "sent"] /\ got' = got
        /\ UNCHANGED <<setup, wave, started, collected, all, rates, result, compared>>
    BY <1>2 DEF StartProbe, Send, MoveTo
  <2>2. at' \in [Threads -> Places]
    BY <1>0, <2>1 DEF Places, InFlight
  <2>3. BenchTypeOK' /\ Gathered'
    BY <1>0, <2>1, <2>2, TypesKept, GatheredKept
  <2>4. \A w \in Waves, i \in Prompts : at'[<<w, i>>] = at[<<w, i>>]
    BY <1>0, <2>1, ThreadsAre
  <2>5. InWaves'
    BY <2>1, <2>4 DEF InWaves
  <2>6. wave \notin Waves
    BY <2>1, ThreadsAre DEF InWaves
  <2>7. OneOfEach'
    BY <2>1, <2>6 DEF OneOfEach
  <2>8. Reported'
    BY <2>1 DEF Reported
  <2> QED BY <2>3, <2>5, <2>7, <2>8
<1>3. CASE Measure
  <2>1. /\ main = "probe" /\ main' = "wave" /\ wave' = 1
        /\ at' = [at EXCEPT ![Probe] = "over"] /\ got' = [got EXCEPT ![Probe] = Nothing]
        /\ UNCHANGED <<setup, started, collected, all, rates, result, compared>>
    BY <1>3 DEF Measure
  <2>2. at' \in [Threads -> Places] /\ got' \in [Threads -> Reading]
    BY <1>0, <2>1 DEF Places, Nothing, Reading
  <2>3. \A w \in Waves, i \in Prompts : at'[<<w, i>>] = at[<<w, i>>]
    BY <1>0, <2>1, ThreadsAre
  <2>4. at'[Probe] = "over"
    BY <1>0, <2>1, ThreadsAre
  <2>5. /\ wave = 0 /\ collected = <<>>
        /\ \A w \in Waves, i \in Prompts : at'[<<w, i>>] = "new"
    <3>1. wave = 0 /\ wave \notin Waves
      BY <2>1, ThreadsAre DEF InWaves
    <3>2. ASSUME NEW w \in Waves, NEW i \in Prompts PROVE at[<<w, i>>] = "new"
      <4>1. w \in Nat \ {0}
        BY ThreadsAre
      <4> QED BY <3>1, <4>1 DEF InWaves
    <3>3. collected = <<>>
      <4>1. collected \in Seq(Samples) /\ ~ \E k \in 1..Len(collected) : TRUE
        BY <3>1 DEF BenchTypeOK, AllSound, OneOfEach
      <4> QED BY <4>1
    <3> QED BY <2>3, <3>1, <3>2, <3>3
  <2>6. started = 0
    BY <2>1 DEF InWaves
  <2>7. BenchTypeOK'
    BY <2>1, <2>2, ThreadsAre DEF BenchTypeOK, AllSound
  <2>8. InWaves'
    BY <2>1, <2>4, <2>5, <2>6, ThreadsAre DEF InWaves
  <2>9. OneOfEach'
    BY <2>1, <2>5 DEF OneOfEach
  <2>10. Gathered'
    <3>1. Measured' = Measured
      BY <2>1, <2>5, ThreadsAre DEF Measured
    <3> QED BY <2>1, <3>1 DEF Gathered, AtItsPlace
  <2>11. Reported'
    BY <2>1 DEF Reported
  <2> QED BY <2>7, <2>8, <2>9, <2>10, <2>11
<1> QED BY <1>1, <1>2, <1>3

LEMMA StartKeeps ==
  ASSUME BenchInv, StartThread
  PROVE  BenchInv'
<1> USE DEF BenchInv
<1> DEFINE u == <<wave, started + 1>>
<1>1. /\ main = "wave" /\ wave \in Waves /\ started < NPrompts
      /\ at[u] = "new" /\ at' = [at EXCEPT ![u] = "sent"] /\ got' = got
      /\ started' = started + 1
      /\ UNCHANGED <<setup, main, wave, collected, all, rates, result, compared>>
  BY DEF StartThread, Send, MoveTo
<1>2. started + 1 \in Prompts /\ started \in Nat /\ u \in Threads
  <2>1. started \in Nat /\ started + 1 \in Prompts
    BY <1>1, ThreadsAre DEF BenchTypeOK, Prompts
  <2> QED BY <1>1, <2>1, ThreadsAre
<1>3. at \in [Threads -> Places] /\ got \in [Threads -> Reading]
  BY DEF BenchTypeOK
<1>4. at' \in [Threads -> Places]
  BY <1>1, <1>3 DEF Places, InFlight
<1>5. BenchTypeOK'
  BY <1>1, <1>2, <1>4, ThreadsAre DEF BenchTypeOK, AllSound
<1>6. ASSUME NEW w \in Waves, NEW i \in Prompts
      PROVE  /\ at'[<<w, i>>] = "new" <=> at[<<w, i>>] = "new" /\ <<w, i>> # u
             /\ at'[<<w, i>>] = "over" <=> at[<<w, i>>] = "over"
  <2>1. <<w, i>> \in Threads
    BY ThreadsAre
  <2> QED BY <1>1, <1>2, <1>3, <2>1
<1>7. at'[Probe] = at[Probe]
  <2>1. Probe \in Threads /\ Probe # u
    BY <1>1, <1>2, ThreadsAre
  <2> QED BY <1>1, <1>3, <2>1
<1>8. InWaves'
  <2>1. ASSUME NEW w \in Waves, NEW i \in Prompts
        PROVE  /\ w < wave => at'[<<w, i>>] = "over"
               /\ w > wave => at'[<<w, i>>] = "new"
               /\ w = wave => (at'[<<w, i>>] = "new" <=> i > started + 1)
    <3>1. w \in Nat /\ i \in Nat /\ wave \in Nat
      BY <1>1, ThreadsAre
    <3>2. /\ w < wave => at[<<w, i>>] = "over"
          /\ w > wave => at[<<w, i>>] = "new"
          /\ w = wave => (at[<<w, i>>] = "new" <=> i > started)
      BY DEF InWaves
    <3>3. <<w, i>> = u <=> w = wave /\ i = started + 1
      OBVIOUS
    <3> QED BY <1>2, <1>6, <3>1, <3>2, <3>3
  <2> QED BY <1>1, <1>7, <2>1 DEF InWaves
<1>9. OneOfEach'
  <2>1. \A k \in 1..Len(collected) : collected[k].prompt \in Prompts
    BY SoundPrompts DEF BenchTypeOK
  <2> QED BY <1>1, <1>6, <2>1 DEF OneOfEach
<1>10. Gathered' /\ Reported'
  BY <1>1, GatheredKept, ReportedKept
<1> QED BY <1>5, <1>8, <1>9, <1>10

LEMMA ReadKeeps ==
  ASSUME BenchInv, NEW t \in Threads, ClientStep(t),
         UNCHANGED <<setup, main, wave, started, collected, all, rates, result, compared>>
  PROVE  BenchInv'
<1> USE DEF BenchInv
<1>1. at \in [Threads -> Places] /\ got \in [Threads -> Reading] /\ AllSound(collected)
  BY DEF BenchTypeOK
<1>2. /\ at' \in [Threads -> Places] /\ got' \in [Threads -> Reading]
      /\ at[t] \in {"sent", "reading"} /\ at'[t] \in InFlight
      /\ \A u \in Threads : u # t => at'[u] = at[u]
  BY <1>1, ClientMoves
<1>3. SamePhases
  BY <1>2 DEF SamePhases, InFlight, Returned
<1>4. BenchTypeOK'
  BY <1>2, TypesKept DEF BenchTypeOK
<1>5. InWaves' /\ OneOfEach'
  BY <1>1, <1>3, PhasesKept
<1> QED BY <1>4, <1>5, GatheredKept, ReportedKept

LEMMA AddKeeps ==
  ASSUME BenchInv, NEW t \in Threads, Add(t)
  PROVE  BenchInv'
<1> USE DEF BenchInv
<1>1. /\ t[1] \in Waves /\ at[t] \in Returned
      /\ collected' = Append(collected, Sample(t))
      /\ at' = [at EXCEPT ![t] = "over"] /\ got' = [got EXCEPT ![t] = Nothing]
      /\ UNCHANGED <<setup, main, wave, started, all, rates, result, compared>>
  BY DEF Add
<1>2. PICK w \in Waves, i \in Prompts : t = <<w, i>>
  BY <1>1, ThreadsAre
<1>3. /\ at \in [Threads -> Places] /\ got \in [Threads -> Reading] /\ AllSound(collected)
      /\ wave \in Nat /\ w \in Nat
  <2>1. w \in Nat /\ Warmups \in Nat /\ Repeats \in Nat
    BY ThreadsAre
  <2> QED BY <2>1 DEF BenchTypeOK
<1>4. at[<<w, i>>] # "new" /\ at[<<w, i>>] # "over"
  BY <1>1, <1>2 DEF Returned
<1>5. w = wave /\ ~ (i > started)
  BY <1>3, <1>4 DEF InWaves
<1>6. /\ Sample(t) \in Samples /\ Sound(Sample(t))
      /\ Sample(t).wave = wave /\ Sample(t).prompt = i
  BY <1>1, <1>2, <1>3, <1>5, SampleIs
<1> DEFINE n == Len(collected)
<1>7. /\ n \in Nat /\ Len(collected') = n + 1 /\ collected' \in Seq(Samples)
      /\ collected'[n + 1] = Sample(t)
      /\ \A k \in 1..n : collected'[k] = collected[k]
  <2>1. collected \in Seq(Samples)
    BY <1>3 DEF AllSound
  <2> QED BY <1>1, <1>6, <2>1
<1>8. \A k \in 1..Len(collected') : k \in 1..n \/ k = n + 1
  BY <1>7
<1> HIDE DEF n
<1>9. AllSound(collected')
  <2>1. \A k \in 1..n : Sound(collected[k])
    BY <1>3 DEF AllSound, n
  <2> QED BY <1>6, <1>7, <1>8, <2>1 DEF AllSound
<1>10. at' \in [Threads -> Places] /\ got' \in [Threads -> Reading]
  BY <1>1, <1>3 DEF Places, Nothing, Reading
<1>11. BenchTypeOK'
  BY <1>1, <1>9, <1>10 DEF BenchTypeOK, AllSound
<1>12. ASSUME NEW x \in Waves, NEW j \in Prompts
       PROVE  /\ at'[<<x, j>>] = "new" <=> at[<<x, j>>] = "new"
              /\ at'[<<x, j>>] = "over" <=> at[<<x, j>>] = "over" \/ <<x, j>> = t
  <2>1. <<x, j>> \in Threads
    BY ThreadsAre
  <2> QED BY <1>1, <1>2, <1>3, <1>4, <2>1
<1>13. at'[Probe] = at[Probe]
  <2>1. Probe \in Threads /\ Probe # t
    BY <1>2, ThreadsAre
  <2> QED BY <1>1, <1>3, <2>1
<1>14. InWaves'
  <2>1. ASSUME NEW x \in Waves, NEW j \in Prompts
        PROVE  /\ x < wave => at'[<<x, j>>] = "over"
               /\ x > wave => at'[<<x, j>>] = "new"
               /\ x = wave => (at'[<<x, j>>] = "new" <=> j > started)
    BY <1>12 DEF InWaves
  <2> QED BY <1>1, <1>13, <2>1 DEF InWaves
<1>15. OneOfEach'
  <2>1. \A k \in 1..n : /\ wave \in Waves /\ collected[k].wave = wave
                        /\ at[<<wave, collected[k].prompt>>] = "over"
                        /\ collected[k].prompt \in Prompts
    BY <1>3, SoundPrompts DEF OneOfEach, n
  <2>2. \A k \in 1..n : collected[k].prompt # i
    BY <1>4, <1>5, <2>1
  <2>3. ASSUME NEW k \in 1..Len(collected')
        PROVE  /\ wave \in Waves /\ collected'[k].wave = wave
               /\ at'[<<wave, collected'[k].prompt>>] = "over"
    <3>1. CASE k = n + 1
      BY <1>2, <1>5, <1>6, <1>7, <1>12, <3>1
    <3>2. CASE k \in 1..n
      BY <1>7, <1>12, <2>1, <3>2
    <3> QED BY <1>8, <3>1, <3>2
  <2>4. ASSUME NEW k \in 1..Len(collected'), NEW l \in 1..Len(collected'),
               collected'[k].prompt = collected'[l].prompt
        PROVE  k = l
    <3>1. \A a, b \in 1..n : collected[a].prompt = collected[b].prompt => a = b
      BY DEF OneOfEach, n
    <3>2. \A a \in 1..n : collected'[a].prompt # collected'[n + 1].prompt
      BY <1>6, <1>7, <2>2
    <3> QED BY <1>7, <1>8, <2>4, <3>1, <3>2
  <2>5. ASSUME NEW j \in Prompts, wave \in Waves, at'[<<wave, j>>] = "over"
        PROVE  \E k \in 1..Len(collected') : collected'[k].prompt = j
    <3>1. CASE <<wave, j>> = t
      <4>1. j = i /\ n + 1 \in 1..Len(collected')
        BY <1>2, <1>7, <3>1
      <4> QED BY <1>6, <1>7, <4>1
    <3>2. CASE at[<<wave, j>>] = "over"
      <4>1. PICK k \in 1..n : collected[k].prompt = j
        BY <2>5, <3>2 DEF OneOfEach, n
      <4>2. k \in 1..Len(collected')
        BY <1>7
      <4> QED BY <1>7, <4>1, <4>2
    <3> QED BY <1>12, <2>5, <3>1, <3>2
  <2>6. wave' = wave
    BY <1>1
  <2> QED BY <2>3, <2>4, <2>5, <2>6 DEF OneOfEach
<1> QED BY <1>1, <1>11, <1>14, <1>15, GatheredKept, ReportedKept

\* Division at the border of two waves.
LEMMA WaveOf ==
  ASSUME NEW N \in Nat \ {0}, NEW d \in Nat, NEW j \in 1..N
  PROVE  (N * d + j - 1) \div N = d /\ (N * d + j - 1) % N = j - 1
<1> DEFINE x == N * d + j - 1
           q == x \div N
           r == x % N
<1>1. x \in Nat /\ N * d \in Nat
  OBVIOUS
<1>2. q \in Int /\ r \in 0..(N - 1) /\ x = N * q + r
  BY <1>1
<1> HIDE DEF q, r
<1>3. ~ (q > d)
  <2>1. SUFFICES ASSUME q >= d + 1 PROVE FALSE
    BY <1>2
  <2>2. N * q >= N * (d + 1) /\ N * (d + 1) = N * d + N
    BY <1>2, <2>1
  <2> QED BY <1>1, <1>2, <2>2
<1>4. ~ (q < d)
  <2>1. SUFFICES ASSUME q + 1 <= d PROVE FALSE
    BY <1>2
  <2>2. N * (q + 1) <= N * d /\ N * (q + 1) = N * q + N
    BY <1>2, <2>1
  <2> QED BY <1>1, <1>2, <2>2
<1>5. q = d
  BY <1>2, <1>3, <1>4
<1>6. r = j - 1
  BY <1>1, <1>2, <1>5
<1> QED BY <1>5, <1>6 DEF q, r

\* Between two waves: what main() takes over of the one that has been joined.
LEMMA JoinGathers ==
  ASSUME BenchInv, Join
  PROVE  /\ AllSound(all') /\ rates' \in Seq(Nat) /\ Gathered'
<1> USE DEF BenchInv
<1>1. /\ wave \in Waves /\ Joined /\ wave' = wave + 1
      /\ wave \in Nat \ {0} /\ Warmups \in Nat /\ NPrompts \in Nat \ {0}
      /\ AllSound(all) /\ AllSound(collected) /\ rates \in Seq(Nat)
  BY ThreadsAre DEF Join, BenchTypeOK
<1>2. CASE wave <= Warmups
  <2>1. UNCHANGED <<all, rates>>
    BY <1>2 DEF Join
  <2>2. Measured' = Measured
    BY <1>1, <1>2 DEF Measured
  <2> QED BY <1>1, <2>1, <2>2 DEF Gathered, AtItsPlace
<1>3. CASE wave > Warmups
  <2> DEFINE new == InOrder(collected)
             T == Tokens(Ok(collected))
             n == Len(all)
  <2>1. all' = all \o new /\ rates' = Append(rates, T)
    BY <1>1, <1>3 DEF Join
  <2>2. /\ collected \in Seq(Samples)
        /\ \A k \in 1..Len(collected) : Sound(collected[k]) /\ collected[k].wave = wave
        /\ \A k, l \in 1..Len(collected) : collected[k].prompt = collected[l].prompt => k = l
        /\ \A i \in Prompts : \E k \in 1..Len(collected) : collected[k].prompt = i
    BY <1>1 DEF AllSound, OneOfEach, Joined
  <2>3. /\ new \in Seq(Samples) /\ Len(new) = NPrompts
        /\ \A k \in 1..NPrompts : new[k].prompt = k
        /\ \A k \in 1..NPrompts : \E i \in 1..Len(collected) : new[k] = collected[i]
        /\ \A i \in 1..Len(collected) : \E k \in 1..NPrompts : new[k] = collected[i]
    BY <2>2, InOrderIs DEF Prompts
  <2>4. T \in Nat /\ (T = 0 <=> \A k \in 1..Len(collected) : collected[k].tokens = Null)
    BY <1>1, OkTokens
  <2> HIDE DEF new, T
  <2>5. ASSUME NEW k \in 1..NPrompts PROVE Sound(new[k]) /\ new[k].wave = wave
    <3>1. PICK i \in 1..Len(collected) : new[k] = collected[i]
      BY <2>3
    <3> QED BY <2>2, <3>1
  <2>6. T # 0 <=> \E k \in 1..NPrompts : new[k].tokens # Null
    <3>1. ASSUME NEW i \in 1..Len(collected), collected[i].tokens # Null
          PROVE  \E k \in 1..NPrompts : new[k].tokens # Null
      <4>1. PICK k \in 1..NPrompts : new[k] = collected[i]
        BY <2>3
      <4> QED BY <3>1, <4>1
    <3>2. ASSUME NEW k \in 1..NPrompts, new[k].tokens # Null
          PROVE  \E i \in 1..Len(collected) : collected[i].tokens # Null
      <4>1. PICK i \in 1..Len(collected) : new[k] = collected[i]
        BY <2>3
      <4> QED BY <3>2, <4>1
    <3> QED BY <2>4, <3>1, <3>2
  <2>7. /\ all \in Seq(Samples) /\ n \in Nat
        /\ all' \in Seq(Samples) /\ Len(all') = n + NPrompts
        /\ \A k \in 1..n : all'[k] = all[k]
        /\ \A j \in 1..NPrompts : n + j \in 1..(n + NPrompts) /\ all'[n + j] = new[j]
    <3>1. all \in Seq(Samples) /\ n \in Nat
      BY <1>1 DEF AllSound
    <3>2. all' \in Seq(Samples) /\ Len(all') = n + NPrompts
      <4>1. \A x, y \in Seq(Samples) : x \o y \in Seq(Samples) /\ Len(x \o y) = Len(x) + Len(y)
        OBVIOUS
      <4>2. all \o new \in Seq(Samples) /\ Len(all \o new) = n + Len(new)
        BY <2>3, <3>1, <4>1
      <4> QED BY <2>1, <2>3, <4>2
    <3>3. \A k \in 1..n : all'[k] = all[k]
      BY <2>1, <2>3, <3>1
    <3>4. ASSUME NEW j \in 1..NPrompts
          PROVE  n + j \in 1..(n + NPrompts) /\ all'[n + j] = new[j]
      <4>1. n + j \in 1..(n + NPrompts) /\ n + j - n = j /\ ~ (n + j <= n)
        BY <1>1, <3>1
      <4> QED BY <2>1, <2>3, <3>1, <4>1
    <3> QED BY <3>1, <3>2, <3>3, <3>4
  <2>8. ASSUME NEW k \in 1..(n + NPrompts)
        PROVE  k \in 1..n \/ \E j \in 1..NPrompts : k = n + j
    <3>1. n \in Nat /\ NPrompts \in Nat
      BY <1>1, <2>7
    <3> HIDE DEF n
    <3>2. k \in 1..n \/ (k - n \in 1..NPrompts /\ k = n + (k - n))
      BY <3>1
    <3> QED BY <3>2
  <2>9. /\ Len(rates') = Len(rates) + 1 /\ rates' \in Seq(Nat)
        /\ \A w \in 1..Len(rates) : rates'[w] = rates[w]
        /\ rates'[Len(rates) + 1] = T
        /\ Len(rates) \in Nat
    BY <1>1, <2>1, <2>4
  <2>10. /\ Measured \in Nat /\ Measured' = Measured + 1 /\ wave = Warmups + Measured + 1
         /\ n = NPrompts * Measured /\ Len(rates) = Measured
    BY <1>1, <1>3 DEF Measured, Gathered
  <2> DEFINE d == Measured
  <2> HIDE DEF n
  <2>11. AllSound(all')
    <3>1. \A k \in 1..n : Sound(all[k])
      BY <1>1 DEF AllSound, n
    <3>2. \A k \in 1..(n + NPrompts) : Sound(all'[k])
      BY <2>5, <2>7, <2>8, <3>1
    <3> QED BY <2>7, <3>2 DEF AllSound
  <2>12. AtItsPlace(all')
    <3>1. ASSUME NEW j \in 1..NPrompts
          PROVE  /\ new[j].wave = Warmups + ((n + j - 1) \div NPrompts) + 1
                 /\ new[j].prompt = ((n + j - 1) % NPrompts) + 1
      <4> HIDE DEF d
      <4>1. d \in Nat /\ n = NPrompts * d /\ wave = Warmups + d + 1
        BY <2>10 DEF d
      <4>2. (n + j - 1) \div NPrompts = d /\ (n + j - 1) % NPrompts = j - 1
        BY <1>1, <4>1, WaveOf
      <4>3. new[j].prompt = j /\ new[j].wave = Warmups + d + 1
        BY <2>3, <2>5, <4>1
      <4>4. j = (j - 1) + 1
        OBVIOUS
      <4> QED BY <4>2, <4>3, <4>4
    <3>2. \A k \in 1..n : /\ all[k].wave = Warmups + ((k - 1) \div NPrompts) + 1
                          /\ all[k].prompt = ((k - 1) % NPrompts) + 1
      BY DEF Gathered, AtItsPlace, n
    <3>3. ASSUME NEW k \in 1..(n + NPrompts)
          PROVE  /\ all'[k].wave = Warmups + ((k - 1) \div NPrompts) + 1
                 /\ all'[k].prompt = ((k - 1) % NPrompts) + 1
      <4>1. CASE k \in 1..n
        BY <2>7, <3>2, <4>1
      <4>2. ASSUME NEW j \in 1..NPrompts, k = n + j
            PROVE  /\ all'[k].wave = Warmups + ((k - 1) \div NPrompts) + 1
                   /\ all'[k].prompt = ((k - 1) % NPrompts) + 1
        BY <2>7, <3>1, <4>2
      <4> QED BY <2>8, <4>1, <4>2
    <3> QED BY <2>7, <3>3 DEF AtItsPlace
  <2>13. (\E w \in 1..Len(rates') : rates'[w] # 0)
           <=> (\E k \in 1..Len(all') : all'[k].tokens # Null)
    <3>1. (\E w \in 1..Len(rates) : rates[w] # 0) <=> (\E k \in 1..n : all[k].tokens # Null)
      BY DEF Gathered, n
    <3>2. (\E w \in 1..Len(rates') : rates'[w] # 0)
            <=> (\E w \in 1..Len(rates) : rates[w] # 0) \/ T # 0
      <4>1. \A w : w \in 1..Len(rates') <=> w \in 1..Len(rates) \/ w = Len(rates) + 1
        BY <2>9
      <4> QED BY <2>9, <4>1
    <3>3. (\E k \in 1..Len(all') : all'[k].tokens # Null)
            <=> (\E k \in 1..n : all[k].tokens # Null) \/ (\E j \in 1..NPrompts : new[j].tokens # Null)
      <4>1. 1..n \subseteq 1..Len(all')
        BY <1>1, <2>7 DEF n
      <4>2. ASSUME NEW k \in 1..Len(all'), all'[k].tokens # Null
            PROVE  \/ \E m \in 1..n : all[m].tokens # Null
                   \/ \E j \in 1..NPrompts : new[j].tokens # Null
        <5>1. k \in 1..(n + NPrompts)
          BY <2>7
        <5>2. CASE k \in 1..n
          BY <2>7, <4>2, <5>2
        <5>3. ASSUME NEW j \in 1..NPrompts, k = n + j
              PROVE  new[j].tokens # Null
          BY <2>7, <4>2, <5>3
        <5> QED BY <2>8, <5>1, <5>2, <5>3
      <4>3. ASSUME NEW j \in 1..NPrompts, new[j].tokens # Null
            PROVE  \E k \in 1..Len(all') : all'[k].tokens # Null
        BY <2>7, <4>3
      <4> QED BY <2>7, <4>1, <4>2, <4>3
    <3> QED BY <2>6, <3>1, <3>2, <3>3
  <2>14. Len(all') = NPrompts * Measured' /\ Len(rates') = Measured'
    <3>1. NPrompts * (Measured + 1) = NPrompts * Measured + NPrompts
      BY <1>1, <2>10
    <3> QED BY <2>7, <2>9, <2>10, <3>1
  <2> QED BY <2>9, <2>11, <2>12, <2>13, <2>14 DEF Gathered
<1> QED BY <1>1, <1>2, <1>3

LEMMA JoinKeeps ==
  ASSUME BenchInv, Join
  PROVE  BenchInv'
<1> USE DEF BenchInv
<1>1. /\ main = "wave" /\ wave \in Waves /\ Joined
      /\ wave' = wave + 1 /\ started' = 0 /\ collected' = <<>>
      /\ UNCHANGED <<at, got, setup, main, result, compared>>
  BY DEF Join, clientVars
<1>2. AllSound(all') /\ rates' \in Seq(Nat) /\ Gathered'
  BY JoinGathers
<1>3. /\ wave \in Nat /\ wave + 1 \in 0..(Warmups + Repeats + 1)
      /\ 0 \in 0..NPrompts
  BY <1>1, ThreadsAre DEF Waves
<1>4. BenchTypeOK'
  <2>1. AllSound(<<>>)
    BY DEF AllSound
  <2> QED BY <1>1, <1>2, <1>3, <2>1 DEF BenchTypeOK
<1>5. InWaves'
  <2>1. ASSUME NEW w \in Waves, NEW i \in Prompts
        PROVE  /\ w < wave + 1 => at[<<w, i>>] = "over"
               /\ w > wave + 1 => at[<<w, i>>] = "new"
               /\ w = wave + 1 => (at[<<w, i>>] = "new" <=> i > 0)
    <3>1. w \in Nat /\ i \in Nat \ {0} /\ i > 0
      <4>1. w \in Nat /\ i \in Nat \ {0}
        BY ThreadsAre
      <4> QED BY <4>1
    <3>2. /\ w < wave => at[<<w, i>>] = "over"
          /\ w > wave => at[<<w, i>>] = "new"
          /\ w = wave => at[<<w, i>>] = "over"
      BY <1>1 DEF InWaves, Joined
    <3> QED BY <1>3, <3>1, <3>2
  <2> QED BY <1>1, <1>3, <2>1 DEF InWaves
<1>6. OneOfEach'
  <2>1. ASSUME NEW i \in Prompts, wave + 1 \in Waves
        PROVE  at[<<wave + 1, i>>] # "over"
    BY <1>3, <2>1 DEF InWaves
  <2> QED BY <1>1, <2>1 DEF OneOfEach
<1>7. Reported'
  BY <1>1 DEF Reported
<1> QED BY <1>2, <1>4, <1>5, <1>6, <1>7

LEMMA ReportKeeps ==
  ASSUME BenchInv, Report
  PROVE  BenchInv'
<1> USE DEF BenchInv
<1>1. /\ main = "wave" /\ main' = "done" /\ wave \notin Waves /\ result' = {Payload}
      /\ UNCHANGED <<clientVars, setup, wave, started, collected, all, rates, compared>>
  BY DEF Report
<1>2. BenchTypeOK'
  BY <1>1, TypesKept DEF BenchTypeOK, clientVars
<1>3. wave = Warmups + Repeats + 1
  BY <1>1, ThreadsAre DEF BenchTypeOK, InWaves, Waves
<1>4. InWaves' /\ OneOfEach'
  BY <1>1, <1>3 DEF InWaves, OneOfEach, clientVars
<1>5. Gathered'
  BY <1>1, GatheredKept
<1>6. Reported'
  <2>1. Payload' = Payload
    BY <1>1 DEF Payload
  <2>2. compared = {}
    BY <1>1 DEF Reported
  <2> QED BY <1>1, <2>1, <2>2 DEF Reported
<1> QED BY <1>2, <1>4, <1>5, <1>6

LEMMA CompareKeeps ==
  ASSUME BenchInv, NEW b \in Baselines, NEW allow \in BOOLEAN, Compare(b, allow)
  PROVE  BenchInv'
<1> USE DEF BenchInv
<1>1. /\ main = "done"
      /\ UNCHANGED <<clientVars, setup, main, wave, started, collected, all, rates, result>>
      /\ \E candidate \in result : compared' = compared \cup
            {[baseline |-> b, mismatches |-> Mismatches(b, candidate),
              rows |-> Rows(b, candidate)]}
  BY DEF Compare
<1>2. BenchTypeOK' /\ InWaves' /\ OneOfEach' /\ Gathered'
  BY <1>1, TypesKept, GatheredKept DEF BenchTypeOK, InWaves, OneOfEach, clientVars
<1>3. Reported'
  <2>1. Payload' = Payload
    BY <1>1 DEF Payload
  <2>2. compared' = compared \cup
          {[baseline |-> b, mismatches |-> Mismatches(b, Payload), rows |-> Rows(b, Payload)]}
    BY <1>1 DEF Reported
  <2> QED BY <1>1, <2>1, <2>2 DEF Reported
<1> QED BY <1>2, <1>3

LEMMA BenchKept == BenchInv /\ [BenchNext]_benchVars => BenchInv'
<1> SUFFICES ASSUME BenchInv, [BenchNext]_benchVars PROVE BenchInv'
  OBVIOUS
<1>1. CASE RefuseSetup \/ StartProbe \/ RefuseProbe \/ Measure
  BY <1>1, PreflightKeeps
<1>2. CASE StartThread
  BY <1>2, StartKeeps
<1>3. CASE Join
  BY <1>3, JoinKeeps
<1>4. CASE Report
  BY <1>4, ReportKeeps
<1>5. ASSUME NEW t \in Threads, ThreadStep(t) PROVE BenchInv'
  BY <1>5, ReadKeeps, AddKeeps DEF ThreadStep
<1>6. ASSUME NEW b \in Baselines, NEW allow \in BOOLEAN, Compare(b, allow) PROVE BenchInv'
  BY <1>6, CompareKeeps
<1>7. CASE UNCHANGED benchVars
  <2>1. BenchTypeOK' /\ Gathered' /\ Reported'
    BY <1>7, TypesKept, GatheredKept, ReportedKept DEF BenchInv, BenchTypeOK, benchVars, clientVars
  <2>2. InWaves' /\ OneOfEach'
    BY <1>7 DEF BenchInv, InWaves, OneOfEach, benchVars, clientVars
  <2> QED BY <2>1, <2>2 DEF BenchInv
<1> QED BY <1>1, <1>2, <1>3, <1>4, <1>5, <1>6, <1>7 DEF BenchNext, BenchStep, MainStep

THEOREM BenchInvariance == BenchSpec => []BenchInv
BY BenchInitially, BenchKept, PTL DEF BenchSpec

-----------------------------------------------------------------------------
(* What BenchInv says of the samples, the result and the comparisons.      *)

LEMMA InvMeasured == BenchInv => SamplesAreTheMeasured
<1> SUFFICES ASSUME BenchInv PROVE SamplesAreTheMeasured
  OBVIOUS
<1> USE DEF BenchInv
<1>1. main = "done" => Len(all) = Repeats * NPrompts
  <2>1. SUFFICES ASSUME main = "done" PROVE Len(all) = Repeats * NPrompts
    OBVIOUS
  <2>2. Measured = Repeats
    BY <2>1, ThreadsAre DEF InWaves, Measured
  <2>3. NPrompts * Repeats = Repeats * NPrompts
    BY ThreadsAre
  <2> QED BY <2>2, <2>3 DEF Gathered
<1>2. ASSUME NEW t \in Threads, main = "wave", at[t] \in InFlight
      PROVE  t[1] = wave
  <2>1. at[t] # "new" /\ at[t] # "over"
    BY <1>2 DEF InFlight, Returned
  <2>2. t # Probe
    BY <1>2, <2>1 DEF InWaves
  <2>3. PICK w \in Waves, i \in Prompts : t = <<w, i>>
    BY <2>2, ThreadsAre
  <2>4. w \in Nat /\ wave \in Nat
    <3>1. w \in Nat /\ Warmups \in Nat /\ Repeats \in Nat
      BY ThreadsAre
    <3> QED BY <3>1 DEF BenchTypeOK
  <2>5. w = wave
    BY <2>1, <2>3, <2>4 DEF InWaves
  <2> QED BY <2>3, <2>5
<1> QED BY <1>1, <1>2 DEF SamplesAreTheMeasured, Gathered, AtItsPlace

\* percentile() of no values is None, of some it is a number.
LEMMA NullOfNone ==
  ASSUME NEW values \in Seq(Nat), NEW p \in Percents
  PROVE  /\ Percentile(values, p) = Null <=> Len(values) = 0
         /\ values = <<>> <=> Len(values) = 0
<1>1. values = <<>> <=> Len(values) = 0
  OBVIOUS
<1>2. values = <<>> => Percentile(values, p) = Null
  BY DEF Percentile
<1>3. values # <<>> => Percentile(values, p) # Null
  <2>1. values # <<>> => Percentile(values, p) \in Nat
    BY PercentileIsNearest
  <2> QED BY <2>1 DEF Null
<1> QED BY <1>1, <1>2, <1>3

\* The rate of a run is None exactly when no wave counted a token.
LEMMA RateIs ==
  ASSUME NEW r \in Seq(Nat)
  PROVE  Summarize(Selected(r, {w \in DOMAIN r : r[w] # 0})).p50 = Null
           <=> ~ \E w \in 1..Len(r) : r[w] # 0
<1> DEFINE I == {w \in DOMAIN r : r[w] # 0}
<1>1. DOMAIN r = 1..Len(r) /\ Len(r) \in Nat
  OBVIOUS
<1>2. IsFiniteSet(1..Len(r))
  BY <1>1, FS_Interval
<1>3. I \subseteq 1..Len(r) /\ I \in SUBSET Nat /\ \A w \in I : r[w] \in Nat
  BY <1>1
<1>4. I = {} <=> ~ \E w \in 1..Len(r) : r[w] # 0
  BY <1>1
<1> HIDE DEF I
<1>5. IsFiniteSet(I) /\ (Cardinality(I) = 0 <=> I = {})
  BY <1>2, <1>3, FS_Subset, FS_EmptySet
<1>6. Selected(r, I) \in Seq(Nat) /\ Len(Selected(r, I)) = Cardinality(I)
  BY <1>3, <1>5, SelectedAre
<1>7. Summarize(Selected(r, I)).p50 = Percentile(Selected(r, I), 50)
  BY DEF Summarize
<1>8. Percentile(Selected(r, I), 50) = Null <=> Len(Selected(r, I)) = 0
  <2>1. 50 \in Percents
    BY DEF Percents
  <2> QED BY <1>6, <2>1, NullOfNone
<1> QED BY <1>4, <1>5, <1>6, <1>7, <1>8 DEF I

\* What main() reports of the samples it has.
LEMMA PayloadIs ==
  ASSUME BenchInv
  PROVE  /\ Payload.ok \in Nat /\ Payload.failed = Len(all) - Payload.ok
         /\ Payload.latency.n = Payload.ok
         /\ Payload.ok = 0 => Payload.latency.p50 = Null /\ Payload.latency.p95 = Null
         /\ Payload.ok # 0 => /\ Payload.latency.p50 # Null
                              /\ IsNearestRank(Payload.latency.p50, Totals(all), 50)
                              /\ IsNearestRank(Payload.latency.p95, Totals(all), 95)
         /\ Payload.ok # 0 => \E k \in 1..Len(all) : all[k].status = "ok"
         /\ Payload.tokens = Null <=> \A k \in 1..Len(all) : all[k].tokens = Null
         /\ Payload.rate.p50 = Null <=> \A k \in 1..Len(all) : all[k].tokens = Null
         /\ Payload.model = setup.model /\ Payload.workload = setup.workload
<1> USE DEF BenchInv
<1>1. AllSound(all) /\ rates \in Seq(Nat)
  BY DEF BenchTypeOK
<1>2. /\ Payload.ok = Len(Ok(all)) /\ Payload.failed = Len(all) - Len(Ok(all))
      /\ Payload.latency = Summarize(Totals(all))
      /\ Payload.rate = Summarize(Selected(rates, {w \in DOMAIN rates : rates[w] # 0}))
      /\ Payload.tokens = IF Tokens(Ok(all)) = 0 THEN Null ELSE Tokens(Ok(all))
      /\ Payload.model = setup.model /\ Payload.workload = setup.workload
  BY DEF Payload
<1>3. Totals(all) \in Seq(Nat) /\ Len(Totals(all)) = Len(Ok(all)) /\ Len(Ok(all)) \in Nat
  BY <1>1, TotalsAre, OkAre
<1>4. /\ Payload.latency.n = Len(Totals(all))
      /\ Payload.latency.p50 = Percentile(Totals(all), 50)
      /\ Payload.latency.p95 = Percentile(Totals(all), 95)
  BY <1>2 DEF Summarize
<1>5. Payload.ok = 0 => Payload.latency.p50 = Null /\ Payload.latency.p95 = Null
  <2>1. 50 \in Percents /\ 95 \in Percents
    BY DEF Percents
  <2> QED BY <1>2, <1>3, <1>4, <2>1, NullOfNone
<1>6. ASSUME Payload.ok # 0
      PROVE  /\ Payload.latency.p50 # Null
             /\ IsNearestRank(Payload.latency.p50, Totals(all), 50)
             /\ IsNearestRank(Payload.latency.p95, Totals(all), 95)
  <2>1. 50 \in Percents /\ 95 \in Percents
    BY DEF Percents
  <2>2. Totals(all) # <<>>
    BY <1>2, <1>3, <1>6, <2>1, NullOfNone
  <2> QED BY <1>3, <1>4, <2>1, <2>2, PercentileIsNearest DEF Null
<1>7. ASSUME Payload.ok # 0 PROVE \E k \in 1..Len(all) : all[k].status = "ok"
  <2>1. 1 \in 1..Len(Ok(all))
    BY <1>2, <1>3, <1>7
  <2> QED BY <1>1, <2>1, OkAre
<1>8. Payload.tokens = Null <=> \A k \in 1..Len(all) : all[k].tokens = Null
  BY <1>1, <1>2, OkTokens DEF Null
<1>9. Payload.rate.p50 = Null <=> \A k \in 1..Len(all) : all[k].tokens = Null
  BY <1>1, <1>2, RateIs DEF Gathered
<1> QED BY <1>2, <1>3, <1>4, <1>5, <1>6, <1>7, <1>8, <1>9

LEMMA InvAddsUp == BenchInv => ResultAddsUp
<1> SUFFICES ASSUME BenchInv, NEW r \in result
             PROVE  /\ r.ok + r.failed = Repeats * NPrompts
                    /\ r.latency.n = r.ok
                    /\ IF r.ok = 0 THEN r.latency.p50 = Null /\ r.latency.p95 = Null
                       ELSE /\ IsNearestRank(r.latency.p50, Totals(all), 50)
                            /\ IsNearestRank(r.latency.p95, Totals(all), 95)
                    /\ r.tokens = Null <=> r.rate.p50 = Null
                    /\ r.tokens = Null <=> \A k \in 1..Len(all) : all[k].tokens = Null
  BY DEF ResultAddsUp
<1>1. r = Payload /\ main = "done"
  BY DEF BenchInv, Reported
<1>2. Len(all) = Repeats * NPrompts /\ Len(all) \in Nat
  BY <1>1, InvMeasured DEF SamplesAreTheMeasured, BenchInv, BenchTypeOK, AllSound
<1>3. r.ok + r.failed = Len(all)
  BY <1>1, <1>2, PayloadIs
<1> QED BY <1>1, <1>2, <1>3, PayloadIs

LEMMA InvGrounded == BenchInv => ComparisonIsGrounded
<1> SUFFICES ASSUME BenchInv, NEW c \in compared
             PROVE  /\ c.rows.latency => /\ \E k \in 1..Len(all) : all[k].status = "ok"
                                         /\ c.baseline.latency.n > 0
                    /\ c.rows.rate => \E k \in 1..Len(all) : all[k].tokens # Null
                    /\ c.mismatches = {} =>
                         /\ c.baseline.workload = setup.workload
                         /\ setup.mode = "vllm" => c.baseline.model = setup.served
  BY DEF ComparisonIsGrounded
<1>1. /\ main = "done" /\ c.baseline \in Baselines
      /\ c.mismatches = Mismatches(c.baseline, Payload)
      /\ c.rows = Rows(c.baseline, Payload)
      /\ setup.mode = "vllm" => setup.model = setup.served
  BY DEF BenchInv, Reported
<1>2. /\ c.rows.latency => Payload.latency.p50 # Null /\ c.baseline.latency.p50 # Null
      /\ c.rows.rate => Payload.rate.p50 # Null
  <2>1. /\ c.rows.latency = Comparable(Payload.latency.p50, c.baseline.latency.p50)
        /\ c.rows.rate = Comparable(Payload.rate.p50, c.baseline.rate.p50)
    BY <1>1 DEF Rows
  <2> QED BY <2>1 DEF Comparable
<1>3. c.baseline.latency.n \in Nat /\ (c.baseline.latency.n = 0 => c.baseline.latency.p50 = Null)
  BY <1>1, BaselinesAssumption
<1>4. c.mismatches = {} => /\ c.baseline["workload"] = Payload["workload"]
                           /\ c.baseline["model"] = Payload["model"]
  BY <1>1 DEF Mismatches
<1>5. c.rows.latency => \E k \in 1..Len(all) : all[k].status = "ok"
  BY <1>2, PayloadIs
<1>6. c.rows.latency => c.baseline.latency.n > 0
  BY <1>2, <1>3
<1>7. c.rows.rate => \E k \in 1..Len(all) : all[k].tokens # Null
  BY <1>2, PayloadIs
<1> QED BY <1>1, <1>4, <1>5, <1>6, <1>7, PayloadIs

-----------------------------------------------------------------------------
(* The load generator.                                                     *)

USE ConcurrencyAssumption, RequestsAssumption

Counted == {t \in Threads : at[t] \in {"recorded", "over"}}

Settled ==
  /\ ok + failed = Cardinality(Counted)
  /\ loop = "exited" => Over = Threads
  /\ loop # "exited" => exit = {}
  /\ exit = {0} => failed = 0

LoadInv == LoadTypeOK /\ PermitsAreConserved /\ Settled

LEMMA Finite ==
  /\ IsFiniteSet(Holders) /\ Cardinality(Holders) \in Nat
  /\ IsFiniteSet(Counted) /\ Cardinality(Counted) \in Nat
BY FS_Subset, FS_CardinalityType DEF Holders, Counted

LEMMA LoadInitially == LoadInit => LoadInv
<1> SUFFICES ASSUME LoadInit PROVE LoadInv
  OBVIOUS
<1>1. Holders = {} /\ Counted = {}
  BY DEF LoadInit, ClientInit, Holders, Counted, InFlight, Returned
<1> QED BY <1>1, FS_EmptySet DEF LoadInit, ClientInit, LoadInv, LoadTypeOK, Places,
           PermitsAreConserved, Settled

LEMMA LoadStep == LoadInv /\ [LoadNext]_loadVars => LoadInv'
<1> SUFFICES ASSUME LoadInv, [LoadNext]_loadVars PROVE LoadInv'
  OBVIOUS
<1> USE DEF LoadInv
<1>0. /\ permits + Cardinality(Holders) = Concurrency
      /\ permits \in Nat /\ ok \in Nat /\ failed \in Nat
      /\ at \in [Threads -> Places]
  BY DEF LoadTypeOK, PermitsAreConserved
<1>1. CASE Start
  <2>1. PICK t \in Threads : at[t] = "new" /\ at' = [at EXCEPT ![t] = "sent"]
    BY <1>1 DEF Start, New, Send, MoveTo
  <2>2. /\ loop = "starting" /\ permits > 0 /\ permits' = permits - 1
        /\ UNCHANGED <<loop, ok, failed, exit>>
    BY <1>1 DEF Start, countVars
  <2>3. at' \in [Threads -> Places]
    BY <1>0, <2>1 DEF Places, InFlight
  <2>4. Holders' = Holders \cup {t} /\ t \notin Holders
    BY <1>0, <2>1 DEF Holders, InFlight, Returned
  <2>5. Counted' = Counted
    BY <1>0, <2>1 DEF Counted
  <2>6. Cardinality(Holders') = Cardinality(Holders) + 1
    BY <2>4, Finite, FS_AddElement
  <2>7. permits' \in 0..Concurrency
    BY <1>0, <2>2 DEF LoadTypeOK
  <2> QED BY <1>0, <2>2, <2>3, <2>5, <2>6, <2>7, Finite
          DEF LoadTypeOK, PermitsAreConserved, Settled
<1>2. CASE AllStarted
  <2>1. Holders' = Holders /\ Counted' = Counted
    BY <1>2 DEF AllStarted, clientVars, Holders, Counted
  <2> QED BY <1>2, <2>1 DEF AllStarted, clientVars, countVars, LoadTypeOK,
             PermitsAreConserved, Settled
<1>3. CASE Exit
  <2>1. Holders' = Holders /\ Counted' = Counted /\ Over' = Threads
    BY <1>3 DEF Exit, clientVars, Holders, Counted, Over
  <2> QED BY <1>0, <1>3, <2>1 DEF Exit, clientVars, countVars, LoadTypeOK,
             PermitsAreConserved, Settled
<1>4. ASSUME NEW t \in Threads, LoadThread(t) PROVE LoadInv'
  <2>1. CASE ClientStep(t) /\ UNCHANGED <<loop, permits, countVars, exit>>
    <3>1. at' = at \/ \E p \in InFlight : at[t] \in InFlight /\ at' = [at EXCEPT ![t] = p]
      BY <1>0, <2>1 DEF ClientStep, HttpError, Headers, DataChunk, ErrorEvent, DoneLine,
         BodyEnds, Breaks, Reads, MoveTo, InFlight, Returned
    <3>2. Holders' = Holders /\ Counted' = Counted
      BY <1>0, <3>1 DEF Holders, Counted, InFlight, Returned, Places
    <3>3. loop = "exited" => Over' = Threads
      BY <1>0, <3>1 DEF Settled, Over, InFlight, Returned
    <3>4. at' \in [Threads -> Places]
      BY <1>0, <3>1 DEF Places
    <3> QED BY <1>0, <2>1, <3>2, <3>3, <3>4 DEF countVars, LoadTypeOK,
               PermitsAreConserved, Settled
  <2>2. CASE Record(t)
    <3>1. /\ at[t] \in Returned /\ at' = [at EXCEPT ![t] = "recorded"]
          /\ UNCHANGED <<loop, permits, exit>>
          /\ ok' \in Nat /\ failed' \in Nat /\ ok' + failed' = ok + failed + 1
      BY <1>0, <2>2 DEF Record, MoveTo
    <3>2. at' \in [Threads -> Places]
      BY <1>0, <3>1 DEF Places
    <3>3. Holders' = Holders
      BY <1>0, <3>1 DEF Holders, InFlight, Returned
    <3>4. Counted' = Counted \cup {t} /\ t \notin Counted
      BY <1>0, <3>1 DEF Counted, Returned
    <3>5. Cardinality(Counted') = Cardinality(Counted) + 1
      BY <3>4, Finite, FS_AddElement
    <3>6. loop # "exited"
      BY <3>1 DEF Settled, Over, Returned
    <3> QED BY <1>0, <3>1, <3>2, <3>3, <3>5, <3>6, Finite
            DEF LoadTypeOK, PermitsAreConserved, Settled
  <2>3. CASE Release(t)
    <3>1. /\ at[t] = "recorded" /\ at' = [at EXCEPT ![t] = "over"]
          /\ permits' = permits + 1 /\ UNCHANGED <<loop, ok, failed, exit>>
      BY <2>3 DEF Release, MoveTo, countVars
    <3>2. at' \in [Threads -> Places]
      BY <1>0, <3>1 DEF Places
    <3>3. Holders' = Holders \ {t} /\ t \in Holders
      BY <1>0, <3>1 DEF Holders, InFlight, Returned
    <3>4. Counted' = Counted
      BY <1>0, <3>1 DEF Counted
    <3>5. /\ Cardinality(Holders') = Cardinality(Holders) - 1
          /\ Cardinality(Holders') \in Nat
      BY <3>3, Finite, FS_RemoveElement, FS_CardinalityType
    <3>6. permits' \in 0..Concurrency
      BY <1>0, <3>1, <3>5, Finite
    <3>7. loop # "exited"
      BY <3>1 DEF Settled, Over
    <3> QED BY <1>0, <3>1, <3>2, <3>4, <3>5, <3>6, <3>7, Finite
            DEF LoadTypeOK, PermitsAreConserved, Settled
  <2> QED BY <1>4, <2>1, <2>2, <2>3 DEF LoadThread
<1>5. CASE UNCHANGED loadVars
  <2>1. Holders' = Holders /\ Counted' = Counted /\ Over' = Over
    BY <1>5 DEF loadVars, clientVars, Holders, Counted, Over
  <2> QED BY <1>5, <2>1 DEF loadVars, clientVars, countVars, LoadTypeOK,
             PermitsAreConserved, Settled
<1> QED BY <1>1, <1>2, <1>3, <1>4, <1>5 DEF LoadNext, LoadMain

LEMMA InvConserved == LoadInv => PermitsAreConserved
BY DEF LoadInv

LEMMA InvCountsOnce == LoadInv => EachCountsOnce
<1> SUFFICES ASSUME LoadInv PROVE EachCountsOnce
  OBVIOUS
<1>1. loop = "exited" => Counted = Threads
  BY DEF LoadInv, Settled, Over, Counted
<1>2. ok \in Nat /\ failed \in Nat /\ ok + failed = Cardinality(Counted)
  BY DEF LoadInv, LoadTypeOK, Settled
<1>3. exit = {0} => loop = "exited" /\ failed = 0
  BY DEF LoadInv, Settled
<1> QED BY <1>1, <1>2, <1>3 DEF EachCountsOnce, Counted

\* Permits are neither lost nor made, however the threads end: no more than
\* Concurrency requests are ever under way.
THEOREM PermitsConserved == LoadSpec => []PermitsAreConserved
BY InvConserved, LoadInitially, LoadStep, PTL DEF LoadSpec

\* Each request is counted once, and the load generator exits with 0 only when
\* all of them were ok.
THEOREM CountedOnce == LoadSpec => []EachCountsOnce
BY InvCountsOnce, LoadInitially, LoadStep, PTL DEF LoadSpec

-----------------------------------------------------------------------------
(* The two tools: a behaviour of one leaves the other as it began.         *)

Untouched == main = "preflight" /\ all = <<>> /\ result = {} /\ compared = {}

ToolInv == /\ tool = "bench" => BenchInv
           /\ tool = "load" => LoadInv
           /\ tool # "bench" => Untouched

LEMMA ToolInvariance == ToolSpec => []ToolInv
<1>1. ToolInit => ToolInv
  BY BenchInitially, LoadInitially DEF ToolInit, ToolInv, BenchInit, Untouched
<1>2. ToolInv /\ [ToolNext]_toolVars => ToolInv'
  <2> SUFFICES ASSUME ToolInv, [ToolNext]_toolVars PROVE ToolInv'
    OBVIOUS
  <2>1. CASE BenchRuns(BenchNext)
    BY <2>1, BenchKept DEF BenchRuns, ToolInv
  <2>2. CASE LoadRuns(LoadNext)
    BY <2>2, LoadStep DEF LoadRuns, ToolInv, Untouched
  <2>3. CASE UNCHANGED toolVars
    <3>1. UNCHANGED benchVars /\ UNCHANGED loadVars /\ tool' = tool
      BY <2>3 DEF toolVars, benchVars, loadVars
    <3>2. Untouched => Untouched'
      BY <3>1 DEF benchVars, Untouched
    <3> QED BY <3>1, <3>2, BenchKept, LoadStep DEF ToolInv
  <2> QED BY <2>1, <2>2, <2>3 DEF ToolNext, Terminating
<1> QED BY <1>1, <1>2, PTL DEF ToolSpec

\* For any workload, number of waves and server, and in whatever order the
\* threads end, the samples are the measured requests, each at the place of its
\* wave and prompt, and no thread of another wave runs while one is measured.
THEOREM SamplesMeasured == ToolSpec => []SamplesAreTheMeasured
<1>1. ToolInv => SamplesAreTheMeasured
  BY InvMeasured DEF ToolInv, Untouched, SamplesAreTheMeasured
<1> QED BY <1>1, ToolInvariance, PTL

\* A result adds up: requests, percentiles and tokens are those of the samples.
THEOREM ResultSums == ToolSpec => []ResultAddsUp
<1>1. ToolInv => ResultAddsUp
  BY InvAddsUp DEF ToolInv, Untouched, ResultAddsUp
<1> QED BY <1>1, ToolInvariance, PTL

\* A number in a comparison rests on samples of both runs, for any baselines.
THEOREM ComparisonGrounded == ToolSpec => []ComparisonIsGrounded
<1>1. ToolInv => ComparisonIsGrounded
  BY InvGrounded DEF ToolInv, Untouched, ComparisonIsGrounded
<1> QED BY <1>1, ToolInvariance, PTL

\* Both of the load generator's invariants, as the tool is run.
THEOREM LoadKept == ToolSpec => []LoadIsKept
<1>1. ToolInv => LoadIsKept
  BY InvConserved, InvCountsOnce DEF ToolInv, LoadIsKept
<1> QED BY <1>1, ToolInvariance, PTL
=============================================================================
