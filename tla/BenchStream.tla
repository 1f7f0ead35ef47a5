----------------------------- MODULE BenchStream ----------------------------
(***************************************************************************)
(* bench/bench_stream.py: a preflight with one probe request, waves that   *)
(* warm up, waves that are measured, each all prompts at once (run_wave),  *)
(* and one result file; then bench/compare.py against baselines measured   *)
(* elsewhere (the Hugging Face baseline, another run).                     *)
(***************************************************************************)
EXTENDS StreamClient, BenchStats

CONSTANTS NPrompts, Warmups, Repeats,
          Setups,      \* the command lines, and the servers they are used on
          Baselines,   \* result files of other runs
          MaxCompares  \* bound on comparisons

Prompts  == 1..NPrompts
Waves    == 1..(Warmups + Repeats)
Probe    == <<0, 1>>

ASSUME ThreadsAssumption ==
  /\ NPrompts \in Nat \ {0} /\ Warmups \in Nat /\ Repeats \in Nat
  /\ Threads = {Probe} \cup (Waves \X Prompts)

\* summarize() gives a percentile only of what there is.
ASSUME BaselinesAssumption ==
  \A b \in Baselines : b.latency.n \in Nat /\ (b.latency.n = 0 => b.latency.p50 = Null)

VARIABLES
  setup,     \* mode, api key, --model, --allow-untokenised; the served model
  main, wave, started,
  collected, \* Collector.samples of the wave
  all,       \* all_samples
  rates,     \* the tokens of each measured wave
  result,    \* the payload of the result file, once there is one
  compared   \* the comparisons written

benchVars == <<clientVars, setup, main, wave, started, collected, all, rates,
               result, compared>>

BenchInit ==
  /\ ClientInit
  /\ setup \in Setups
  /\ main = "preflight" /\ wave = 0 /\ started = 0
  /\ collected = <<>> /\ all = <<>> /\ rates = <<>>
  /\ result = {} /\ compared = {}

\* A failed sample keeps its defaults; no tokens are None.
Sample(t) ==
  IF at[t] = "failed"
  THEN [wave |-> t[1], prompt |-> t[2], status |-> "failed", tokens |-> Null,
        total |-> Null]
  ELSE [wave |-> t[1], prompt |-> t[2], status |-> "ok",
        tokens |-> IF got[t].tokens = 0 THEN Null ELSE got[t].tokens,
        total |-> got[t].total]

Ok(samples)     == Selected(samples, {i \in DOMAIN samples : samples[i].status = "ok"})
Totals(samples) == [i \in DOMAIN Ok(samples) |-> Ok(samples)[i].total]

Tokens(samples) ==
  LET sum[n \in 0..Len(samples)] ==
        IF n = 0 THEN 0
        ELSE sum[n - 1] + IF samples[n].tokens = Null THEN 0 ELSE samples[n].tokens
  IN  sum[Len(samples)]

-----------------------------------------------------------------------------
(* preflight().                                                            *)

Refuse ==
  /\ main' = "refused"
  /\ UNCHANGED <<clientVars, setup, wave, started, collected, all, rates, result,
                 compared>>

\* No API key for the gateway; vLLM cannot be reached, or serves another model.
RefuseSetup ==
  /\ main = "preflight"
  /\ \/ setup.mode = "gateway" /\ ~ setup.key
     \/ setup.mode = "vllm"
  /\ Refuse

StartProbe ==
  /\ main = "preflight"
  /\ setup.mode = "gateway" => setup.key
  /\ setup.mode = "vllm" => setup.model = setup.served
  /\ Send(Probe) /\ main' = "probe"
  /\ UNCHANGED <<setup, wave, started, collected, all, rates, result, compared>>

Countable == got[Probe].tokens > 0 \/ setup.allow

RefuseProbe ==
  /\ main = "probe" /\ at[Probe] \in Returned
  /\ at[Probe] = "ok" => ~ Countable
  /\ Refuse

Measure ==
  /\ main = "probe" /\ at[Probe] = "ok" /\ Countable
  /\ at' = [at EXCEPT ![Probe] = "over"] /\ got' = [got EXCEPT ![Probe] = Nothing]
  /\ main' = "wave" /\ wave' = 1
  /\ UNCHANGED <<setup, started, collected, all, rates, result, compared>>

-----------------------------------------------------------------------------
(* run_wave().                                                             *)

StartThread ==
  /\ main = "wave" /\ wave \in Waves /\ started < NPrompts
  /\ Send(<<wave, started + 1>>)
  /\ started' = started + 1
  /\ UNCHANGED <<setup, main, wave, collected, all, rates, result, compared>>

\* The worker: collector.add(one_request(...)).
Add(t) ==
  /\ t[1] \in Waves /\ at[t] \in Returned
  /\ collected' = Append(collected, Sample(t))
  /\ at' = [at EXCEPT ![t] = "over"] /\ got' = [got EXCEPT ![t] = Nothing]
  /\ UNCHANGED <<setup, main, wave, started, all, rates, result, compared>>

InOrder(samples) ==
  LET order == Listed(DOMAIN samples, [i \in DOMAIN samples |-> samples[i].prompt])
  IN  [k \in DOMAIN samples |-> samples[order[k]]]

\* Mutant: the last thread is not waited for.
Joined_AllButOne == \A i \in 1..(NPrompts - 1) : at[<<wave, i>>] = "over"

Joined == \A i \in Prompts : at[<<wave, i>>] = "over"

\* Every thread has been joined; a wave that warms up is discarded.
Join ==
  /\ main = "wave" /\ wave \in Waves /\ started = NPrompts
  /\ Joined
  /\ IF wave <= Warmups
     THEN UNCHANGED <<all, rates>>
     ELSE /\ all' = all \o InOrder(collected)
          /\ rates' = Append(rates, Tokens(Ok(collected)))
  /\ wave' = wave + 1 /\ started' = 0 /\ collected' = <<>>
  /\ UNCHANGED <<clientVars, setup, main, result, compared>>

Payload ==
  [model    |-> setup.model,
   workload |-> setup.workload,
   requests |-> Len(all), ok |-> Len(Ok(all)), failed |-> Len(all) - Len(Ok(all)),
   latency  |-> Summarize(Totals(all)),
   rate     |-> Summarize(Selected(rates, {w \in DOMAIN rates : rates[w] # 0})),
   tokens   |-> IF Tokens(Ok(all)) = 0 THEN Null ELSE Tokens(Ok(all))]

Report ==
  /\ main = "wave" /\ wave \notin Waves
  /\ result' = {Payload}
  /\ main' = "done"
  /\ UNCHANGED <<clientVars, setup, wave, started, collected, all, rates, compared>>

\* compare.py: refuses a mismatch, unless told not to, and then records it.
Compare(baseline, allow) ==
  /\ main = "done" /\ Cardinality(compared) < MaxCompares
  /\ \E candidate \in result :
       /\ Mismatches(baseline, candidate) = {} \/ allow
       /\ compared' = compared \cup
            {[baseline   |-> baseline,
              mismatches |-> Mismatches(baseline, candidate),
              rows       |-> Rows(baseline, candidate)]}
  /\ UNCHANGED <<clientVars, setup, main, wave, started, collected, all, rates, result>>

MainStep ==
  \/ RefuseSetup \/ StartProbe \/ RefuseProbe \/ Measure
  \/ StartThread \/ Join \/ Report

ThreadStep(t) ==
  \/ ClientStep(t) /\ UNCHANGED <<setup, main, wave, started, collected, all, rates,
                                  result, compared>>
  \/ Add(t)

BenchStep == MainStep \/ \E t \in Threads : ThreadStep(t)

BenchNext == BenchStep \/ \E b \in Baselines, allow \in BOOLEAN : Compare(b, allow)

BenchSpec == BenchInit /\ [][BenchNext]_benchVars

-----------------------------------------------------------------------------
(* Properties.                                                             *)

\* Whatever order the threads end in, the samples are the measured requests,
\* each once, at the place of its wave and prompt; nothing of the probe, the
\* warm-up or a straggler is among them, and none of those still runs (and
\* loads the server) while a wave is measured.
SamplesAreTheMeasured ==
  /\ \A k \in 1..Len(all) : /\ all[k].wave = Warmups + ((k - 1) \div NPrompts) + 1
                            /\ all[k].prompt = ((k - 1) % NPrompts) + 1
  /\ main = "done" => Len(all) = Repeats * NPrompts
  /\ \A t \in Threads : main = "wave" /\ at[t] \in InFlight => t[1] = wave

\* A result adds up: every request is ok or failed, each percentile is the
\* nearest rank among the ok requests' times, and no throughput is reported
\* for a run in which no token was counted ("records token counts as null
\* rather than guessing").
ResultAddsUp ==
  \A r \in result :
    /\ r.ok + r.failed = Repeats * NPrompts
    /\ r.latency.n = r.ok
    /\ IF r.ok = 0 THEN r.latency.p50 = Null /\ r.latency.p95 = Null
       ELSE /\ IsNearestRank(r.latency.p50, Totals(all), 50)
            /\ IsNearestRank(r.latency.p95, Totals(all), 95)
    /\ r.tokens = Null <=> r.rate.p50 = Null
    /\ r.tokens = Null <=> \A k \in 1..Len(all) : all[k].tokens = Null

\* A number in a comparison rests on samples of both runs: no ratio comes of a
\* run in which everything failed or no token was counted.  Where no mismatch is
\* on record, both ran the same workload, and of a run that measured vLLM itself
\* the model is the one that was served (of the gateway nobody can tell).
ComparisonIsGrounded ==
  \A c \in compared :
    /\ c.rows.latency => (\E k \in 1..Len(all) : all[k].status = "ok")
                         /\ c.baseline.latency.n > 0
    /\ c.rows.rate => \E k \in 1..Len(all) : all[k].tokens # Null
    /\ c.mismatches = {} =>
         /\ c.baseline.workload = setup.workload
         /\ setup.mode = "vllm" => c.baseline.model = setup.served
=============================================================================
