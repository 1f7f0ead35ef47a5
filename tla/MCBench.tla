------------------------------ MODULE MCBench -------------------------------
(***************************************************************************)
(* A benchmark run, of the waves and prompts of the configuration, or a    *)
(* load test of as many requests.                                          *)
(***************************************************************************)
EXTENDS BenchTools

MCThreads == {Probe} \cup (Waves \X Prompts)

Setup(mode, key, model, allow) ==
  [mode |-> mode, key |-> key, model |-> model, allow |-> allow,
   served |-> "qwen", workload |-> "w1"]

\* Both modes, a forgotten key, a --model that is not the one being served.
MCSetups == {Setup("gateway", TRUE, "other", TRUE), Setup("gateway", FALSE, "qwen", TRUE),
             Setup("vllm", FALSE, "qwen", FALSE), Setup("vllm", FALSE, "other", TRUE)}

Baseline(workload, model, tokens, totals) ==
  [workload |-> workload, model |-> model,
   rate |-> Summarize(tokens), latency |-> Summarize(totals)]

MCBaselines == {Baseline("w1", "qwen", <<2, 2>>, <<1, 2>>),
                Baseline("w2", "qwen", <<2>>, <<1>>),
                Baseline("w1", "other", <<>>, <<>>)}
=============================================================================
