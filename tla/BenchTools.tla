----------------------------- MODULE BenchTools -----------------------------
(***************************************************************************)
(* The two load tools, of which an operator runs one: the benchmark or the *)
(* load generator.  They share the code of one request (StreamClient).     *)
(***************************************************************************)
EXTENDS BenchStream, LoadTest

VARIABLE tool

toolVars == <<benchVars, loop, permits, countVars, exit, tool>>

ToolInit ==
  /\ BenchInit /\ LoadInit
  /\ tool \in {"bench", "load"}
  /\ tool = "load" => setup = CHOOSE s \in Setups : TRUE

BenchRuns(A) ==
  tool = "bench" /\ A /\ UNCHANGED <<loop, permits, countVars, exit, tool>>

LoadRuns(A) ==
  tool = "load" /\ A /\ UNCHANGED <<setup, main, wave, started, collected, all, rates,
                                    result, compared, tool>>

\* A tool that has ended stays so; one that can do nothing else is a deadlock.
Terminating ==
  /\ tool = "bench" => main \in {"done", "refused"}
  /\ tool = "load"  => loop = "exited"
  /\ UNCHANGED toolVars

ToolNext == BenchRuns(BenchNext) \/ LoadRuns(LoadNext) \/ Terminating

ToolSpec == ToolInit /\ [][ToolNext]_toolVars

\* The load generator keeps the load it was told to and counts each request
\* once (PermitsAreConserved, EachCountsOnce).
LoadIsKept == tool = "load" => PermitsAreConserved /\ EachCountsOnce
=============================================================================
