------------------------------ MODULE LoadTest ------------------------------
(***************************************************************************)
(* scripts/loadtest.py: main() starts one thread per request, as many at a *)
(* time as its semaphore lets it; each thread records how its request      *)
(* ended and gives its permit back.                                        *)
(***************************************************************************)
EXTENDS StreamClient, FiniteSets

CONSTANT Concurrency

ASSUME ConcurrencyAssumption == Concurrency \in Nat \ {0}
ASSUME RequestsAssumption == IsFiniteSet(Threads)

VARIABLES
  loop,        \* main(): "starting", "joining" or "exited"
  permits,     \* the semaphore
  ok, failed,  \* the counters of Results
  exit         \* the exit code, once there is one

countVars == <<ok, failed>>
loadVars  == <<clientVars, loop, permits, countVars, exit>>

LoadInit ==
  /\ ClientInit
  /\ loop = "starting" /\ permits = Concurrency
  /\ ok = 0 /\ failed = 0
  /\ exit = {}

New  == {t \in Threads : at[t] = "new"}
Over == {t \in Threads : at[t] = "over"}

\* remaining.acquire() and thread.start(); requests are all alike.
Start ==
  /\ loop = "starting" /\ New # {} /\ permits > 0
  /\ Send(CHOOSE t \in New : TRUE)
  /\ permits' = permits - 1
  /\ UNCHANGED <<loop, countVars, exit>>

AllStarted ==
  /\ loop = "starting" /\ New = {}
  /\ loop' = "joining"
  /\ UNCHANGED <<clientVars, permits, countVars, exit>>

\* record_ok() and record_failure().
Record(t) ==
  /\ at[t] \in Returned
  /\ IF at[t] = "ok" THEN ok' = ok + 1 /\ UNCHANGED failed
                     ELSE failed' = failed + 1 /\ UNCHANGED ok
  /\ MoveTo(t, "recorded") /\ got' = [got EXCEPT ![t] = Nothing]
  /\ UNCHANGED <<loop, permits, exit>>

\* Mutant: the permit comes back before the request is over, from a callback
\* on its first byte.
Release_Early(t) ==
  /\ at[t] \in {"reading", "recorded"}
  /\ permits' = permits + 1
  /\ IF at[t] = "recorded" THEN MoveTo(t, "over") ELSE UNCHANGED at
  /\ UNCHANGED <<got, loop, countVars, exit>>

\* finally: remaining.release()
Release(t) ==
  /\ at[t] = "recorded"
  /\ permits' = permits + 1
  /\ MoveTo(t, "over")
  /\ UNCHANGED <<got, loop, countVars, exit>>

\* Every thread has been joined.
Exit ==
  /\ loop = "joining" /\ Over = Threads
  /\ loop' = "exited"
  /\ exit' = {IF failed = 0 THEN 0 ELSE 1}
  /\ UNCHANGED <<clientVars, permits, countVars>>

LoadMain == Start \/ AllStarted \/ Exit

LoadThread(t) ==
  \/ ClientStep(t) /\ UNCHANGED <<loop, permits, countVars, exit>>
  \/ Record(t) \/ Release(t)

LoadNext == LoadMain \/ \E t \in Threads : LoadThread(t)

LoadSpec == LoadInit /\ [][LoadNext]_loadVars

-----------------------------------------------------------------------------
(* Properties.                                                             *)

LoadTypeOK ==
  /\ at \in [Threads -> Places]
  /\ loop \in {"starting", "joining", "exited"}
  /\ permits \in 0..Concurrency
  /\ ok \in Nat /\ failed \in Nat

Holders == {t \in Threads : at[t] \in InFlight \cup {"recorded"}}

\* The load is what --concurrency says: permits are neither lost nor made, so
\* never more requests are under way, and while some are left to send main()
\* waits only when that many are.
PermitsAreConserved == permits + Cardinality(Holders) = Concurrency

\* Every request is counted once, as ok or as failed, by whichever thread ends
\* when, and the exit code is 0 only if all were ok.
EachCountsOnce ==
  /\ ok + failed = Cardinality({t \in Threads : at[t] \in {"recorded", "over"}})
  /\ loop = "exited" => ok + failed = Cardinality(Threads)
  /\ exit = {0} => ok = Cardinality(Threads)
=============================================================================
