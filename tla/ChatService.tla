----------------------------- MODULE ChatService ----------------------------
(***************************************************************************)
(* The api process: requests (ChatRequest, which ChatProxy implements) and *)
(* the trace writer (TraceStore) on one event loop, in uvicorn's care.     *)
(*                                                                         *)
(* lifespan() starts the writer before the server accepts a request and    *)
(* closes it after the last one is over: uvicorn, told to stop, refuses    *)
(* new requests, waits for those under way, then ends the lifespan.  A     *)
(* killed process takes its requests with it.  A trace is named by its     *)
(* request; the step in which body() ends is the one in which submit()     *)
(* runs, for there is no await between them.                               *)
(***************************************************************************)
EXTENDS ChatRequest, Integers, Sequences, FiniteSets

CONSTANTS NoTrace, QueueSize, MaxRestarts

VARIABLES
  server,       \* uvicorn: "up" or "draining"
  dsn, phase, pool, worker, queue, held, depth, metric, committing, rows,
  restarts, calls, interrupted, fate      \* the trace writer's

storeVars == <<dsn, phase, pool, worker, queue, held, depth, metric, committing,
               rows, restarts, calls, interrupted, fate>>

serviceVars == <<req, server, storeVars>>

Store == INSTANCE TraceStore WITH Traces <- Requests

ServiceInit == RequestInit /\ Store!Init /\ server = "up"

UnderWay(r) == req[r] \in {"active", "drained"}
Idle        == \A r \in Requests : ~ UnderWay(r)

-----------------------------------------------------------------------------
\* A new request needs a server that accepts, which it does once the
\* lifespan's start() has returned.
Arrive(r) ==
  /\ server = "up" /\ phase = "serving"
  /\ Turn(r) \/ Begin(r)
  /\ UNCHANGED <<server, storeVars>>

\* Mutant: the submission is in a finally block.
Progress_Submits(r) ==
  /\ \/ Drain(r) /\ UNCHANGED storeVars
     \/ GiveUp(r) /\ Store!Submit(r)
  /\ UNCHANGED server

Progress(r) ==
  /\ Drain(r) \/ GiveUp(r)
  /\ UNCHANGED <<server, storeVars>>

\* Mutant: submit() waits for a slot (await queue.put()).
EndBody_Waits(r) ==
  /\ Answer(r)
  /\ worker # "none" => Len(queue) < QueueSize
  /\ Store!Submit(r)
  /\ UNCHANGED server

\* body() is exhausted and submits the trace.
EndBody(r) ==
  /\ Answer(r)
  /\ Store!Submit(r)
  /\ UNCHANGED server

\* The writer's own steps, start() among them.
StoreStep ==
  /\ \/ Store!Start \/ Store!OpenSucceeds \/ Store!OpenFails
     \/ Store!Get \/ Store!SendCommit \/ Store!WriteEnds
     \/ \E r \in Requests : Store!ServerCommits(r)
     \/ Store!CancelIdle \/ Store!CancelWrite \/ Store!Reap \/ Store!PoolCloses
  /\ UNCHANGED <<req, server>>

Sigterm ==
  /\ server = "up" /\ phase = "serving"
  /\ server' = "draining"
  /\ UNCHANGED <<req, storeVars>>

\* Mutant: the lifespan ends while requests are still under way.
Shutdown_Impatient ==
  /\ server = "draining"
  /\ Store!Aclose
  /\ UNCHANGED <<req, server>>

\* No request is left: the lifespan's finally block runs aclose().
Shutdown ==
  /\ server = "draining" /\ Idle
  /\ Store!Aclose
  /\ UNCHANGED <<req, server>>

\* Killed, or stopped and started again: requests under way are cut off.
Crash ==
  /\ Store!Restart
  /\ server' = "up"
  /\ req' = [r \in Requests |-> IF UnderWay(r) THEN "over" ELSE req[r]]

ServiceNext ==
  \/ \E r \in Requests : Arrive(r) \/ Progress(r) \/ EndBody(r)
  \/ StoreStep
  \/ Sigterm \/ Shutdown \/ Crash

ServiceSpec == ServiceInit /\ [][ServiceNext]_serviceVars

-----------------------------------------------------------------------------
\* A graceful shutdown answers everyone first: once aclose() has begun, no
\* request is under way that could still submit to a writer being closed.
DrainsBeforeClosing ==
  phase \in {"cancelling", "closing", "closed"} => Idle /\ server = "draining"

\* One submission per answered request and none for any other: a request that
\* was refused, failed, was cancelled or died with the process leaves no mark
\* on the writer, its counters or the table.
SubmittedOnceAnswered ==
  /\ \A r \in Requests : fate[r] # "unseen" <=> req[r] = "answered"
  /\ rows \subseteq {r \in Requests : req[r] = "answered"}

\* trace_store.py:3-4, "a chat request never waits on the trace store": with a
\* writer and a database that may stop at any point, every request still ends
\* (under Compose's fairness, which asks nothing of either).
ChatNeverWaits ==
  \A r \in Requests : UnderWay(r) ~> ~ UnderWay(r)
=============================================================================
