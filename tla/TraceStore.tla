----------------------------- MODULE TraceStore -----------------------------
(***************************************************************************)
(* The api's trace writer, api/app/trace_store.py: a bounded queue in      *)
(* front of Postgres, drained by one background task.                      *)
(*                                                                         *)
(* Three actors interleave at the awaits of one asyncio event loop: the    *)
(* lifespan coroutine (start, aclose), the request path (submit) and the   *)
(* worker task (_drain, _write).  Postgres is the fourth: it commits a row *)
(* at its own pace, so a client that has given up on a write cannot know   *)
(* whether the row exists.  The process may be killed and restarted at any *)
(* point; rows survive, the queue and the counters do not.                 *)
(***************************************************************************)
EXTENDS Integers, Sequences, FiniteSets

CONSTANTS Traces,       \* completed requests, one trace each (fresh request ids)
          NoTrace,      \* the worker holds nothing
          QueueSize,    \* settings.trace_queue_size
          MaxRestarts   \* bound on process restarts

\* asyncio.Queue(maxsize = 0) would be unbounded; the default is 500.
ASSUME QueueSizeAssumption == QueueSize \in Nat \ {0}
ASSUME NoTraceAssumption   == NoTrace \notin Traces
ASSUME RestartsAssumption  == MaxRestarts \in Nat

VARIABLES
  dsn,          \* is settings.trace_db_url set?
  phase,        \* where the lifespan coroutine is
  pool,         \* self._pool: "none" or "open"
  worker,       \* self._worker: "none", or the await its task is suspended at
  queue,        \* self._queue
  held,         \* the trace _drain has taken and _write has not finished with
  depth,        \* TRACE_QUEUE_DEPTH
  metric,       \* TRACES_WRITTEN, TRACE_FAILURES and TRACE_DROPS, by label
  committing,   \* traces whose COMMIT has left the client
  rows,         \* request ids in the traces table
  restarts,
  calls,        \* history: submit() calls of this process
  interrupted,  \* history: writes of this process cut off by cancellation
  fate          \* history: what became of each trace

vars == <<dsn, phase, pool, worker, queue, held, depth, metric, committing,
          rows, restarts, calls, interrupted, fate>>

DropReasons    == {"disabled", "queue_full"}
FailureReasons == {"timeout", "database", "unexpected"}
Labels         == {"written"} \cup DropReasons \cup FailureReasons
Fates          == Labels \cup {"unseen", "pending", "lost"}

Phases  == {"boot", "opening", "serving", "cancelling", "closing", "closed"}
Pools   == {"none", "open"}
Workers == {"none", "get", "write", "ended"}

TypeOK ==
  /\ dsn \in BOOLEAN
  /\ phase \in Phases
  /\ pool \in Pools
  /\ worker \in Workers
  /\ queue \in Seq(Traces)
  /\ held \in Traces \cup {NoTrace}
  /\ depth \in Nat
  /\ metric \in [Labels -> Nat]
  /\ committing \in SUBSET Traces
  /\ rows \in SUBSET Traces
  /\ restarts \in 0..MaxRestarts
  /\ calls \in Nat
  /\ interrupted \in Nat
  /\ fate \in [Traces -> Fates]

Init ==
  /\ dsn \in BOOLEAN
  /\ phase = "boot"
  /\ pool = "none" /\ worker = "none"
  /\ queue = <<>> /\ held = NoTrace
  /\ depth = 0 /\ metric = [l \in Labels |-> 0]
  /\ committing = {} /\ rows = {}
  /\ restarts = 0
  /\ calls = 0 /\ interrupted = 0
  /\ fate = [t \in Traces |-> "unseen"]

Count(l)      == metric' = [metric EXCEPT ![l] = @ + 1]
Decide(t, f)  == fate' = [fate EXCEPT ![t] = f]

-----------------------------------------------------------------------------
(* start(): without a DSN it returns at once, leaving the store disabled.  *)
(* Otherwise it awaits the pool's first connection; a failure leaves the   *)
(* store disabled for the life of the process.                             *)

Start ==
  /\ phase = "boot"
  /\ phase' = IF dsn THEN "opening" ELSE "serving"
  /\ UNCHANGED <<dsn, pool, worker, queue, held, depth, metric, committing,
                 rows, restarts, calls, interrupted, fate>>

OpenSucceeds ==
  /\ phase = "opening"
  /\ phase' = "serving"
  /\ pool' = "open"
  /\ worker' = "get"
  /\ UNCHANGED <<dsn, queue, held, depth, metric, committing, rows, restarts,
                 calls, interrupted, fate>>

\* Mutant: pool.open() without a timeout, start() waits for the store.
OpenFails_Never == FALSE

OpenFails ==
  /\ phase = "opening"
  /\ phase' = "serving"
  /\ UNCHANGED <<dsn, pool, worker, queue, held, depth, metric, committing,
                 rows, restarts, calls, interrupted, fate>>

-----------------------------------------------------------------------------
(* submit(): synchronous, callable in every phase that follows start().    *)

SubmitDisabled(t) ==
  /\ worker = "none"
  /\ Count("disabled")
  /\ Decide(t, "disabled")
  /\ UNCHANGED <<queue, depth>>

\* Mutant: the queue has no bound.
SubmitQueued_Unbounded(t) ==
  /\ worker # "none"
  /\ queue' = Append(queue, t)
  /\ depth' = Len(queue')
  /\ Decide(t, "pending")
  /\ UNCHANGED metric

SubmitQueued(t) ==
  /\ worker # "none"
  /\ Len(queue) < QueueSize
  /\ queue' = Append(queue, t)
  /\ depth' = Len(queue')
  /\ Decide(t, "pending")
  /\ UNCHANGED metric

\* Mutant: QueueFull is swallowed without a count.
SubmitFull_Silent(t) ==
  /\ worker # "none"
  /\ Len(queue) >= QueueSize
  /\ Decide(t, "queue_full")
  /\ depth' = Len(queue)
  /\ UNCHANGED <<queue, metric>>

SubmitFull(t) ==
  /\ worker # "none"
  /\ Len(queue) >= QueueSize
  /\ Count("queue_full")
  /\ Decide(t, "queue_full")
  /\ depth' = Len(queue)
  /\ UNCHANGED queue

Submit(t) ==
  /\ phase \notin {"boot", "opening"}
  /\ fate[t] = "unseen"
  /\ calls' = calls + 1
  /\ SubmitDisabled(t) \/ SubmitQueued(t) \/ SubmitFull(t)
  /\ UNCHANGED <<dsn, phase, pool, worker, held, committing, rows, restarts,
                 interrupted>>

-----------------------------------------------------------------------------
(* _drain() and _write().  Once aclose() has called worker.cancel() the    *)
(* task's next step is the CancelledError, so every other worker step      *)
(* needs phase = "serving".                                                *)

\* Mutant: the trace is left in the queue until it is written.
Get_Peeks ==
  /\ worker = "get" /\ phase = "serving"
  /\ queue # <<>>
  /\ held' = Head(queue)
  /\ worker' = "write"
  /\ UNCHANGED <<dsn, phase, pool, queue, depth, metric, committing, rows,
                 restarts, calls, interrupted, fate>>

\* queue.get() returns and _write runs up to its first await.
Get ==
  /\ worker = "get" /\ phase = "serving"
  /\ queue # <<>>
  /\ queue' = Tail(queue)
  /\ IF pool = "open"
     THEN /\ held' = Head(queue)
          /\ worker' = "write"
          /\ UNCHANGED <<depth, metric, fate>>
     ELSE /\ Count("disabled")
          /\ Decide(Head(queue), "disabled")
          /\ depth' = Len(queue')
          /\ UNCHANGED <<held, worker>>
  /\ UNCHANGED <<dsn, phase, pool, committing, rows, restarts, calls,
                 interrupted>>

\* Leaving `async with pool.connection()` sends COMMIT.
SendCommit ==
  /\ worker = "write" /\ phase = "serving"
  /\ held \notin committing
  /\ committing' = committing \cup {held}
  /\ UNCHANGED <<dsn, phase, pool, worker, queue, held, depth, metric, rows,
                 restarts, calls, interrupted, fate>>

\* Postgres makes the row durable, whether or not anyone still waits for it.
\* ON CONFLICT DO NOTHING: a row already there is left as it is.
ServerCommits(t) ==
  /\ t \in committing \ rows
  /\ rows' = rows \cup {t}
  /\ UNCHANGED <<dsn, phase, pool, worker, queue, held, depth, metric,
                 committing, restarts, calls, interrupted, fate>>

\* Mutant: a trace that was not stored goes back on the queue ("retry").
FinishWrite_Requeues(l) ==
  /\ worker = "write" /\ phase = "serving"
  /\ Count(l)
  /\ Decide(held, l)
  /\ queue' = IF l \in FailureReasons THEN Append(queue, held) ELSE queue
  /\ held' = NoTrace
  /\ worker' = "get"
  /\ depth' = Len(queue')
  /\ UNCHANGED <<dsn, phase, pool, committing, rows, restarts, calls,
                 interrupted>>

\* _write returns with outcome l; _drain's finally block refreshes the gauge.
FinishWrite(l) ==
  /\ worker = "write" /\ phase = "serving"
  /\ Count(l)
  /\ Decide(held, l)
  /\ held' = NoTrace
  /\ worker' = "get"
  /\ depth' = Len(queue)
  /\ UNCHANGED <<dsn, phase, pool, queue, committing, rows, restarts, calls,
                 interrupted>>

\* Mutant: counted when the statement is sent, before the commit is confirmed.
WriteSucceeds_Early == held \in committing /\ FinishWrite("written")

WriteSucceeds == held \in rows /\ FinishWrite("written")

\* Mutant: the exception escapes _write and ends the worker task.
WriteFails_Escapes(reason) ==
  /\ worker = "write" /\ phase = "serving"
  /\ Count(reason)
  /\ Decide(held, reason)
  /\ held' = NoTrace
  /\ worker' = "ended"
  /\ depth' = Len(queue)
  /\ UNCHANGED <<dsn, phase, pool, queue, committing, rows, restarts, calls,
                 interrupted>>

\* asyncio.timeout expires, psycopg raises (a rejected statement, a lost
\* connection, no connection to be had), or anything else does.  Neither a
\* timeout nor a lost connection says whether the row was committed.
WriteFails(reason) == FinishWrite(reason)

-----------------------------------------------------------------------------
(* aclose(): cancel the worker, await it, forget it, close the pool.       *)

Aclose ==
  /\ phase = "serving"
  /\ phase' = IF worker # "none" THEN "cancelling"
              ELSE IF pool = "open" THEN "closing" ELSE "closed"
  /\ UNCHANGED <<dsn, pool, worker, queue, held, depth, metric, committing,
                 rows, restarts, calls, interrupted, fate>>

\* CancelledError at queue.get(), which is outside the try block.
CancelIdle ==
  /\ phase = "cancelling" /\ worker = "get"
  /\ worker' = "ended"
  /\ UNCHANGED <<dsn, phase, pool, queue, held, depth, metric, committing,
                 rows, restarts, calls, interrupted, fate>>

\* CancelledError inside _write: re-raised without touching a counter; the
\* finally block of _drain still refreshes the gauge.
CancelWrite ==
  /\ phase = "cancelling" /\ worker = "write"
  /\ worker' = "ended"
  /\ Decide(held, "lost")
  /\ interrupted' = interrupted + 1
  /\ held' = NoTrace
  /\ depth' = Len(queue)
  /\ UNCHANGED <<dsn, phase, pool, queue, metric, committing, rows, restarts,
                 calls>>

\* Mutant: aclose() waits for the queue to be empty (queue.join()) first.
Reap_Joins ==
  /\ phase = "cancelling" /\ worker = "ended"
  /\ queue = <<>>
  /\ worker' = "none"
  /\ phase' = IF pool = "open" THEN "closing" ELSE "closed"
  /\ UNCHANGED <<dsn, pool, queue, held, depth, metric, committing, rows,
                 restarts, calls, interrupted, fate>>

\* `await self._worker` returns in aclose().
Reap ==
  /\ phase = "cancelling" /\ worker = "ended"
  /\ worker' = "none"
  /\ phase' = IF pool = "open" THEN "closing" ELSE "closed"
  /\ UNCHANGED <<dsn, pool, queue, held, depth, metric, committing, rows,
                 restarts, calls, interrupted, fate>>

PoolCloses ==
  /\ phase = "closing"
  /\ pool' = "none"
  /\ phase' = "closed"
  /\ UNCHANGED <<dsn, worker, queue, held, depth, metric, committing, rows,
                 restarts, calls, interrupted, fate>>

\* The process ends, killed or stopped, and the container starts a new one:
\* memory is rebuilt by __init__, whatever was pending in it is gone.
Restart ==
  /\ restarts < MaxRestarts
  /\ restarts' = restarts + 1
  /\ phase' = "boot"
  /\ pool' = "none" /\ worker' = "none"
  /\ queue' = <<>> /\ held' = NoTrace
  /\ depth' = 0 /\ metric' = [l \in Labels |-> 0]
  /\ calls' = 0 /\ interrupted' = 0
  /\ fate' = [t \in Traces |-> IF fate[t] = "pending" THEN "lost" ELSE fate[t]]
  /\ UNCHANGED <<dsn, committing, rows>>

Next ==
  \/ Start \/ OpenSucceeds \/ OpenFails
  \/ \E t \in Traces : Submit(t)
  \/ Get \/ SendCommit
  \/ \E t \in Traces : ServerCommits(t)
  \/ WriteSucceeds
  \/ \E reason \in FailureReasons : WriteFails(reason)
  \/ Aclose \/ CancelIdle \/ CancelWrite \/ Reap \/ PoolCloses
  \/ Restart

Spec == Init /\ [][Next]_vars

\* The event loop runs every ready callback; pool.open and every write are
\* bounded by write_timeout_s.  psycopg is assumed to honour a cancellation
\* and to end pool.close(), whose own timeout bounds it.  Nothing is assumed
\* of Postgres, of the callers of submit() or of whoever stops the process.
WriteEnds == WriteSucceeds \/ \E reason \in FailureReasons : WriteFails(reason)

Fairness ==
  /\ WF_vars(Start) /\ WF_vars(OpenSucceeds \/ OpenFails)
  /\ WF_vars(Get) /\ WF_vars(WriteEnds)
  /\ WF_vars(CancelIdle \/ CancelWrite) /\ WF_vars(Reap) /\ WF_vars(PoolCloses)

FairSpec == Spec /\ Fairness

-----------------------------------------------------------------------------
(* Safety.                                                                 *)

\* What the queue and the worker have between them.
InQueue(t) == \E i \in 1..Len(queue) : queue[i] = t
Holding    == IF held = NoTrace THEN 0 ELSE 1

Counted == metric["written"]
           + metric["disabled"] + metric["queue_full"]
           + metric["timeout"] + metric["database"] + metric["unexpected"]

\* Every submit() of this process is in exactly one place: counted once,
\* queued, in the worker's hand, or cut off by cancellation.  A trace counted
\* twice, or leaving the queue uncounted while the worker lives, breaks it.
Conservation == calls = Counted + Len(queue) + Holding + interrupted

\* Memory and loss are bounded whatever the store does: at any moment at most
\* a queue's worth of traces plus the one being written are not yet counted,
\* so a crash or a shutdown loses no more than that.
BoundedLoss == calls - Counted <= QueueSize + 1

\* Pending means queued or held, and never in two places: no trace is handed
\* to the writer twice.
PendingIsOnce ==
  /\ \A t \in Traces : fate[t] = "pending" <=> (InQueue(t) \/ held = t)
  /\ \A i, j \in 1..Len(queue) : queue[i] = queue[j] => i = j
  /\ ~ InQueue(held)

\* A written count is a durable row (metrics.py: "durably written"), and a
\* dropped trace never reached the store ("discarded before a write was
\* attempted"); nothing still queued has been sent to the store.  The gauge is the
\* queue's length, but for the trace in the worker's hand, which it may include.
CountersTellTheTruth ==
  /\ \A t \in Traces : fate[t] = "written" => t \in rows
  /\ \A t \in Traces : fate[t] \in DropReasons => t \notin committing
  /\ \A i \in 1..Len(queue) : queue[i] \notin committing
  /\ rows \subseteq committing
  /\ depth = Len(queue) \/ (held # NoTrace /\ depth = Len(queue) + 1)

\* The pool outlives the worker: _write's `self._pool is None` branch is never
\* taken, at start-up or during aclose().
WorkerHasPool == worker # "none" => pool = "open"

-----------------------------------------------------------------------------
(* Liveness, under FairSpec.                                               *)

\* The worker survives every failure: while the process serves, every trace
\* accepted into the queue is eventually written or counted as a failure.
PendingResolves ==
  \A t \in Traces : fate[t] = "pending" ~> (fate[t] # "pending" \/ phase # "serving")

\* aclose() returns, whatever the worker was doing (or the process is killed
\* and starts again).
AcloseReturns == phase = "cancelling" ~> phase \in {"closed", "boot"}

-----------------------------------------------------------------------------
(* What the documentation says and the code does not do.                   *)

\* trace_store.py:6-9, a trace that cannot be stored is dropped "with a counter
\* incremented so the loss is visible on the dashboard rather than silent":
\* when aclose() has returned, every submitted trace has been counted.
NoSilentLoss == phase = "closed" => calls = Counted
=============================================================================
