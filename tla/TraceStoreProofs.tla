-------------------------- MODULE TraceStoreProofs --------------------------
(***************************************************************************)
(* Proofs about TraceStore, for every set of traces, every queue size and  *)
(* every bound on restarts.                                                *)
(*                                                                         *)
(* TypeOK is not inductive: SendCommit adds `held' to a set of traces, so  *)
(* the worker must hold one while it writes (InHand).  The accounting      *)
(* (Conservation) is inductive on top of the types, and bounding the loss  *)
(* needs in addition that a cancelled write is the last one (Lifecycle,    *)
(* Interrupted).  What the counters and the gauge tell (InPlace) rests on  *)
(* where each trace is, hence on the types only; with it every step of the *)
(* writer is a step of the ledger or leaves it unchanged (Refinement).     *)
(***************************************************************************)
EXTENDS TraceStoreLedger, SequenceTheorems, FiniteSetTheorems, TLAPS

USE QueueSizeAssumption, NoTraceAssumption, RestartsAssumption

\* The worker is writing exactly when it holds a trace.
InHand == worker = "write" <=> held # NoTrace

\* A worker exists only once start() has opened the pool.
Unborn == phase \in {"boot", "opening"} => worker = "none"

\* Which await of the lifespan coroutine allows which states of the pool and
\* the worker.
Lifecycle ==
  /\ phase \in {"boot", "opening", "closed"} => worker = "none" /\ pool = "none"
  /\ phase = "serving"    => worker \in {"none", "get", "write"}
  /\ phase = "cancelling" => worker # "none"
  /\ phase = "closing"    => worker = "none"

\* A write cut off by cancellation is the worker's last.
Interrupted ==
  /\ interrupted \in 0..1
  /\ interrupted = 1 => /\ phase \notin {"boot", "opening", "serving"}
                        /\ worker \in {"ended", "none"}

Bounded == Len(queue) <= QueueSize

TypeInv  == TypeOK /\ InHand /\ Unborn
CountInv == Lifecycle /\ WorkerHasPool /\ Interrupted /\ Bounded /\ Conservation
Inv      == TypeInv /\ CountInv

-----------------------------------------------------------------------------
\* Lemmas about the operators the actions are built from.

LEMMA LabelFacts ==
  /\ DropReasons \subseteq Labels /\ FailureReasons \subseteq Labels
  /\ "disabled" \in Labels /\ "queue_full" \in Labels /\ "written" \in Labels
  /\ Labels \subseteq Fates
  /\ "pending" \in Fates /\ "lost" \in Fates /\ "unseen" \in Fates
BY DEF Labels, DropReasons, FailureReasons, Fates

\* Any one counter incremented raises their sum by one.
LEMMA CountedStep ==
  ASSUME metric \in [Labels -> Nat], NEW l \in Labels, Count(l)
  PROVE  Counted \in Nat /\ Counted' = Counted + 1
BY DEF Count, Counted, Labels, DropReasons, FailureReasons

LEMMA CountedNat ==
  ASSUME metric \in [Labels -> Nat]
  PROVE  Counted \in Nat
BY DEF Counted, Labels, DropReasons, FailureReasons

-----------------------------------------------------------------------------
\* Types.

LEMMA TypeInit == Init => TypeInv
BY LabelFacts DEF Init, TypeInv, TypeOK, InHand, Unborn, Phases, Pools, Workers

LEMMA TypeStep == TypeInv /\ [Next]_vars => TypeInv'
<1> SUFFICES ASSUME TypeInv, [Next]_vars PROVE TypeInv'
  OBVIOUS
<1> USE LabelFacts DEF TypeInv, TypeOK, InHand, Unborn, Phases, Pools, Workers
<1>0. CASE UNCHANGED vars
  <2>1. TypeOK'
    BY <1>0 DEF vars
  <2>2. InHand' /\ Unborn'
    BY <1>0 DEF vars
  <2>3. QED
    BY <2>1, <2>2
<1>1. CASE Start \/ OpenSucceeds \/ OpenFails
  <2>1. CASE Start
    BY <2>1 DEF Start
  <2>2. CASE OpenSucceeds
    BY <2>2 DEF OpenSucceeds
  <2>3. CASE OpenFails
    BY <2>3 DEF OpenFails
  <2>4. QED
    BY <1>1, <2>1, <2>2, <2>3
<1>2. ASSUME NEW t \in Traces, Submit(t) PROVE TypeInv'
  <2>1. CASE SubmitDisabled(t)
    BY <1>2, <2>1 DEF Submit, SubmitDisabled, Count, Decide
  <2>2. CASE SubmitQueued(t)
    BY <1>2, <2>2 DEF Submit, SubmitQueued, Decide
  <2>3. CASE SubmitFull(t)
    BY <1>2, <2>3 DEF Submit, SubmitFull, Count, Decide
  <2>4. QED
    BY <1>2, <2>1, <2>2, <2>3 DEF Submit
<1>3. CASE Get
  <2>1. Head(queue) \in Traces /\ Tail(queue) \in Seq(Traces)
    BY <1>3 DEF Get
  <2>2. CASE pool = "open"
    BY <1>3, <2>1, <2>2 DEF Get
  <2>3. CASE pool # "open"
    <3>1. metric' \in [Labels -> Nat]
      BY <1>3, <2>3 DEF Get, Count
    <3>2. fate' \in [Traces -> Fates]
      BY <1>3, <2>1, <2>3 DEF Get, Decide
    <3>3. QED
      BY <1>3, <2>1, <2>3, <3>1, <3>2 DEF Get
  <2>4. QED
    BY <2>2, <2>3
<1>4. CASE SendCommit
  BY <1>4 DEF SendCommit
<1>5. ASSUME NEW t \in Traces, ServerCommits(t) PROVE TypeInv'
  BY <1>5 DEF ServerCommits
<1>6. ASSUME NEW l \in Labels, FinishWrite(l) PROVE TypeInv'
  BY <1>6 DEF FinishWrite, Count, Decide
<1>7. CASE Aclose \/ CancelIdle \/ Reap \/ PoolCloses
  BY <1>7 DEF Aclose, CancelIdle, Reap, PoolCloses
<1>8. CASE CancelWrite
  BY <1>8 DEF CancelWrite, Decide
<1>9. CASE Restart
  BY <1>9 DEF Restart
<1>10. QED
  BY <1>0, <1>1, <1>2, <1>3, <1>4, <1>5, <1>6, <1>7, <1>8, <1>9
     DEF Next, WriteSucceeds, WriteFails

\* The state keeps its types: nothing but traces in the queue and in the
\* table, no counter and no gauge below zero, no count of restarts past the
\* bound (trace_store.py).
THEOREM TypeCorrect == Spec => []TypeOK
<1>1. Spec => []TypeInv
  BY TypeInit, TypeStep, PTL DEF Spec
<1>2. TypeInv => TypeOK
  BY DEF TypeInv
<1>3. QED
  BY <1>1, <1>2, PTL

-----------------------------------------------------------------------------
\* Accounting.

LEMMA CountInit == Init => CountInv
BY DEF Init, CountInv, Lifecycle, WorkerHasPool, Interrupted, Bounded,
       Conservation, Counted, Holding, Labels, DropReasons, FailureReasons

LEMMA CountStep == Inv /\ [Next]_vars => CountInv'
<1> SUFFICES ASSUME Inv, [Next]_vars PROVE CountInv'
  OBVIOUS
<1> USE DEF Inv, TypeInv, TypeOK, InHand, CountInv
<1> USE DEF Lifecycle, WorkerHasPool, Interrupted, Bounded, Conservation, Holding
<1>0. Counted \in Nat /\ Len(queue) \in Nat
  BY CountedNat
<1>1. ASSUME UNCHANGED metric PROVE Counted' = Counted
  BY <1>1 DEF Counted
<1>2. CASE UNCHANGED vars
  BY <1>0, <1>1, <1>2 DEF vars
<1>3. CASE Start
  BY <1>0, <1>1, <1>3 DEF Start
<1>4. CASE OpenSucceeds
  BY <1>0, <1>1, <1>4 DEF OpenSucceeds
<1>5. CASE OpenFails
  BY <1>0, <1>1, <1>5 DEF OpenFails
<1>6. ASSUME NEW t \in Traces, Submit(t) PROVE CountInv'
  <2>1. CASE SubmitDisabled(t)
    <3>1. Counted' = Counted + 1
      BY <2>1, CountedStep, LabelFacts DEF SubmitDisabled
    <3>2. QED
      BY <1>0, <1>6, <2>1, <3>1 DEF Submit, SubmitDisabled
  <2>2. CASE SubmitQueued(t)
    <3>1. Len(queue') = Len(queue) + 1 /\ Counted' = Counted
      BY <1>1, <2>2 DEF SubmitQueued
    <3>2. QED
      BY <1>0, <1>6, <2>2, <3>1 DEF Submit, SubmitQueued
  <2>3. CASE SubmitFull(t)
    <3>1. Counted' = Counted + 1
      BY <2>3, CountedStep, LabelFacts DEF SubmitFull
    <3>2. QED
      BY <1>0, <1>6, <2>3, <3>1 DEF Submit, SubmitFull
  <2>4. QED
    BY <1>6, <2>1, <2>2, <2>3 DEF Submit
<1>7. CASE Get
  <2>1. pool = "open"
    BY <1>7 DEF Get
  <2>2. Head(queue) \in Traces /\ Len(queue') = Len(queue) - 1
    BY <1>7 DEF Get
  <2>3. Counted' = Counted
    BY <1>1, <1>7, <2>1 DEF Get
  <2>4. /\ held = NoTrace /\ held' # NoTrace /\ worker' = "write"
        /\ UNCHANGED <<phase, pool, calls, interrupted>>
    BY <1>7, <2>1, <2>2, NoTraceAssumption DEF Get
  <2>5. Holding = 0 /\ Holding' = 1
    BY <2>4
  <2>6. Lifecycle' /\ WorkerHasPool' /\ Interrupted'
    BY <1>7, <2>1, <2>4 DEF Get
  <2>7. QED
    BY <1>0, <2>2, <2>3, <2>4, <2>5, <2>6
<1>8. CASE SendCommit
  BY <1>0, <1>1, <1>8 DEF SendCommit
<1>9. ASSUME NEW t \in Traces, ServerCommits(t) PROVE CountInv'
  BY <1>0, <1>1, <1>9 DEF ServerCommits
<1>10. ASSUME NEW l \in Labels, FinishWrite(l) PROVE CountInv'
  <2>1. Counted' = Counted + 1
    BY <1>10, CountedStep DEF FinishWrite
  <2>2. Holding = 1 /\ Holding' = 0
    BY <1>10 DEF FinishWrite
  <2>3. /\ queue' = queue /\ calls' = calls /\ interrupted' = interrupted
        /\ phase = "serving" /\ phase' = phase /\ pool' = pool
        /\ worker = "write" /\ worker' = "get"
    BY <1>10 DEF FinishWrite
  <2>4. Conservation'
    BY <1>0, <2>1, <2>2, <2>3 DEF Counted
  <2>5. Lifecycle' /\ WorkerHasPool' /\ Interrupted' /\ Bounded'
    BY <2>3
  <2>6. QED
    BY <2>4, <2>5
<1>11. CASE Aclose
  BY <1>0, <1>1, <1>11 DEF Aclose, Pools
<1>12. CASE CancelIdle
  BY <1>0, <1>1, <1>12 DEF CancelIdle
<1>13. CASE CancelWrite
  BY <1>0, <1>1, <1>13 DEF CancelWrite
<1>14. CASE Reap
  BY <1>0, <1>1, <1>14 DEF Reap, Pools
<1>15. CASE PoolCloses
  BY <1>0, <1>1, <1>15 DEF PoolCloses
<1>16. CASE Restart
  <2>1. Counted' = 0
    BY <1>16 DEF Restart, Counted, Labels, DropReasons, FailureReasons
  <2>2. Len(queue') = 0
    BY <1>16 DEF Restart
  <2>3. QED
    BY <1>16, <2>1, <2>2 DEF Restart
<1>17. QED
  BY <1>2, <1>3, <1>4, <1>5, <1>6, <1>7, <1>8, <1>9, <1>10, <1>11, <1>12,
     <1>13, <1>14, <1>15, <1>16, LabelFacts
     DEF Next, WriteSucceeds, WriteFails

THEOREM Invariance == Spec => []Inv
<1>1. Init => Inv
  BY TypeInit, CountInit DEF Inv
<1>2. Inv /\ [Next]_vars => Inv'
  BY TypeStep, CountStep DEF Inv
<1>3. QED
  BY <1>1, <1>2, PTL DEF Spec

\* Every submit() of a process is counted once, queued, in the worker's hand
\* or cut off by aclose(), at every moment (submit, _drain, _write, aclose).
THEOREM EverySubmitAccountedFor == Spec => []Conservation
<1>1. Inv => Conservation
  BY DEF Inv, CountInv
<1>2. QED
  BY <1>1, Invariance, PTL

\* However slow the store and whenever the process stops, no more than
\* QueueSize + 1 submitted traces are ever uncounted.
THEOREM LossIsBounded == Spec => []BoundedLoss
<1>1. Inv => BoundedLoss
  <2> SUFFICES ASSUME Inv PROVE BoundedLoss
    OBVIOUS
  <2> USE DEF Inv, TypeInv, TypeOK, InHand, CountInv, Lifecycle, Interrupted,
              Bounded, Conservation, Holding
  <2>1. Counted \in Nat /\ Len(queue) \in Nat
    BY CountedNat
  <2>2. Holding + interrupted <= 1
    OBVIOUS
  <2>3. QED
    BY <2>1, <2>2 DEF BoundedLoss
<1>2. QED
  BY <1>1, Invariance, PTL

\* The worker never runs without a pool, so _write's "disabled" branch is dead
\* and every trace accepted into the queue is offered to Postgres or lost only
\* by a shutdown.
THEOREM PoolOutlivesWorker == Spec => []WorkerHasPool
<1>1. Inv => WorkerHasPool
  BY DEF Inv, CountInv
<1>2. QED
  BY <1>1, Invariance, PTL
-----------------------------------------------------------------------------
(* Places.  What a fate, a counter or the gauge says of a trace rests on   *)
(* where the trace is: nobody has it twice, nothing in the queue has been  *)
(* sent, and a trace that was never submitted is nowhere.                  *)

Unsent  == \A t \in Traces : fate[t] = "unseen" => t \notin committing
InPlace == PendingIsOnce /\ CountersTellTheTruth /\ Unsent

LEMMA Appended ==
  ASSUME queue \in Seq(Traces), NEW t \in Traces, queue' = Append(queue, t)
  PROVE  /\ Len(queue') = Len(queue) + 1
         /\ \A i \in 1..Len(queue) : queue'[i] = queue[i]
         /\ queue'[Len(queue) + 1] = t
         /\ \A s : InQueue(s)' <=> InQueue(s) \/ s = t
BY DEF InQueue

LEMMA Taken ==
  ASSUME queue \in Seq(Traces), queue # <<>>, queue' = Tail(queue),
         \A i, j \in 1..Len(queue) : queue[i] = queue[j] => i = j
  PROVE  /\ Len(queue') = Len(queue) - 1
         /\ \A i \in 1..Len(queue') : i + 1 \in 1..Len(queue) /\ queue'[i] = queue[i + 1]
         /\ \A s : InQueue(s) <=> InQueue(s)' \/ s = Head(queue)
         /\ \A s : s = Head(queue) => ~ InQueue(s)'
<1>1. /\ Len(queue') = Len(queue) - 1
      /\ \A i \in 1..Len(queue') : i + 1 \in 1..Len(queue) /\ queue'[i] = queue[i + 1]
  OBVIOUS
<1>2. 1 \in 1..Len(queue) /\ Head(queue) = queue[1] /\ Len(queue) \in Nat
  OBVIOUS
<1>3. ASSUME NEW s, InQueue(s) PROVE InQueue(s)' \/ s = Head(queue)
  <2>1. PICK i \in 1..Len(queue) : queue[i] = s
    BY <1>3 DEF InQueue
  <2>2. CASE i = 1
    BY <1>2, <2>1, <2>2
  <2>3. CASE i # 1
    <3>1. i - 1 \in 1..Len(queue') /\ queue'[i - 1] = s
      BY <1>1, <1>2, <2>1, <2>3
    <3> QED BY <3>1 DEF InQueue
  <2> QED BY <2>2, <2>3
<1>4. ASSUME NEW s, InQueue(s)' \/ s = Head(queue) PROVE InQueue(s)
  BY <1>1, <1>2, <1>4 DEF InQueue
<1>5. ASSUME NEW s, s = Head(queue) PROVE ~ InQueue(s)'
  BY <1>1, <1>2, <1>5 DEF InQueue
<1> QED BY <1>1, <1>3, <1>4, <1>5

LEMMA PlacesInit == Init => InPlace
BY DEF Init, InPlace, PendingIsOnce, CountersTellTheTruth, Unsent, InQueue, DropReasons

LEMMA PlacesStep == Inv /\ InPlace /\ [Next]_vars => InPlace'
<1> SUFFICES ASSUME Inv, InPlace, [Next]_vars PROVE InPlace'
  OBVIOUS
<1>0. /\ queue \in Seq(Traces) /\ held \in Traces \cup {NoTrace} /\ depth \in Nat
      /\ fate \in [Traces -> Fates] /\ committing \subseteq Traces /\ Len(queue) \in Nat
      /\ worker = "write" <=> held # NoTrace
      /\ worker # "none" => pool = "open"
  BY DEF Inv, TypeInv, TypeOK, InHand, CountInv, WorkerHasPool
<1> USE DEF InPlace, PendingIsOnce, CountersTellTheTruth, Unsent, DropReasons
<1>1. ASSUME UNCHANGED <<queue, held, depth, fate, committing, rows>> PROVE InPlace'
  BY <1>1 DEF InQueue
<1>2. CASE UNCHANGED vars
  BY <1>1, <1>2 DEF vars
<1>3. CASE Start \/ OpenSucceeds \/ OpenFails \/ Aclose \/ CancelIdle \/ Reap \/ PoolCloses
  BY <1>1, <1>3 DEF Start, OpenSucceeds, OpenFails, Aclose, CancelIdle, Reap, PoolCloses
<1>4. ASSUME NEW t \in Traces, Submit(t) PROVE InPlace'
  <2>1. /\ fate[t] = "unseen" /\ UNCHANGED <<held, committing, rows>>
        /\ ~ InQueue(t) /\ held # t /\ t \notin committing
    BY <1>4 DEF Submit
  <2>2. ASSUME NEW l \in DropReasons, Decide(t, l), UNCHANGED queue,
               depth' = depth \/ depth' = Len(queue)
        PROVE  InPlace'
    <3>1. /\ fate'[t] = l /\ l # "pending" /\ l # "unseen" /\ l # "written"
          /\ \A s \in Traces \ {t} : fate'[s] = fate[s]
      BY <1>0, <2>2 DEF Decide
    <3>2. \A s : InQueue(s)' <=> InQueue(s)
      BY <2>2 DEF InQueue
    <3> QED BY <1>0, <2>1, <2>2, <3>1, <3>2
  <2>3. CASE SubmitQueued(t)
    <3>1. /\ fate'[t] = "pending" /\ \A s \in Traces \ {t} : fate'[s] = fate[s]
          /\ queue' = Append(queue, t) /\ depth' = Len(queue')
      BY <1>0, <2>3 DEF SubmitQueued, Decide
    <3>2. /\ Len(queue') = Len(queue) + 1
          /\ \A i \in 1..Len(queue) : queue'[i] = queue[i]
          /\ queue'[Len(queue) + 1] = t
          /\ \A s : InQueue(s)' <=> InQueue(s) \/ s = t
      BY <1>0, <3>1, Appended
    <3>3. \A i \in 1..Len(queue) : queue[i] # t
      BY <2>1 DEF InQueue
    <3>4. \A i, j \in 1..Len(queue') : queue'[i] = queue'[j] => i = j
      BY <1>0, <3>2, <3>3
    <3>5. PendingIsOnce'
      BY <1>0, <2>1, <3>1, <3>2, <3>4
    <3>6. \A i \in 1..Len(queue') : queue'[i] \notin committing'
      BY <1>0, <2>1, <3>2
    <3> QED BY <1>0, <2>1, <3>1, <3>5, <3>6
  <2> QED BY <1>4, <2>2, <2>3 DEF Submit, SubmitDisabled, SubmitFull
<1>5. CASE Get
  <2>1. /\ pool = "open" /\ held = NoTrace /\ queue # <<>> /\ queue' = Tail(queue)
        /\ held' = Head(queue) /\ UNCHANGED <<depth, fate, committing, rows>>
    BY <1>0, <1>5 DEF Get
  <2>2. /\ Len(queue') = Len(queue) - 1
        /\ \A i \in 1..Len(queue') : i + 1 \in 1..Len(queue) /\ queue'[i] = queue[i + 1]
        /\ \A s : InQueue(s) <=> InQueue(s)' \/ s = Head(queue)
        /\ \A s : s = Head(queue) => ~ InQueue(s)'
    BY <1>0, <2>1, Taken
  <2>3. Head(queue) \in Traces
    BY <1>0, <2>1
  <2>4. ~ InQueue(held)'
    BY <2>1, <2>2 DEF InQueue
  <2>5. \A i, j \in 1..Len(queue') : queue'[i] = queue'[j] => i = j
    BY <1>0, <2>2
  <2>6. \A t \in Traces : fate'[t] = "pending" <=> InQueue(t)' \/ held' = t
    BY <2>1, <2>2
  <2>7. CountersTellTheTruth'
    BY <1>0, <2>1, <2>2, <2>3
  <2> QED BY <2>1, <2>4, <2>5, <2>6, <2>7
<1>6. CASE SendCommit
  <2>1. /\ held \in Traces /\ fate[held] = "pending"
        /\ committing' = committing \cup {held}
        /\ UNCHANGED <<queue, held, depth, fate, rows>>
    BY <1>0, <1>6 DEF SendCommit
  <2>2. \A i \in 1..Len(queue) : queue[i] # held
    BY DEF InQueue
  <2> QED BY <2>1, <2>2 DEF InQueue
<1>7. ASSUME NEW t \in Traces, ServerCommits(t) PROVE InPlace'
  BY <1>7 DEF ServerCommits, InQueue
<1>8. ASSUME NEW l \in Labels \cup {"lost"}, l \notin DropReasons, Decide(held, l),
             l = "written" => held \in rows, held \in Traces, held' = NoTrace,
             depth' = Len(queue), UNCHANGED <<queue, committing, rows>>
      PROVE  InPlace'
  <2>1. /\ fate'[held] = l /\ l # "pending" /\ l # "unseen"
        /\ \A s \in Traces \ {held} : fate'[s] = fate[s]
    BY <1>0, <1>8 DEF Decide, Labels, FailureReasons
  <2>2. \A s : InQueue(s)' <=> InQueue(s)
    BY <1>8 DEF InQueue
  <2>3. ~ InQueue(NoTrace)
    BY <1>0 DEF InQueue
  <2> QED BY <1>0, <1>8, <2>1, <2>2, <2>3
<1>9. ASSUME NEW l \in Labels, l \notin DropReasons, FinishWrite(l),
             l = "written" => held \in rows
      PROVE  InPlace'
  BY <1>0, <1>8, <1>9 DEF FinishWrite
<1>10. CASE CancelWrite
  BY <1>0, <1>8, <1>10 DEF CancelWrite
<1>11. CASE Restart
  <2>1. /\ queue' = <<>> /\ held' = NoTrace /\ depth' = 0 /\ UNCHANGED <<committing, rows>>
        /\ fate' = [t \in Traces |-> IF fate[t] = "pending" THEN "lost" ELSE fate[t]]
    BY <1>11 DEF Restart
  <2> QED BY <1>0, <2>1 DEF InQueue
<1> QED
  BY <1>2, <1>3, <1>4, <1>5, <1>6, <1>7, <1>9, <1>10, <1>11
     DEF Next, WriteSucceeds, WriteFails, Labels, FailureReasons

THEOREM PlacesHold == Spec => []InPlace
<1>1. Init => Inv
  BY TypeInit, CountInit DEF Inv
<1>2. Inv /\ [Next]_vars => Inv'
  BY TypeStep, CountStep DEF Inv
<1> QED BY <1>1, <1>2, PlacesInit, PlacesStep, PTL DEF Spec

\* A pending trace is queued or in the worker's hand, and nowhere twice, for any
\* number of traces, queue slots and restarts (submit, _drain, aclose).
THEOREM PendingOnce == Spec => []PendingIsOnce
<1>1. InPlace => PendingIsOnce
  BY DEF InPlace
<1> QED BY <1>1, PlacesHold, PTL

\* What metrics.py says of its counters is so at every moment: written is
\* durable, dropped was never sent, and the gauge is right to within the trace
\* in the worker's hand.
THEOREM CountersTrue == Spec => []CountersTellTheTruth
<1>1. InPlace => CountersTellTheTruth
  BY DEF InPlace
<1> QED BY <1>1, PlacesHold, PTL
-----------------------------------------------------------------------------
(* Refinement.  Most steps move a trace within the writer and are invisible *)
(* to the ledger.  The rest need InPlace: that there is room to admit is a  *)
(* count of the places a pending trace can be in (Room), and that a late    *)
(* commit concerns no dropped trace is CountersTellTheTruth.                *)

Pending == {t \in Traces : fate[t] = "pending"}

\* The map from fates to entries tells apart all that the ledger does.
LEMMA EntryFacts ==
  /\ \A f \in DropReasons : Entry(f) = "dropped"
  /\ \A f \in FailureReasons : Entry(f) = "failed"
  /\ \A f \in {"unseen", "pending", "written", "lost"} : Entry(f) = f
BY DEF Entry, DropReasons, FailureReasons

\* What the ledger calls pending is what the writer has not decided.
LEMMA UnsettledIsPending ==
  ASSUME fate \in [Traces -> Fates]
  PROVE  Ledger!Unsettled = Pending
<1>1. ASSUME NEW t \in Traces PROVE Entry(fate[t]) = "pending" <=> fate[t] = "pending"
  BY EntryFacts DEF Fates, Labels, DropReasons, FailureReasons
<1> QED BY <1>1 DEF Ledger!Unsettled, Pending

\* A sequence has no more elements than places.
LEMMA ElementsBounded ==
  ASSUME NEW q \in Seq(Traces)
  PROVE  /\ IsFiniteSet({q[i] : i \in 1..Len(q)})
         /\ Cardinality({q[i] : i \in 1..Len(q)}) <= Len(q)
<1> DEFINE R == {q[i] : i \in 1..Len(q)}
           f == [i \in 1..Len(q) |-> q[i]]
<1>1. f \in Surjection(1..Len(q), R)
  BY DEF Surjection
<1>2. /\ IsFiniteSet(1..Len(q)) /\ Cardinality(1..Len(q)) = Len(q)
  <2>1. Len(q) \in Nat
    OBVIOUS
  <2>2. /\ IsFiniteSet(1..Len(q))
        /\ Cardinality(1..Len(q)) = IF 1 > Len(q) THEN 0 ELSE Len(q) - 1 + 1
    BY <2>1, FS_Interval
  <2> QED BY <2>1, <2>2
<1> HIDE DEF R, f
<1>3. IsFiniteSet(R) /\ Cardinality(R) <= Cardinality(1..Len(q))
  BY <1>1, <1>2, FS_Surjection
<1> QED BY <1>2, <1>3 DEF R

\* While submit() finds a free slot, fewer than QueueSize + 1 traces are
\* pending: a slot each, and the worker's hand.
LEMMA Room ==
  ASSUME Inv, InPlace, Len(queue) < QueueSize
  PROVE  Cardinality(Pending) < QueueSize + 1
<1> DEFINE R == {queue[i] : i \in 1..Len(queue)}
<1>0. queue \in Seq(Traces) /\ Len(queue) \in Nat
  BY DEF Inv, TypeInv, TypeOK
<1>1. IsFiniteSet(R) /\ Cardinality(R) <= Len(queue)
  BY <1>0, ElementsBounded
<1>2. /\ IsFiniteSet(R \cup {held})
      /\ Cardinality(R \cup {held}) = IF held \in R THEN Cardinality(R) ELSE Cardinality(R) + 1
  BY <1>1, FS_AddElement
<1>3. Pending \in SUBSET (R \cup {held})
  BY DEF Pending, InPlace, PendingIsOnce, InQueue
<1>4. Cardinality(Pending) <= Cardinality(R \cup {held}) /\ IsFiniteSet(Pending)
  BY <1>2, <1>3, FS_Subset
<1>5. /\ Cardinality(R) \in Nat /\ Cardinality(R \cup {held}) \in Nat
      /\ Cardinality(Pending) \in Nat
  BY <1>1, <1>2, <1>4, FS_CardinalityType
<1> QED BY QueueSizeAssumption, <1>0, <1>1, <1>2, <1>4, <1>5

LEMMA LedgerBegins == Init => Ledger!LedgerInit
BY EntryFacts DEF Init, Ledger!LedgerInit

\* Deciding the fate of one trace is marking its entry.
LEMMA DecideMarks ==
  ASSUME fate \in [Traces -> Fates], NEW t \in Traces, NEW f, Decide(t, f)
  PROVE  Ledger!Mark(t, Entry(f))
BY DEF Decide, Ledger!Mark

LEMMA LedgerSteps ==
  ASSUME Inv, InPlace, [Next]_vars
  PROVE  [Ledger!LedgerNext]_(Ledger!ledgerVars)
<1> DEFINE Step == [Ledger!LedgerNext]_(Ledger!ledgerVars)
<1>0. /\ fate \in [Traces -> Fates] /\ held \in Traces \cup {NoTrace}
      /\ worker = "write" <=> held # NoTrace
      /\ worker # "none" => pool = "open"
  BY DEF Inv, TypeInv, TypeOK, InHand, CountInv, WorkerHasPool
<1>1. ASSUME UNCHANGED <<fate, rows>> PROVE Step
  BY <1>1 DEF Ledger!ledgerVars
<1>2. CASE UNCHANGED vars
  BY <1>1, <1>2 DEF vars
<1>3. CASE \/ Start \/ OpenSucceeds \/ OpenFails \/ SendCommit
           \/ Aclose \/ CancelIdle \/ Reap \/ PoolCloses
  BY <1>1, <1>3 DEF Start, OpenSucceeds, OpenFails, SendCommit, Aclose, CancelIdle,
                    Reap, PoolCloses
<1>4. CASE Get
  BY <1>0, <1>1, <1>4 DEF Get
<1>5. ASSUME NEW t \in Traces, Submit(t) PROVE Step
  <2>1. fate[t] = "unseen" /\ Entry(fate[t]) = "unseen" /\ UNCHANGED rows
    BY <1>5, EntryFacts DEF Submit
  <2>2. CASE SubmitDisabled(t) \/ SubmitFull(t)
    <3>1. Decide(t, "disabled") \/ Decide(t, "queue_full")
      BY <2>2 DEF SubmitDisabled, SubmitFull
    <3>2. Ledger!Mark(t, "dropped")
      BY <1>0, <3>1, DecideMarks, EntryFacts DEF DropReasons
    <3>3. Ledger!Drop(t)
      BY <2>1, <3>2 DEF Ledger!Drop
    <3> QED BY <3>3 DEF Ledger!LedgerNext
  <2>3. CASE SubmitQueued(t)
    <3>1. Decide(t, "pending") /\ Len(queue) < QueueSize
      BY <2>3 DEF SubmitQueued
    <3>2. Ledger!Mark(t, "pending")
      BY <1>0, <3>1, DecideMarks, EntryFacts
    <3>3. Ledger!Cardinality(Ledger!Unsettled) < QueueSize + 1
      <4>1. Cardinality(Ledger!Unsettled) < QueueSize + 1
        BY <1>0, <3>1, Room, UnsettledIsPending
      <4> QED BY <4>1 DEF Ledger!Cardinality, Cardinality
    <3>4. Ledger!Admit(t)
      BY <2>1, <3>2, <3>3 DEF Ledger!Admit
    <3> QED BY <3>4 DEF Ledger!LedgerNext
  <2> QED BY <1>5, <2>2, <2>3 DEF Submit
<1>6. ASSUME NEW t \in Traces, ServerCommits(t) PROVE Step
  <2>1. t \in committing /\ t \notin rows /\ rows' = rows \cup {t} /\ UNCHANGED fate
    BY <1>6 DEF ServerCommits
  <2>2. fate[t] \notin {"unseen", "written"} \cup DropReasons
    BY <2>1 DEF InPlace, CountersTellTheTruth, Unsent
  <2>3. fate[t] \in {"pending", "lost"} \cup FailureReasons
    BY <1>0, <2>2 DEF Fates, Labels
  <2>4. Entry(fate[t]) \in {"pending", "failed", "lost"}
    BY <2>3, EntryFacts
  <2>5. Ledger!Store(t)
    BY <2>1, <2>4 DEF Ledger!Store
  <2> QED BY <2>5 DEF Ledger!LedgerNext
<1>7. ASSUME worker = "write"
      PROVE  held \in Traces /\ fate[held] = "pending" /\ Entry(fate[held]) = "pending"
  <2>1. held \in Traces
    BY <1>0, <1>7
  <2>2. fate[held] = "pending"
    BY <2>1 DEF InPlace, PendingIsOnce
  <2> QED BY <2>1, <2>2, EntryFacts
<1>8. CASE WriteSucceeds
  <2>1. worker = "write" /\ held \in rows /\ Decide(held, "written") /\ UNCHANGED rows
    BY <1>8 DEF WriteSucceeds, FinishWrite
  <2>2. Ledger!Mark(held, "written")
    BY <1>0, <1>7, <2>1, DecideMarks, EntryFacts
  <2>3. Ledger!Confirm(held)
    BY <1>7, <2>1, <2>2 DEF Ledger!Confirm
  <2> QED BY <1>7, <2>1, <2>3 DEF Ledger!LedgerNext
<1>9. ASSUME NEW reason \in FailureReasons, WriteFails(reason) PROVE Step
  <2>1. worker = "write" /\ Decide(held, reason) /\ UNCHANGED rows
    BY <1>9 DEF WriteFails, FinishWrite
  <2>2. Ledger!Mark(held, "failed")
    BY <1>0, <1>7, <2>1, DecideMarks, EntryFacts
  <2>3. Ledger!Fail(held)
    BY <1>7, <2>1, <2>2 DEF Ledger!Fail
  <2> QED BY <1>7, <2>1, <2>3 DEF Ledger!LedgerNext
<1>10. ASSUME NEW S, S \in SUBSET Pending, UNCHANGED rows,
              fate' = [t \in Traces |-> IF t \in S THEN "lost" ELSE fate[t]]
       PROVE  Step
  <2>1. CASE S = {}
    <3>1. fate' = fate
      BY <1>0, <1>10, <2>1
    <3> QED BY <1>1, <1>10, <3>1
  <2>2. CASE S # {}
    <3>1. \A t \in Traces : Entry(fate'[t]) = IF t \in S THEN "lost" ELSE Entry(fate[t])
      BY <1>10, EntryFacts
    <3>2. S \in SUBSET Ledger!Unsettled /\ S \in SUBSET Traces
      BY <1>0, <1>10, UnsettledIsPending DEF Pending
    <3>3. [t \in Traces |-> Entry(fate'[t])]
            = [t \in Traces |-> IF t \in S THEN "lost" ELSE [u \in Traces |-> Entry(fate[u])][t]]
      BY <3>1
    <3>4. Ledger!Lose(S)
      BY <1>10, <2>2, <3>2, <3>3 DEF Ledger!Lose
    <3> QED BY <3>2, <3>4 DEF Ledger!LedgerNext
  <2> QED BY <2>1, <2>2
<1>11. CASE CancelWrite
  <2>1. worker = "write" /\ Decide(held, "lost") /\ UNCHANGED rows
    BY <1>11 DEF CancelWrite
  <2>2. {held} \in SUBSET Pending
    BY <1>7, <2>1 DEF Pending
  <2>3. fate' = [t \in Traces |-> IF t \in {held} THEN "lost" ELSE fate[t]]
    BY <1>0, <2>1 DEF Decide
  <2> QED BY <1>10, <2>1, <2>2, <2>3
<1>12. CASE Restart
  <2>1. /\ fate' = [t \in Traces |-> IF fate[t] = "pending" THEN "lost" ELSE fate[t]]
        /\ UNCHANGED rows
    BY <1>12 DEF Restart
  <2>2. fate' = [t \in Traces |-> IF t \in Pending THEN "lost" ELSE fate[t]]
    BY <2>1 DEF Pending
  <2> QED BY <1>10, <2>1, <2>2
<1> QED BY <1>2, <1>3, <1>4, <1>5, <1>6, <1>8, <1>9, <1>11, <1>12 DEF Next

\* Counters, log and table, read through the history of fates, behave as the
\* ledger says they do: a trace is admitted or dropped at submit(), settled
\* once, and only an admitted one ever becomes a row (trace_store.py).
THEOREM Refinement == Spec => ImplementsLedger
<1>1. Init => Inv
  BY TypeInit, CountInit DEF Inv
<1>2. Inv /\ [Next]_vars => Inv'
  BY TypeStep, CountStep DEF Inv
<1>3. Inv /\ InPlace /\ [Next]_vars => [Ledger!LedgerNext]_(Ledger!ledgerVars)
  BY LedgerSteps
<1> QED
  BY <1>1, <1>2, <1>3, PlacesInit, PlacesStep, LedgerBegins, PTL
     DEF Spec, ImplementsLedger, Ledger!LedgerSpec
=============================================================================
