-------------------------- MODULE TraceStoreLedger --------------------------
(***************************************************************************)
(* TraceStore implements TraceLedger: the counters and the table, read     *)
(* through the history of each trace's fate.                               *)
(***************************************************************************)
EXTENDS TraceStore

Entry(f) ==
  CASE f \in DropReasons    -> "dropped"
    [] f \in FailureReasons -> "failed"
    [] OTHER                -> f

Ledger == INSTANCE TraceLedger WITH
            Capacity <- QueueSize + 1,
            entry    <- [t \in Traces |-> Entry(fate[t])],
            stored   <- rows

\* Every step of the writer is a step of the ledger or invisible to it: a
\* trace is admitted or dropped at submit(), settled once, and no more than
\* the queue and the worker's hand hold are unsettled.
ImplementsLedger == Ledger!LedgerSpec
=============================================================================
