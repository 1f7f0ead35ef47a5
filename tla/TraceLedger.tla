---------------------------- MODULE TraceLedger -----------------------------
(***************************************************************************)
(* What the trace writer promises its two readers, the Grafana panels and  *)
(* the curation query over the traces table, with no queue, worker, pool   *)
(* or shutdown in sight (docs/trace-store.md).                             *)
(*                                                                         *)
(* A trace is admitted or dropped the moment it is submitted.  An admitted *)
(* trace is settled once: written, failed, or lost with the process.  Only *)
(* an admitted trace can ever become a row; a written one already is; a    *)
(* failed or a lost one may be a row, or become one late.  At most         *)
(* Capacity admitted traces are unsettled, so the loss at a crash is       *)
(* bounded.                                                                *)
(***************************************************************************)
EXTENDS Naturals, FiniteSets

CONSTANTS Traces, Capacity

VARIABLES entry,    \* what the counters and the log say of each trace
          stored    \* the rows of the traces table

ledgerVars == <<entry, stored>>

Entries == {"unseen", "dropped", "pending", "written", "failed", "lost"}

LedgerTypeOK == entry \in [Traces -> Entries] /\ stored \in SUBSET Traces

Unsettled == {t \in Traces : entry[t] = "pending"}

LedgerInit == entry = [t \in Traces |-> "unseen"] /\ stored = {}

Mark(t, e) == entry' = [entry EXCEPT ![t] = e]

Admit(t) ==
  /\ entry[t] = "unseen"
  /\ Cardinality(Unsettled) < Capacity
  /\ Mark(t, "pending")
  /\ UNCHANGED stored

Drop(t) ==
  /\ entry[t] = "unseen"
  /\ Mark(t, "dropped")
  /\ UNCHANGED stored

Confirm(t) ==
  /\ entry[t] = "pending" /\ t \in stored
  /\ Mark(t, "written")
  /\ UNCHANGED stored

Fail(t) ==
  /\ entry[t] = "pending"
  /\ Mark(t, "failed")
  /\ UNCHANGED stored

\* One trace at a shutdown, every pending one when the process dies.
Lose(S) ==
  /\ S # {} /\ S \subseteq Unsettled
  /\ entry' = [t \in Traces |-> IF t \in S THEN "lost" ELSE entry[t]]
  /\ UNCHANGED stored

Store(t) ==
  /\ entry[t] \in {"pending", "failed", "lost"} /\ t \notin stored
  /\ stored' = stored \cup {t}
  /\ UNCHANGED entry

LedgerNext ==
  \/ \E t \in Traces : \/ Admit(t) \/ Drop(t) \/ Confirm(t)
                       \/ Fail(t) \/ Store(t)
  \/ \E S \in SUBSET Traces : Lose(S)

LedgerSpec == LedgerInit /\ [][LedgerNext]_ledgerVars
=============================================================================
