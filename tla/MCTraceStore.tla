---------------------------- MODULE MCTraceStore ----------------------------
(***************************************************************************)
(* TraceStore on small instances: one trace more than the queue's slots    *)
(* and the worker's hand can hold, so that submissions find both taken;    *)
(* one restart separates what is durable from what is not.                 *)
(***************************************************************************)
EXTENDS TraceStoreLedger
=============================================================================
