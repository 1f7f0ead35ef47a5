----------------------------- MODULE ChatRequest ----------------------------
(***************************************************************************)
(* What the rest of the api sees of a chat request: the states of          *)
(* ChatProxy that matter to the trace writer and to uvicorn.  A request is *)
(* refused, or begins; it gives up (502, or a client that left), or its    *)
(* upstream has said its last (drained) and the body then ends, which is   *)
(* the step that hands a trace to submit().                                *)
(***************************************************************************)
CONSTANT Requests

VARIABLE req

RequestStates == {"new", "active", "drained", "answered", "over"}

RequestTypeOK == req \in [Requests -> RequestStates]

RequestInit == req = [r \in Requests |-> "new"]

Become(r, s) == req' = [req EXCEPT ![r] = s]

Turn(r)   == req[r] = "new" /\ Become(r, "over")
Begin(r)  == req[r] = "new" /\ Become(r, "active")
Drain(r)  == req[r] = "active" /\ Become(r, "drained")
GiveUp(r) == req[r] \in {"active", "drained"} /\ Become(r, "over")
Answer(r) == req[r] = "drained" /\ Become(r, "answered")

RequestNext ==
  \E r \in Requests : Turn(r) \/ Begin(r) \/ Drain(r) \/ GiveUp(r) \/ Answer(r)

RequestSpec == RequestInit /\ [][RequestNext]_req
=============================================================================
