---------------------------- MODULE StreamClient ----------------------------
(***************************************************************************)
(* one_request() of bench/bench_stream.py and of scripts/loadtest.py: a    *)
(* thread that sends one request to the gateway, or to vLLM, and reads the *)
(* stream to its end.                                                      *)
(*                                                                         *)
(* The server refuses, or answers 200 and streams: data chunks, each with  *)
(* some number of tokens (none without logprobs), then [DONE] or, from the *)
(* gateway, an error event, then the end of the body.  At any point the    *)
(* read may raise, and at any point the body may just end: urllib takes a  *)
(* connection that closes between two chunks for the end of the body, and  *)
(* one_request() does not look for [DONE].                                 *)
(***************************************************************************)
EXTENDS Naturals

CONSTANTS Threads,
          MaxChunks,   \* bound on the data chunks of a response
          ChunkTokens, \* the numbers of tokens a chunk may carry
          Latencies    \* the durations a request may take

ASSUME AnswersAssumption == ChunkTokens \subseteq Nat /\ Latencies \subseteq Nat

VARIABLES
  at,    \* where each thread is
  got    \* what it has read: data chunks, tokens, the last word, the time taken

clientVars == <<at, got>>

Returned == {"ok", "failed"}
InFlight == {"sent", "reading"} \cup Returned
Places   == {"new", "recorded", "over"} \cup InFlight

Nothing == [chunks |-> 0, tokens |-> 0, said |-> "nothing", total |-> 0]

ClientInit == at = [t \in Threads |-> "new"] /\ got = [t \in Threads |-> Nothing]

MoveTo(t, p) == at' = [at EXCEPT ![t] = p]

\* The thread is started and sends its request.
Send(t) == at[t] = "new" /\ MoveTo(t, "sent") /\ UNCHANGED got

\* An HTTPError, or no connection.
HttpError(t) == at[t] = "sent" /\ MoveTo(t, "failed") /\ UNCHANGED got

Headers(t) == at[t] = "sent" /\ MoveTo(t, "reading") /\ UNCHANGED got

Reads(t) == at[t] = "reading" /\ got[t].said = "nothing"

DataChunk(t, n) ==
  /\ Reads(t) /\ got[t].chunks < MaxChunks
  /\ got' = [got EXCEPT ![t].chunks = @ + 1, ![t].tokens = @ + n]
  /\ UNCHANGED at

\* To the client an error event is a data chunk without tokens.
ErrorEvent(t) ==
  /\ Reads(t)
  /\ got' = [got EXCEPT ![t].chunks = @ + 1, ![t].said = "error"]
  /\ UNCHANGED at

DoneLine(t) ==
  /\ Reads(t)
  /\ got' = [got EXCEPT ![t].said = "done"]
  /\ UNCHANGED at

\* The loop over the response ends, wherever the response had come to.
BodyEnds(t, d) ==
  /\ at[t] = "reading"
  /\ got' = [got EXCEPT ![t].total = d]
  /\ MoveTo(t, "ok")

\* A reset, an incomplete body, a timeout: any exception.
Breaks(t) == at[t] = "reading" /\ MoveTo(t, "failed") /\ UNCHANGED got

ClientStep(t) ==
  \/ HttpError(t) \/ Headers(t)
  \/ \E n \in ChunkTokens : DataChunk(t, n)
  \/ ErrorEvent(t) \/ DoneLine(t)
  \/ \E d \in Latencies : BodyEnds(t, d)
  \/ Breaks(t)
=============================================================================
