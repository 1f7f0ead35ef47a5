------------------------------ MODULE ChatProxy -----------------------------
(***************************************************************************)
(* POST /chat/stream: chat_stream and its body() in api/app/main.py, the   *)
(* stream_chat generator in api/app/vllm_client.py that body() drains, and *)
(* the StreamAccumulator of api/app/tracing.py that it feeds.              *)
(*                                                                         *)
(* A line passes through three hands.  The generator yields it; body()     *)
(* hands it to the middleware's zero-length memory stream (log_requests is *)
(* a BaseHTTPMiddleware, so the route runs in a task of its own); the      *)
(* middleware sends it to the client.  Only when body() asks for the next  *)
(* line does the generator resume and the accumulator see the last one.    *)
(*                                                                         *)
(* The upstream (vLLM behind httpx) and the client are the environment:    *)
(* the upstream may refuse, answer with an error status, stream, break off *)
(* anywhere or fall silent; the client may leave at any moment.            *)
(***************************************************************************)
EXTENDS Naturals, Sequences, FiniteSets

CONSTANTS Requests,
          MaxLines    \* bound on upstream lines; max_tokens bounds them in the code

ASSUME MaxLinesAssumption == MaxLines \in Nat \ {0}

\* SSE lines, by what the accumulator and the client tell apart: the role-only
\* first chunk (or any line it cannot read), a chunk with a token, the chunk
\* with the last token and the finish_reason, a finish_reason on a chunk whose
\* content is empty, vLLM's in-stream error object, [DONE]; and _ERROR_EVENT,
\* which the proxy adds itself.
Upstream   == {"role", "text", "finish", "stop", "error", "done"}
ErrorEvent == "errevent"
Lines      == Upstream \cup {ErrorEvent}
Tokens     == {"text", "finish"}
Finishes   == {"finish", "stop"}

Reading  == {"connect", "status", "first", "body"}
Active   == Reading \cup {"yield"}
Terminal == {"refused", "failed", "end", "cancelled"}

VARIABLES
  pc,        \* the await the request's task is suspended at
  status,    \* HTTP status, 0 while undecided
  lines,     \* lines yielded so far
  handed,    \* how many of them body() has handed on
  sent,      \* how many the middleware has sent
  seen,      \* how many reached the client while it was connected
  client,    \* is the client connected?
  acc,       \* the StreamAccumulator
  trace      \* the trace given to submit(), as a set of at most one

proxyVars == <<pc, status, lines, handed, sent, seen, client, acc, trace>>

Accumulators == [text : Nat, finish : BOOLEAN]
Blank        == [text |-> 0, finish |-> FALSE]

ProxyTypeOK ==
  /\ pc \in [Requests -> {"new"} \cup Active \cup Terminal]
  /\ status \in [Requests -> {0, 200, 400, 502}]
  /\ lines \in [Requests -> Seq(Lines)]
  /\ handed \in [Requests -> Nat] /\ sent \in [Requests -> Nat]
  /\ seen \in [Requests -> Nat]
  /\ client \in [Requests -> BOOLEAN]
  /\ acc \in [Requests -> Accumulators]
  /\ trace \in [Requests -> SUBSET Accumulators]

ProxyInit ==
  /\ pc = [r \in Requests |-> "new"]
  /\ status = [r \in Requests |-> 0]
  /\ lines = [r \in Requests |-> <<>>]
  /\ handed = [r \in Requests |-> 0]
  /\ sent = [r \in Requests |-> 0]
  /\ seen = [r \in Requests |-> 0]
  /\ client = [r \in Requests |-> TRUE]
  /\ acc = [r \in Requests |-> Blank]
  /\ trace = [r \in Requests |-> {}]

Goto(r, l) == pc' = [pc EXCEPT ![r] = l]
Last(s)    == s[Len(s)]

\* StreamAccumulator.observe: [DONE] and unreadable lines are skipped, an
\* error object has no choices; a token adds its text and its logprob; a
\* finish_reason is kept once seen.
Observe(a, line) ==
  [text   |-> IF line \in Tokens THEN a.text + 1 ELSE a.text,
   finish |-> a.finish \/ line \in Finishes]

-----------------------------------------------------------------------------
(* Before the first line.                                                  *)

\* 401, 413 or 422: nothing is sent upstream.
Refuse(r) ==
  /\ pc[r] = "new"
  /\ Goto(r, "refused")
  /\ status' = [status EXCEPT ![r] = 400]
  /\ UNCHANGED <<lines, handed, sent, seen, client, acc, trace>>

\* The first anext(stream): the generator runs up to the upstream request.
Open(r) ==
  /\ pc[r] = "new"
  /\ Goto(r, "connect")
  /\ UNCHANGED <<status, lines, handed, sent, seen, client, acc, trace>>

\* UpstreamError or StopAsyncIteration out of the first anext: a 502.
BadGateway(r) ==
  /\ Goto(r, "failed")
  /\ status' = [status EXCEPT ![r] = 502]
  /\ UNCHANGED <<lines, handed, sent, seen, client, acc, trace>>

ConnectFails(r) == pc[r] = "connect" /\ BadGateway(r)

\* Response headers arrive: a 200 is read line by line, the body of any other
\* status is read whole for the error detail.
Headers(r) ==
  /\ pc[r] = "connect"
  /\ Goto(r, "first") \/ Goto(r, "status")
  /\ UNCHANGED <<status, lines, handed, sent, seen, client, acc, trace>>

ErrorStatus(r) == pc[r] = "status" /\ BadGateway(r)

\* Mutant: an empty stream is an empty answer.
EmptyStream_Accepts(r) ==
  /\ pc[r] = "first"
  /\ Goto(r, "end")
  /\ status' = [status EXCEPT ![r] = 200]
  /\ trace' = [trace EXCEPT ![r] = {acc[r]}]
  /\ UNCHANGED <<lines, handed, sent, seen, client, acc>>

\* The upstream closes a 200 without a single line.
EmptyStream(r) == pc[r] = "first" /\ BadGateway(r)

-----------------------------------------------------------------------------
(* Lines.                                                                  *)

\* The generator yields l.  The first item commits the response to 200.
Yield(r, l) ==
  /\ lines' = [lines EXCEPT ![r] = Append(@, l)]
  /\ status' = [status EXCEPT ![r] = 200]
  /\ Goto(r, "yield")
  /\ UNCHANGED <<handed, sent, seen, client, acc, trace>>

\* vLLM's order: a role chunk, text, then a finish_reason or an error, [DONE].
Follows(l, s) ==
  IF s = <<>> THEN l \in {"role", "error"}
  ELSE CASE Last(s) \in {"role", "text"} -> l \in {"text", "error"} \cup Finishes
         [] Last(s) \in {"error"} \cup Finishes -> l = "done"
         [] OTHER -> FALSE

LineArrives(r) ==
  /\ pc[r] \in {"first", "body"}
  /\ Len(lines[r]) < MaxLines
  /\ \E l \in Upstream : Follows(l, lines[r]) /\ Yield(r, l)

\* Mutant: the failure is logged and the stream just ends.
Breaks_Silent(r) ==
  /\ pc[r] \in Reading
  /\ Goto(r, "end")
  /\ trace' = [trace EXCEPT ![r] = {acc[r]}]
  /\ status' = [status EXCEPT ![r] = 200]
  /\ UNCHANGED <<lines, handed, sent, seen, client, acc>>

\* Any httpx error that is not a connect error, at any await on the upstream:
\* sending the request, waiting for headers, reading an error body or a line.
Breaks(r) ==
  /\ pc[r] \in Reading
  /\ Yield(r, ErrorEvent)

\* The stream is exhausted: submit(accumulator.build(...)), and the body ends.
Finish(r, a) ==
  /\ trace' = [trace EXCEPT ![r] = {a}]
  /\ Goto(r, "end")

\* Mutant: a line is observed when its successor is taken, so the last one
\* before the end is never observed.
HandOn_Forgets(r) ==
  /\ pc[r] = "yield" /\ handed[r] = sent[r]
  /\ handed' = [handed EXCEPT ![r] = @ + 1]
  /\ IF Last(lines[r]) = ErrorEvent
     THEN Finish(r, acc[r]) /\ UNCHANGED acc
     ELSE /\ Goto(r, "body")
          /\ acc' = [acc EXCEPT ![r] =
                       IF handed[r] = 0 THEN @ ELSE Observe(@, lines[r][handed[r]])]
          /\ UNCHANGED trace
  /\ UNCHANGED <<status, lines, sent, seen, client>>

\* The middleware takes the line; body() asks for the next one, so the
\* generator resumes: after a line it observes it and reads on, after the
\* error event it ends.
HandOn(r) ==
  /\ pc[r] = "yield" /\ handed[r] = sent[r]
  /\ handed' = [handed EXCEPT ![r] = @ + 1]
  /\ IF Last(lines[r]) = ErrorEvent
     THEN Finish(r, acc[r]) /\ UNCHANGED acc
     ELSE /\ Goto(r, "body")
          /\ acc' = [acc EXCEPT ![r] = Observe(@, Last(lines[r]))]
          /\ UNCHANGED trace
  /\ UNCHANGED <<status, lines, sent, seen, client>>

\* The upstream ends its response after [DONE].
EndOfStream(r) ==
  /\ pc[r] = "body" /\ Last(lines[r]) = "done"
  /\ Finish(r, acc[r])
  /\ UNCHANGED <<status, lines, handed, sent, seen, client, acc>>

\* Mutant: a line is held back until the response is complete.
Send_Buffers(r) ==
  /\ sent[r] < handed[r] /\ pc[r] = "end"
  /\ sent' = [sent EXCEPT ![r] = @ + 1]
  /\ seen' = [seen EXCEPT ![r] = IF client[r] THEN @ + 1 ELSE @]
  /\ UNCHANGED <<pc, status, lines, handed, client, acc, trace>>

\* The middleware sends a line it has taken; a line for a client that has left
\* is dropped by the server.
Send(r) ==
  /\ sent[r] < handed[r]
  /\ sent' = [sent EXCEPT ![r] = @ + 1]
  /\ seen' = [seen EXCEPT ![r] = IF client[r] THEN @ + 1 ELSE @]
  /\ UNCHANGED <<pc, status, lines, handed, client, acc, trace>>

-----------------------------------------------------------------------------
(* The client leaves.  Before the response has started nothing notices;    *)
(* once it has, the response's disconnect listener cancels the task that   *)
(* runs body(), closing both generators wherever they are.                 *)

Disconnect(r) ==
  /\ client[r]
  /\ client' = [client EXCEPT ![r] = FALSE]
  /\ UNCHANGED <<pc, status, lines, handed, sent, seen, acc, trace>>

\* Mutant: the submission is in a finally block.
Cancel_Submits(r) ==
  /\ ~ client[r] /\ status[r] = 200 /\ pc[r] \in {"yield", "body"}
  /\ Goto(r, "cancelled")
  /\ trace' = [trace EXCEPT ![r] = {acc[r]}]
  /\ UNCHANGED <<status, lines, handed, sent, seen, client, acc>>

\* Mutant: only a task waiting to hand a line on notices the disconnect.
Cancel_OnSend(r) ==
  /\ ~ client[r] /\ status[r] = 200 /\ pc[r] = "yield"
  /\ Goto(r, "cancelled")
  /\ UNCHANGED <<status, lines, handed, sent, seen, client, acc, trace>>

Cancel(r) ==
  /\ ~ client[r] /\ status[r] = 200 /\ pc[r] \in {"yield", "body"}
  /\ Goto(r, "cancelled")
  /\ UNCHANGED <<status, lines, handed, sent, seen, client, acc, trace>>

-----------------------------------------------------------------------------
UpstreamStep(r) ==
  \/ ConnectFails(r) \/ Headers(r) \/ ErrorStatus(r) \/ EmptyStream(r)
  \/ LineArrives(r) \/ Breaks(r) \/ EndOfStream(r)

ProxyStep(r) == Refuse(r) \/ Open(r) \/ HandOn(r) \/ Send(r) \/ Cancel(r)

ProxyNext == \E r \in Requests : UpstreamStep(r) \/ ProxyStep(r) \/ Disconnect(r)

ProxySpec == ProxyInit /\ [][ProxyNext]_proxyVars

\* The event loop runs what is ready, and the client reads what it is sent or
\* leaves.  Nothing the upstream does is certain: read = None, so an upstream
\* that accepts the request may stay silent for ever.
ProxyFairness ==
  \A r \in Requests :
    /\ WF_proxyVars(Refuse(r) \/ Open(r))
    /\ WF_proxyVars(HandOn(r)) /\ WF_proxyVars(Send(r)) /\ WF_proxyVars(Cancel(r))

ProxyFairSpec == ProxySpec /\ ProxyFairness

\* An upstream that never falls silent: assumed by the property that needs it.
UpstreamAnswers == \A r \in Requests : WF_proxyVars(UpstreamStep(r))

-----------------------------------------------------------------------------
(* Safety.                                                                 *)

\* What an accumulator holds after the first n lines of s.
Summary(s, n) ==
  [text   |-> Cardinality({i \in 1..n : s[i] \in Tokens}),
   finish |-> \E i \in 1..n : s[i] \in Finishes]

\* A line is observed only once the middleware has it, and no line is observed
\* twice or skipped, so tracing costs no latency and no text
\* (vllm_client.py:99-104, tracing.py:94-97).
ObservedIsHanded ==
  \A r \in Requests :
    /\ acc[r] = Summary(lines[r], handed[r])
    /\ handed[r] \in {Len(lines[r]), Len(lines[r]) - 1}
    /\ sent[r] <= handed[r] /\ handed[r] <= sent[r] + 1

\* A submitted trace is the whole of what the proxy yielded, and a request
\* that was refused, failed or cancelled submits none.
TraceIsWhole ==
  \A r \in Requests :
    /\ trace[r] # {} <=> pc[r] = "end"
    /\ trace[r] \subseteq {Summary(lines[r], Len(lines[r]))}

\* The client is always told (docs/architecture.md: "never hang, never fail
\* silently"): a 502 or a refusal carries no line, a response that has started is
\* a 200, and it ends with [DONE] or an error event.
EndsLoudly ==
  \A r \in Requests :
    /\ status[r] \in {400, 502} => lines[r] = <<>> /\ pc[r] \in {"refused", "failed"}
    /\ lines[r] # <<>> <=> status[r] = 200
    /\ pc[r] = "end" => /\ lines[r] # <<>>
                        /\ Last(lines[r]) \in {"done", ErrorEvent}

-----------------------------------------------------------------------------
(* Refinement.                                                             *)

Drained(r) == /\ lines[r] # <<>>
              /\ Last(lines[r]) \in {"done", ErrorEvent}

RequestState(r) ==
  CASE pc[r] = "new" -> "new"
    [] pc[r] = "end" -> "answered"
    [] pc[r] \in {"refused", "failed", "cancelled"} -> "over"
    [] pc[r] \in Active -> IF Drained(r) THEN "drained" ELSE "active"

Request == INSTANCE ChatRequest WITH req <- [r \in Requests |-> RequestState(r)]

\* Seen from outside, a request is refused or begins, gives up or is drained,
\* and only a drained one is answered: body() never ends, and no trace is
\* submitted, before [DONE] or the error event has been yielded.
ImplementsRequest == Request!RequestSpec

-----------------------------------------------------------------------------
(* Liveness.                                                               *)

\* A client that leaves after its response has started releases the request
\* and the upstream connection, even if the upstream is silent.
DisconnectReleases ==
  \A r \in Requests : (~ client[r] /\ status[r] = 200) ~> pc[r] \in Terminal

\* With an upstream that keeps answering, every request ends, and a client that
\* stays gets every line of a response that has ended.
RequestsEnd ==
  UpstreamAnswers => \A r \in Requests :
    /\ pc[r] \in Active ~> pc[r] \in Terminal
    /\ pc[r] = "end" ~> (~ client[r] \/ seen[r] = Len(lines[r]))

-----------------------------------------------------------------------------
(* What the documentation says and the code does not do.                   *)

\* main.py:185-188, submission is "reached only on a clean end of stream" and
\* a response "with no finish_reason, is not a training example".
TracedIsFinished ==
  \A r \in Requests : \A t \in trace[r] : t.finish
=============================================================================
