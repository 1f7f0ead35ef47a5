--------------------------- MODULE ChatProxyProofs --------------------------
(***************************************************************************)
(* Proofs about ChatProxy and about ChatSession, which drives one of its   *)
(* requests, for any set of requests and any bound on the lines of a       *)
(* response, on the window of the history and on the prompts of a session. *)
(*                                                                         *)
(* A step of the proxy touches one request (Others), so the invariant is   *)
(* one of each request by itself (Sound): what its status, its lines, its  *)
(* accumulator and its trace are follows from where its task is.  Counting *)
(* text needs two facts about Summary: a line that is yielded does not     *)
(* change what is said of those before it, and one more observed line adds *)
(* itself.                                                                 *)
(*                                                                         *)
(* A session sees of all this only a prefix of the lines (Reads), and the  *)
(* history it posts is a window of messages that its later steps may pop   *)
(* or outgrow; Posts says of that window what can still be said of it from *)
(* the messages the session has now, by how its last prompt ended.         *)
(***************************************************************************)
EXTENDS ChatSession, FiniteSetTheorems, SequenceTheorems, TLAPS

USE MaxLinesAssumption

-----------------------------------------------------------------------------
(* Summaries.                                                              *)

Counted(s, n) == {i \in 1..n : s[i] \in Tokens}

LEMMA CountedFinite ==
  ASSUME NEW s, NEW n \in Nat
  PROVE  IsFiniteSet(Counted(s, n)) /\ Cardinality(Counted(s, n)) \in Nat
<1>1. IsFiniteSet(1..n)
  BY FS_Interval
<1>2. Counted(s, n) \in SUBSET (1..n)
  BY DEF Counted
<1> QED BY <1>1, <1>2, FS_Subset, FS_CardinalityType

\* Lines that agree up to n have the same summary of n lines.
LEMMA SummaryOfPrefix ==
  ASSUME NEW s, NEW t, NEW n \in Nat, \A i \in 1..n : s[i] = t[i]
  PROVE  Summary(s, n) = Summary(t, n)
BY DEF Summary

\* Observing a line is summing up one line more.
LEMMA SummaryOfNext ==
  ASSUME NEW s, NEW n \in Nat
  PROVE  Summary(s, n + 1) = Observe(Summary(s, n), s[n + 1])
<1>1. /\ Counted(s, n + 1) = IF s[n + 1] \in Tokens THEN Counted(s, n) \cup {n + 1}
                                                    ELSE Counted(s, n)
      /\ n + 1 \notin Counted(s, n)
  BY DEF Counted
<1>2. Cardinality(Counted(s, n + 1))
        = IF s[n + 1] \in Tokens THEN Cardinality(Counted(s, n)) + 1
                                 ELSE Cardinality(Counted(s, n))
  BY <1>1, CountedFinite, FS_AddElement
<1>3. (\E i \in 1..(n + 1) : s[i] \in Finishes)
        <=> (\E i \in 1..n : s[i] \in Finishes) \/ s[n + 1] \in Finishes
  <2>1. 1..(n + 1) = (1..n) \cup {n + 1}
    OBVIOUS
  <2> QED BY <2>1
<1> DEFINE c(m) == Cardinality(Counted(s, m))
           e(m) == \E i \in 1..m : s[i] \in Finishes
<1>4. \A m : Summary(s, m) = [text |-> c(m), finish |-> e(m)]
  BY DEF Summary, Counted
<1>5. e(n + 1) = (e(n) \/ s[n + 1] \in Finishes)
  BY <1>3
<1> HIDE DEF c, e
<1>6. Observe(Summary(s, n), s[n + 1])
        = [text |-> IF s[n + 1] \in Tokens THEN c(n) + 1 ELSE c(n),
           finish |-> e(n) \/ s[n + 1] \in Finishes]
  BY <1>4 DEF Observe
<1> QED BY <1>2, <1>4, <1>5, <1>6 DEF c

LEMMA SummaryType ==
  ASSUME NEW s, NEW n \in Nat
  PROVE  Summary(s, n) \in Accumulators
BY CountedFinite DEF Summary, Counted, Accumulators

LEMMA SummaryOfNone == ASSUME NEW s PROVE Summary(s, 0) = Blank
<1>1. {i \in 1..0 : s[i] \in Tokens} = {} /\ ~ \E i \in 1..0 : s[i] \in Finishes
  OBVIOUS
<1> QED BY <1>1, FS_EmptySet DEF Summary, Blank

-----------------------------------------------------------------------------
(* The invariant.                                                          *)

Silent == {"new", "connect", "status", "first"}

\* What the status and the lines of a request are, by where its task is.
StatusFits(p, code, ls) ==
  /\ p \in Silent => code = 0 /\ ls = <<>>
  /\ p = "refused" => code = 400 /\ ls = <<>>
  /\ p = "failed" => code = 502 /\ ls = <<>>
  /\ p \in {"yield", "body", "end", "cancelled"} => code = 200 /\ ls # <<>>

\* The line just yielded is the only one not yet handed on, and the accumulator
\* knows of those that are.
LinesFit(p, ls, h, n, a) ==
  /\ h \in {Len(ls), Len(ls) - 1}
  /\ p = "yield" => h = Len(ls) - 1
  /\ p \in {"body", "end"} => h = Len(ls)
  /\ p \in Silent => h = 0
  /\ n <= h /\ h <= n + 1
  /\ a = Summary(ls, h)

\* A stream ends after [DONE] or the error event, after which nothing is read.
EndFits(p, ls, t) ==
  /\ p = "body" => Last(ls) # ErrorEvent
  /\ p = "end" => Last(ls) \in {"done", ErrorEvent}
  /\ t = IF p = "end" THEN {Summary(ls, Len(ls))} ELSE {}

Sound(r) == /\ StatusFits(pc[r], status[r], lines[r])
            /\ LinesFit(pc[r], lines[r], handed[r], sent[r], acc[r])
            /\ EndFits(pc[r], lines[r], trace[r])
ProxyInv  == ProxyTypeOK /\ \A r \in Requests : Sound(r)

Step(r) == UpstreamStep(r) \/ ProxyStep(r) \/ Disconnect(r)

LEMMA ProxyTypeInit == ProxyInit => ProxyTypeOK
BY DEF ProxyInit, ProxyTypeOK, Accumulators, Blank

\* What an action does to the lines, when it does anything to them.
LEMMA YieldType ==
  ASSUME ProxyTypeOK, NEW r \in Requests, NEW l \in Lines, Yield(r, l)
  PROVE  ProxyTypeOK'
<1>1. lines' \in [Requests -> Seq(Lines)]
  BY DEF ProxyTypeOK, Yield
<1>2. pc' \in [Requests -> {"new"} \cup Active \cup Terminal]
  BY DEF ProxyTypeOK, Yield, Goto, Active
<1>3. status' \in [Requests -> {0, 200, 400, 502}]
  BY DEF ProxyTypeOK, Yield
<1> QED BY <1>1, <1>2, <1>3 DEF ProxyTypeOK, Yield

Places == {"new"} \cup Active \cup Terminal

\* Going somewhere, and with what a stream that ends leaves behind.
LEMMA GotoType ==
  ASSUME ProxyTypeOK, NEW r \in Requests, NEW p \in Places, Goto(r, p)
  PROVE  pc' \in [Requests -> Places] /\ pc'[r] = p
         /\ \A s \in Requests \ {r} : pc'[s] = pc[s]
BY DEF ProxyTypeOK, Goto, Places

LEMMA FinishType ==
  ASSUME ProxyTypeOK, NEW r \in Requests, Finish(r, acc[r])
  PROVE  /\ pc' \in [Requests -> Places] /\ pc'[r] = "end"
         /\ \A s \in Requests \ {r} : pc'[s] = pc[s]
         /\ trace' \in [Requests -> SUBSET Accumulators] /\ trace'[r] = {acc[r]}
         /\ \A s \in Requests \ {r} : trace'[s] = trace[s]
<1>1. Goto(r, "end") /\ "end" \in Places /\ trace' = [trace EXCEPT ![r] = {acc[r]}]
  BY DEF Finish, Places, Terminal
<1>2. {acc[r]} \in SUBSET Accumulators
  BY DEF ProxyTypeOK
<1>3. /\ trace' \in [Requests -> SUBSET Accumulators] /\ trace'[r] = {acc[r]}
      /\ \A s \in Requests \ {r} : trace'[s] = trace[s]
  BY <1>1, <1>2 DEF ProxyTypeOK
<1> QED BY <1>1, <1>3, GotoType

LEMMA ProxyTypeStep ==
  ASSUME ProxyTypeOK, NEW r \in Requests, Step(r)
  PROVE  ProxyTypeOK'
<1>1. ASSUME NEW p \in Places, Goto(r, p),
             UNCHANGED <<lines, handed, sent, seen, acc, trace>>,
             status' \in [Requests -> {0, 200, 400, 502}],
             client' \in [Requests -> BOOLEAN]
      PROVE  ProxyTypeOK'
  <2>1. pc' \in [Requests -> Places]
    BY <1>1, GotoType
  <2> QED BY <1>1, <2>1 DEF ProxyTypeOK, Places
<1>2. CASE Refuse(r)
  <2>1. status' \in [Requests -> {0, 200, 400, 502}]
    BY <1>2 DEF Refuse, ProxyTypeOK
  <2> QED BY <1>1, <1>2, <2>1 DEF Refuse, Places, Terminal, ProxyTypeOK
<1>3. CASE Open(r) \/ Headers(r) \/ Cancel(r)
  <2>1. PICK p \in Places : Goto(r, p)
    BY <1>3 DEF Open, Headers, Cancel, Places, Active, Reading, Terminal
  <2>2. UNCHANGED <<status, lines, handed, sent, seen, client, acc, trace>>
    BY <1>3 DEF Open, Headers, Cancel
  <2> QED BY <1>1, <2>1, <2>2 DEF ProxyTypeOK
<1>4. CASE ConnectFails(r) \/ ErrorStatus(r) \/ EmptyStream(r)
  <2>1. BadGateway(r)
    BY <1>4 DEF ConnectFails, ErrorStatus, EmptyStream
  <2>2. status' \in [Requests -> {0, 200, 400, 502}]
    BY <2>1 DEF BadGateway, ProxyTypeOK
  <2> QED BY <1>1, <2>1, <2>2 DEF BadGateway, Places, Terminal, ProxyTypeOK
<1>5. CASE Disconnect(r)
  <2>1. client' \in [Requests -> BOOLEAN]
    BY <1>5 DEF Disconnect, ProxyTypeOK
  <2> QED BY <1>5, <2>1 DEF Disconnect, ProxyTypeOK
<1>6. CASE LineArrives(r) \/ Breaks(r)
  <2>1. \E l \in Lines : Yield(r, l)
    BY <1>6 DEF LineArrives, Breaks, Lines
  <2> QED BY <2>1, YieldType
<1>7. CASE HandOn(r)
  <2>1. handed' \in [Requests -> Nat]
    BY <1>7 DEF HandOn, ProxyTypeOK
  <2>2. CASE Finish(r, acc[r]) /\ UNCHANGED acc
    BY <1>7, <2>1, <2>2, FinishType DEF HandOn, ProxyTypeOK, Places
  <2>3. CASE /\ Goto(r, "body") /\ UNCHANGED trace
             /\ acc' = [acc EXCEPT ![r] = Observe(@, Last(lines[r]))]
    <3>1. acc[r] \in Accumulators /\ Observe(acc[r], Last(lines[r])) \in Accumulators
      BY DEF Accumulators, Observe, ProxyTypeOK
    <3>2. acc' \in [Requests -> Accumulators]
      BY <2>3, <3>1 DEF ProxyTypeOK
    <3>3. pc' \in [Requests -> Places]
      BY <2>3, GotoType DEF Places, Active, Reading
    <3> QED BY <1>7, <2>1, <2>3, <3>2, <3>3 DEF HandOn, ProxyTypeOK, Places
  <2> QED BY <1>7, <2>2, <2>3 DEF HandOn
<1>8. CASE EndOfStream(r)
  BY <1>8, FinishType DEF EndOfStream, ProxyTypeOK, Places
<1>9. CASE Send(r)
  <2>1. sent' \in [Requests -> Nat] /\ seen' \in [Requests -> Nat]
    BY <1>9 DEF Send, ProxyTypeOK
  <2> QED BY <1>9, <2>1 DEF Send, ProxyTypeOK
<1> QED BY <1>2, <1>3, <1>4, <1>5, <1>6, <1>7, <1>8, <1>9 DEF Step, UpstreamStep, ProxyStep

\* A step of one request leaves every other one as it was.
LEMMA Others ==
  ASSUME ProxyTypeOK, NEW r \in Requests, Step(r), NEW s \in Requests \ {r}
  PROVE  /\ pc'[s] = pc[s] /\ status'[s] = status[s] /\ lines'[s] = lines[s]
         /\ handed'[s] = handed[s] /\ sent'[s] = sent[s] /\ seen'[s] = seen[s]
         /\ client'[s] = client[s] /\ acc'[s] = acc[s] /\ trace'[s] = trace[s]
<1> USE DEF ProxyTypeOK, Goto
<1>1. CASE Refuse(r) \/ Open(r) \/ Headers(r) \/ Disconnect(r) \/ Cancel(r)
  BY <1>1 DEF Refuse, Open, Headers, Disconnect, Cancel
<1>2. CASE ConnectFails(r) \/ ErrorStatus(r) \/ EmptyStream(r)
  BY <1>2 DEF ConnectFails, ErrorStatus, EmptyStream, BadGateway
<1>3. CASE LineArrives(r) \/ Breaks(r)
  BY <1>3 DEF LineArrives, Breaks, Yield
<1>4. CASE HandOn(r)
  BY <1>4 DEF HandOn, Finish
<1>5. CASE EndOfStream(r) \/ Send(r)
  BY <1>5 DEF EndOfStream, Finish, Send
<1> QED BY <1>1, <1>2, <1>3, <1>4, <1>5 DEF Step, UpstreamStep, ProxyStep

LEMMA SoundInit == ProxyInit => \A r \in Requests : Sound(r)
BY SummaryOfNone DEF ProxyInit, Sound, StatusFits, LinesFit, EndFits, Silent

\* A line is yielded when all before it have been handed on.
LEMMA YieldSound ==
  ASSUME ProxyInv, NEW r \in Requests, NEW l \in Lines, Yield(r, l), pc[r] \in Reading
  PROVE  Sound(r)'
<1>0. lines[r] \in Seq(Lines) /\ handed[r] \in Nat /\ sent[r] \in Nat
  BY DEF ProxyInv, ProxyTypeOK
<1>1. /\ handed[r] = Len(lines[r])
      /\ sent[r] <= handed[r] /\ handed[r] <= sent[r] + 1
      /\ acc[r] = Summary(lines[r], handed[r]) /\ trace[r] = {}
  <2>1. pc[r] \in Silent \/ pc[r] = "body"
    BY DEF Silent, Reading
  <2>2. /\ StatusFits(pc[r], status[r], lines[r])
        /\ LinesFit(pc[r], lines[r], handed[r], sent[r], acc[r])
        /\ EndFits(pc[r], lines[r], trace[r])
    BY DEF ProxyInv, Sound
  <2>3. pc[r] # "end"
    BY DEF Reading
  <2>4. handed[r] = Len(lines[r])
    BY <1>0, <2>1, <2>2 DEF StatusFits, LinesFit
  <2> QED BY <2>2, <2>3, <2>4 DEF LinesFit, EndFits
<1>2. /\ lines'[r] = Append(lines[r], l) /\ status'[r] = 200 /\ pc'[r] = "yield"
      /\ UNCHANGED <<handed, sent, acc, trace>>
  BY DEF ProxyInv, ProxyTypeOK, Yield, Goto
<1>3. /\ Len(lines'[r]) = Len(lines[r]) + 1 /\ lines'[r] # <<>>
      /\ \A i \in 1..handed[r] : lines'[r][i] = lines[r][i]
  BY <1>0, <1>1, <1>2
<1>4. Summary(lines'[r], handed[r]) = Summary(lines[r], handed[r])
  BY <1>0, <1>3, SummaryOfPrefix
<1>5. StatusFits(pc'[r], status'[r], lines'[r])
  BY <1>2, <1>3 DEF StatusFits, Silent
<1>6. LinesFit(pc'[r], lines'[r], handed'[r], sent'[r], acc'[r])
  BY <1>0, <1>1, <1>2, <1>3, <1>4 DEF LinesFit, Silent
<1>7. EndFits(pc'[r], lines'[r], trace'[r])
  BY <1>1, <1>2 DEF EndFits
<1> QED BY <1>5, <1>6, <1>7 DEF Sound

\* After the error event the generator ends; any other line is observed.
LEMMA HandOnSound ==
  ASSUME ProxyInv, NEW r \in Requests, HandOn(r)
  PROVE  Sound(r)'
<1> DEFINE n == handed[r]
           s == lines[r]
<1>0. /\ s \in Seq(Lines) /\ n \in Nat /\ sent[r] \in Nat /\ s # <<>> /\ status[r] = 200
      /\ pc[r] = "yield" /\ n = sent[r] /\ n = Len(s) - 1
      /\ acc[r] = Summary(s, n) /\ trace[r] = {}
  BY DEF ProxyInv, ProxyTypeOK, Sound, StatusFits, LinesFit, EndFits, HandOn
<1>1. /\ n + 1 = Len(s) /\ s[n + 1] = Last(s)
      /\ Summary(s, Len(s)) = Observe(Summary(s, n), Last(s))
  <2>1. n + 1 = Len(s) /\ s[n + 1] = Last(s)
    BY <1>0 DEF Last
  <2>2. Summary(s, n + 1) = Observe(Summary(s, n), s[n + 1])
    BY <1>0, SummaryOfNext
  <2> QED BY <2>1, <2>2
<1>2. handed'[r] = n + 1 /\ sent'[r] = n /\ UNCHANGED <<status, lines>>
  BY <1>0 DEF ProxyInv, ProxyTypeOK, HandOn
<1>3. CASE Last(s) = ErrorEvent
  <2>1. Finish(r, acc[r]) /\ UNCHANGED acc
    BY <1>3 DEF HandOn
  <2>2. pc'[r] = "end" /\ trace'[r] = {acc[r]}
    BY <2>1, FinishType DEF ProxyInv
  <2>3. Summary(s, Len(s)) = Summary(s, n)
    <3>1. Observe(acc[r], ErrorEvent) = acc[r]
      <4>1. acc[r] \in Accumulators
        BY DEF ProxyInv, ProxyTypeOK
      <4>2. ErrorEvent \notin Tokens /\ ErrorEvent \notin Finishes
        BY DEF ErrorEvent, Tokens, Finishes
      <4> QED BY <4>1, <4>2 DEF Observe, Accumulators
    <3> QED BY <1>0, <1>1, <1>3, <3>1
  <2>4. StatusFits(pc'[r], status'[r], lines'[r])
    BY <1>0, <1>2, <2>2 DEF StatusFits, Silent
  <2>5. LinesFit(pc'[r], lines'[r], handed'[r], sent'[r], acc'[r])
    <3>1. acc'[r] = Summary(lines'[r], handed'[r]) /\ handed'[r] = Len(lines'[r])
      BY <1>0, <1>1, <1>2, <2>1, <2>3
    <3>2. sent'[r] <= handed'[r] /\ handed'[r] <= sent'[r] + 1
      BY <1>0, <1>2
    <3> QED BY <2>2, <3>1, <3>2 DEF LinesFit, Silent
  <2>6. EndFits(pc'[r], lines'[r], trace'[r])
    BY <1>0, <1>2, <1>3, <2>2, <2>3 DEF EndFits
  <2> QED BY <2>4, <2>5, <2>6 DEF Sound
<1>4. CASE Last(s) # ErrorEvent
  <2>1. /\ Goto(r, "body") /\ UNCHANGED trace
        /\ acc' = [acc EXCEPT ![r] = Observe(@, Last(s))]
    BY <1>4 DEF HandOn
  <2>2. pc'[r] = "body" /\ acc'[r] = Observe(acc[r], Last(s))
    BY <2>1 DEF ProxyInv, ProxyTypeOK, Goto
  <2>3. StatusFits(pc'[r], status'[r], lines'[r])
    BY <1>0, <1>2, <2>2 DEF StatusFits, Silent
  <2>4. LinesFit(pc'[r], lines'[r], handed'[r], sent'[r], acc'[r])
    <3>1. acc'[r] = Summary(lines'[r], handed'[r]) /\ handed'[r] = Len(lines'[r])
      BY <1>0, <1>1, <1>2, <2>2
    <3>2. sent'[r] <= handed'[r] /\ handed'[r] <= sent'[r] + 1
      BY <1>0, <1>2
    <3> QED BY <2>2, <3>1, <3>2 DEF LinesFit, Silent
  <2>5. EndFits(pc'[r], lines'[r], trace'[r])
    BY <1>0, <1>2, <1>4, <2>1, <2>2 DEF EndFits
  <2> QED BY <2>3, <2>4, <2>5 DEF Sound
<1> QED BY <1>3, <1>4

\* Going elsewhere without a line: the lines of a request fit as before if they
\* fit where its task is now.
LEMMA LinesStay ==
  ASSUME NEW p, NEW q, NEW ls, NEW h, NEW n, NEW a, LinesFit(p, ls, h, n, a),
         q = "yield" => p = "yield",
         q \in {"body", "end"} => p \in {"body", "end"},
         q \in Silent => p \in Silent
  PROVE  LinesFit(q, ls, h, n, a)
BY DEF LinesFit

LEMMA SoundStep ==
  ASSUME ProxyInv, NEW r \in Requests, Step(r)
  PROVE  Sound(r)'
<1>0. /\ lines[r] \in Seq(Lines) /\ handed[r] \in Nat /\ sent[r] \in Nat
      /\ pc \in [Requests -> {"new"} \cup Active \cup Terminal]
      /\ status \in [Requests -> {0, 200, 400, 502}] /\ sent \in [Requests -> Nat]
  BY DEF ProxyInv, ProxyTypeOK
<1>f. /\ StatusFits(pc[r], status[r], lines[r])
      /\ LinesFit(pc[r], lines[r], handed[r], sent[r], acc[r])
      /\ EndFits(pc[r], lines[r], trace[r])
  BY DEF ProxyInv, Sound
<1>1. ASSUME pc[r] \in Silent, pc'[r] \in Silent \cup {"refused", "failed"},
             StatusFits(pc'[r], status'[r], lines[r]),
             UNCHANGED <<lines, handed, sent, acc, trace>>
      PROVE  Sound(r)'
  <2>1. LinesFit(pc'[r], lines[r], handed[r], sent[r], acc[r])
    BY <1>f, <1>1, LinesStay DEF Silent
  <2>2. EndFits(pc'[r], lines[r], trace[r])
    BY <1>f, <1>1 DEF EndFits, Silent
  <2> QED BY <1>1, <2>1, <2>2 DEF Sound
<1>2. CASE Refuse(r)
  <2>1. pc'[r] = "refused" /\ status'[r] = 400 /\ pc[r] = "new"
    BY <1>0, <1>2 DEF Refuse, Goto
  <2>2. StatusFits(pc'[r], status'[r], lines[r])
    BY <1>f, <2>1 DEF StatusFits, Silent
  <2>3. UNCHANGED <<lines, handed, sent, acc, trace>>
    BY <1>2 DEF Refuse
  <2> QED BY <1>1, <2>1, <2>2, <2>3 DEF Silent
<1>3. CASE Open(r) \/ Headers(r)
  <2>1. pc[r] \in Silent /\ pc'[r] \in Silent
    BY <1>0, <1>3 DEF Open, Headers, Goto, Silent
  <2>2. UNCHANGED <<status, lines, handed, sent, acc, trace>>
    BY <1>3 DEF Open, Headers
  <2>3. StatusFits(pc'[r], status'[r], lines[r])
    BY <1>f, <2>1, <2>2 DEF StatusFits, Silent
  <2> QED BY <1>1, <2>1, <2>2, <2>3
<1>4. CASE ConnectFails(r) \/ ErrorStatus(r) \/ EmptyStream(r)
  <2>1. pc[r] \in Silent /\ BadGateway(r)
    BY <1>4 DEF ConnectFails, ErrorStatus, EmptyStream, Silent
  <2>2. pc'[r] = "failed" /\ status'[r] = 502
    BY <1>0, <2>1 DEF BadGateway, Goto
  <2>3. UNCHANGED <<lines, handed, sent, acc, trace>>
    BY <2>1 DEF BadGateway
  <2>4. StatusFits(pc'[r], status'[r], lines[r])
    BY <1>f, <2>1, <2>2 DEF StatusFits, Silent
  <2> QED BY <1>1, <2>1, <2>2, <2>3, <2>4
<1>5. CASE LineArrives(r) \/ Breaks(r)
  <2>1. pc[r] \in Reading /\ \E l \in Lines : Yield(r, l)
    BY <1>5 DEF LineArrives, Breaks, Lines, Reading
  <2> QED BY <2>1, YieldSound
<1>6. CASE HandOn(r)
  BY <1>6, HandOnSound
<1>7. CASE EndOfStream(r)
  <2>1. /\ pc[r] = "body" /\ Last(lines[r]) = "done"
        /\ pc'[r] = "end" /\ trace'[r] = {acc[r]}
        /\ UNCHANGED <<status, lines, handed, sent, acc>>
    BY <1>7, FinishType DEF EndOfStream, ProxyInv
  <2>2. StatusFits(pc'[r], status[r], lines[r])
    BY <1>f, <2>1 DEF StatusFits, Silent
  <2>3. LinesFit(pc'[r], lines[r], handed[r], sent[r], acc[r])
    BY <1>f, <2>1, LinesStay DEF Silent
  <2>4. EndFits(pc'[r], lines[r], trace'[r])
    BY <1>f, <2>1 DEF EndFits, LinesFit
  <2> QED BY <2>1, <2>2, <2>3, <2>4 DEF Sound
<1>8. CASE Send(r)
  <2>1. sent'[r] = sent[r] + 1 /\ sent[r] < handed[r]
        /\ UNCHANGED <<pc, status, lines, handed, acc, trace>>
    BY <1>0, <1>8 DEF Send
  <2>2. sent'[r] <= handed[r] /\ handed[r] <= sent'[r] + 1
    BY <1>0, <1>f, <2>1 DEF LinesFit
  <2>3. LinesFit(pc[r], lines[r], handed[r], sent'[r], acc[r])
    BY <1>f, <2>2 DEF LinesFit
  <2> QED BY <1>f, <2>1, <2>3 DEF Sound
<1>9. CASE Cancel(r)
  <2>1. pc'[r] = "cancelled" /\ pc[r] \in {"yield", "body"}
        /\ UNCHANGED <<status, lines, handed, sent, acc, trace>>
    BY <1>0, <1>9 DEF Cancel, Goto
  <2>2. StatusFits(pc'[r], status[r], lines[r])
    BY <1>f, <2>1 DEF StatusFits, Silent
  <2>3. LinesFit(pc'[r], lines[r], handed[r], sent[r], acc[r])
    BY <1>f, <2>1, LinesStay DEF Silent
  <2>4. EndFits(pc'[r], lines[r], trace[r])
    BY <1>f, <2>1 DEF EndFits
  <2> QED BY <2>1, <2>2, <2>3, <2>4 DEF Sound
<1>10. CASE Disconnect(r)
  BY <1>f, <1>10 DEF Disconnect, Sound
<1> QED BY <1>2, <1>3, <1>4, <1>5, <1>6, <1>7, <1>8, <1>9, <1>10
        DEF Step, UpstreamStep, ProxyStep

\* What a step of one request does not touch stays sound.
LEMMA SoundApart ==
  ASSUME ProxyInv, NEW r \in Requests, Step(r), NEW s \in Requests \ {r}
  PROVE  Sound(s)'
<1>1. /\ pc'[s] = pc[s] /\ status'[s] = status[s] /\ lines'[s] = lines[s]
      /\ handed'[s] = handed[s] /\ sent'[s] = sent[s]
      /\ acc'[s] = acc[s] /\ trace'[s] = trace[s]
  BY Others DEF ProxyInv
<1> QED BY <1>1 DEF ProxyInv, Sound

LEMMA ProxyInvStep ==
  ASSUME ProxyInv, NEW r \in Requests, Step(r)
  PROVE  ProxyInv'
BY SoundStep, SoundApart, ProxyTypeStep DEF ProxyInv

THEOREM ProxyInvariance == ProxySpec => []ProxyInv
<1>1. ProxyInit => ProxyInv
  BY ProxyTypeInit, SoundInit DEF ProxyInv
<1>2. ProxyInv /\ [ProxyNext]_proxyVars => ProxyInv'
  <2>1. ASSUME ProxyInv, UNCHANGED proxyVars PROVE ProxyInv'
    BY <2>1 DEF proxyVars, ProxyInv, ProxyTypeOK, Sound
  <2> QED BY <2>1, ProxyInvStep DEF ProxyNext, Step
<1> QED BY <1>1, <1>2, PTL DEF ProxySpec

\* A line is observed once the middleware has it, once and in order, for any
\* number of requests and lines (body, StreamAccumulator).
THEOREM ObservedOnceHanded == ProxySpec => []ObservedIsHanded
<1>1. ProxyInv => ObservedIsHanded
  BY DEF ProxyInv, Sound, LinesFit, ObservedIsHanded
<1> QED BY <1>1, ProxyInvariance, PTL

\* A trace is submitted exactly by a body that reached its end, and it is a
\* summary of every line the proxy yielded (body, build).
THEOREM TraceWhole == ProxySpec => []TraceIsWhole
<1>1. ProxyInv => TraceIsWhole
  BY DEF ProxyInv, Sound, EndFits, TraceIsWhole
<1> QED BY <1>1, ProxyInvariance, PTL

\* Nothing ends silently: an error status comes with no line, a response that
\* has begun is a 200, and it ends with [DONE] or the error event.
THEOREM EndLoud == ProxySpec => []EndsLoudly
<1>1. ProxyInv => EndsLoudly
  <2> SUFFICES ASSUME ProxyInv, NEW r \in Requests
               PROVE  /\ status[r] \in {400, 502} => lines[r] = <<>> /\ pc[r] \in {"refused", "failed"}
                      /\ lines[r] # <<>> <=> status[r] = 200
                      /\ pc[r] = "end" => /\ lines[r] # <<>>
                                          /\ Last(lines[r]) \in {"done", ErrorEvent}
    BY DEF EndsLoudly
  <2>1. pc[r] \in Silent \cup {"refused", "failed", "yield", "body", "end", "cancelled"}
    BY DEF ProxyInv, ProxyTypeOK, Silent, Active, Reading, Terminal
  <2>2. StatusFits(pc[r], status[r], lines[r]) /\ EndFits(pc[r], lines[r], trace[r])
    BY DEF ProxyInv, Sound
  <2>3. status[r] \in {400, 502} => lines[r] = <<>> /\ pc[r] \in {"refused", "failed"}
    BY <2>1, <2>2 DEF StatusFits, Silent
  <2>4. lines[r] # <<>> <=> status[r] = 200
    BY <2>1, <2>2 DEF StatusFits, Silent
  <2> QED BY <2>2, <2>3, <2>4 DEF StatusFits, EndFits
<1> QED BY <1>1, ProxyInvariance, PTL

-----------------------------------------------------------------------------
(* Refinement.  A request is drained from the line that is its last; the    *)
(* steps that are not visible outside leave its state where it was.         *)

\* What one step does to the state of its request.
Moves(r) ==
  \/ RequestState(r)' = RequestState(r)
  \/ RequestState(r) = "new" /\ RequestState(r)' \in {"over", "active"}
  \/ RequestState(r) = "active" /\ RequestState(r)' \in {"drained", "over"}
  \/ RequestState(r) = "drained" /\ RequestState(r)' \in {"answered", "over"}

LEMMA StateByPlace ==
  ASSUME NEW r \in Requests
  PROVE  /\ pc[r] = "new" => RequestState(r) = "new"
         /\ pc[r] = "end" => RequestState(r) = "answered"
         /\ pc[r] \in {"refused", "failed", "cancelled"} => RequestState(r) = "over"
         /\ pc[r] \in Active => RequestState(r) = IF Drained(r) THEN "drained" ELSE "active"
BY DEF RequestState, Active, Reading

LEMMA RequestBegins == ProxyInit => Request!RequestInit
<1>1. ASSUME ProxyInit, NEW r \in Requests PROVE RequestState(r) = "new"
  BY <1>1, StateByPlace DEF ProxyInit
<1> QED BY <1>1 DEF Request!RequestInit

LEMMA StateByNextPlace ==
  ASSUME NEW r \in Requests
  PROVE  /\ pc'[r] = "end" => RequestState(r)' = "answered"
         /\ pc'[r] \in {"refused", "failed", "cancelled"} => RequestState(r)' = "over"
         /\ pc'[r] \in Active => RequestState(r)' = IF Drained(r)' THEN "drained" ELSE "active"
BY DEF RequestState, Active, Reading

LEMMA StepMoves ==
  ASSUME ProxyInv, NEW r \in Requests, Step(r)
  PROVE  Moves(r)
<1> USE StateByPlace, StateByNextPlace DEF Moves
<1>0. /\ pc \in [Requests -> {"new"} \cup Active \cup Terminal]
      /\ lines[r] \in Seq(Lines) /\ lines \in [Requests -> Seq(Lines)]
  BY DEF ProxyInv, ProxyTypeOK
<1>f. /\ StatusFits(pc[r], status[r], lines[r]) /\ EndFits(pc[r], lines[r], trace[r])
  BY DEF ProxyInv, Sound
<1>1. CASE Refuse(r)
  BY <1>0, <1>1 DEF Refuse, Goto
<1>2. CASE Open(r)
  <2>1. pc[r] = "new" /\ pc'[r] \in Active /\ lines' = lines /\ lines[r] = <<>>
    BY <1>0, <1>f, <1>2 DEF Open, Goto, StatusFits, Silent, Active, Reading
  <2>2. ~ Drained(r)'
    BY <2>1 DEF Drained
  <2> QED BY <2>1, <2>2
<1>3. CASE Headers(r)
  <2>1. pc[r] \in Active /\ pc'[r] \in Active /\ lines' = lines
    BY <1>0, <1>3 DEF Headers, Goto, Active, Reading
  <2>2. Drained(r)' = Drained(r)
    BY <2>1 DEF Drained
  <2> QED BY <2>1, <2>2
<1>4. CASE ConnectFails(r) \/ ErrorStatus(r) \/ EmptyStream(r)
  <2>1. pc[r] \in Silent \ {"new"} /\ pc'[r] = "failed"
    BY <1>0, <1>4 DEF ConnectFails, ErrorStatus, EmptyStream, BadGateway, Goto, Silent
  <2>2. pc[r] \in Active /\ ~ Drained(r)
    BY <1>f, <2>1 DEF StatusFits, Drained, Silent, Active, Reading
  <2> QED BY <2>1, <2>2
<1>5. CASE LineArrives(r) \/ Breaks(r)
  <2>1. PICK l \in Lines : /\ Yield(r, l) /\ pc[r] \in Reading
                           /\ l = ErrorEvent \/ Follows(l, lines[r])
    BY <1>5 DEF LineArrives, Breaks, Lines, Reading
  <2>2. pc[r] \in Active /\ pc'[r] \in Active /\ lines'[r] = Append(lines[r], l)
    BY <1>0, <2>1 DEF Yield, Goto, Active
  <2>3. lines'[r] # <<>> /\ Last(lines'[r]) = l
    BY <1>0, <2>1, <2>2 DEF Last
  <2>4. Drained(r) => ~ Follows(l, lines[r])
    BY DEF Drained, Follows, ErrorEvent, Finishes
  <2>5. l = ErrorEvent => Drained(r)'
    BY <2>3 DEF Drained
  <2>6. Drained(r) => Drained(r)'
    BY <2>1, <2>4, <2>5
  <2> QED BY <2>2, <2>6
<1>6. CASE HandOn(r) /\ Last(lines[r]) = ErrorEvent
  <2>1. pc[r] = "yield" /\ pc'[r] = "end"
    BY <1>6, FinishType DEF HandOn, Finish, ProxyInv
  <2>2. Drained(r)
    BY <1>f, <1>6, <2>1 DEF Drained, StatusFits
  <2> QED BY <2>1, <2>2 DEF Active
<1>7. CASE HandOn(r) /\ Last(lines[r]) # ErrorEvent
  <2>1. pc[r] \in Active /\ pc'[r] \in Active /\ lines' = lines
    BY <1>0, <1>7 DEF HandOn, Goto, Active, Reading
  <2>2. Drained(r)' = Drained(r)
    BY <2>1 DEF Drained
  <2> QED BY <2>1, <2>2
<1>8. CASE EndOfStream(r)
  <2>1. pc[r] = "body" /\ pc'[r] = "end" /\ Last(lines[r]) = "done"
    BY <1>8, FinishType DEF EndOfStream, ProxyInv
  <2>2. Drained(r)
    BY <1>f, <2>1 DEF Drained, StatusFits
  <2> QED BY <2>1, <2>2 DEF Active, Reading
<1>9. CASE Send(r) \/ Disconnect(r)
  <2>1. RequestState(r)' = RequestState(r)
    BY <1>9 DEF Send, Disconnect, RequestState, Drained
  <2> QED BY <2>1
<1>10. CASE Cancel(r)
  <2>1. pc[r] \in Active /\ pc'[r] = "cancelled"
    BY <1>0, <1>10 DEF Cancel, Goto, Active, Reading
  <2> QED BY <2>1
<1> QED BY <1>1, <1>2, <1>3, <1>4, <1>5, <1>6, <1>7, <1>8, <1>9, <1>10
        DEF Step, UpstreamStep, ProxyStep

LEMMA RequestSteps ==
  ASSUME ProxyInv, [ProxyNext]_proxyVars
  PROVE  [Request!RequestNext]_[r \in Requests |-> RequestState(r)]
<1> DEFINE R == [r \in Requests |-> RequestState(r)]
<1>1. CASE UNCHANGED proxyVars
  BY <1>1 DEF proxyVars, RequestState, Drained
<1>2. ASSUME NEW r \in Requests, Step(r)
      PROVE  [Request!RequestNext]_R
  <2>1. \A s \in Requests \ {r} : RequestState(s)' = RequestState(s)
    <3> SUFFICES ASSUME NEW s \in Requests \ {r} PROVE RequestState(s)' = RequestState(s)
      OBVIOUS
    <3>1. pc'[s] = pc[s] /\ lines'[s] = lines[s]
      BY <1>2, Others DEF ProxyInv
    <3> QED BY <3>1 DEF RequestState, Drained
  <2>2. R' = [R EXCEPT ![r] = RequestState(r)']
    BY <2>1
  <2>3. Moves(r)
    BY <1>2, StepMoves
  <2>4. CASE RequestState(r)' = RequestState(r)
    BY <2>1, <2>4
  <2>5. CASE RequestState(r)' # RequestState(r)
    <3>1. Request!Become(r, RequestState(r)') /\ R[r] = RequestState(r)
      BY <2>2 DEF Request!Become
    <3>2. \/ Request!Turn(r) \/ Request!Begin(r) \/ Request!Drain(r)
          \/ Request!GiveUp(r) \/ Request!Answer(r)
      BY <2>3, <2>5, <3>1 DEF Moves, Request!Turn, Request!Begin, Request!Drain,
                              Request!GiveUp, Request!Answer
    <3> QED BY <3>2 DEF Request!RequestNext
  <2> QED BY <2>4, <2>5
<1> QED BY <1>1, <1>2 DEF ProxyNext, Step

\* Every step of the proxy is a step of the request the rest of the api sees,
\* or invisible to it; so what ChatService and Compose assume of a request is
\* what chat_stream and body() do, for any number of requests and lines.
THEOREM ProxyRefines == ProxySpec => ImplementsRequest
<1>1. ProxyInit => ProxyInv
  BY ProxyTypeInit, SoundInit DEF ProxyInv
<1>2. ProxyInv /\ [ProxyNext]_proxyVars => [Request!RequestNext]_[r \in Requests |-> RequestState(r)]
  BY RequestSteps
<1> QED BY <1>2, ProxyInvariance, RequestBegins, PTL
        DEF ProxySpec, ImplementsRequest, Request!RequestSpec

-----------------------------------------------------------------------------
(* The session.  Its one request is the proxy's, begun anew with each       *)
(* prompt, so what holds of any request holds of it (SessionProxyInv).      *)

LEMMA TheRequest == The \in Requests /\ Requests = {The}
<1>1. The \in Requests
  BY SessionAssumption DEF The
<1> QED BY <1>1, SessionAssumption

\* [DONE] is the upstream's last word: only the proxy's own event follows it.
DoneLast(ls) ==
  \A i \in 1..Len(ls) : ls[i] = "done" => \A j \in (i + 1)..Len(ls) : ls[j] = ErrorEvent

ReadSo(ls) == /\ read <= seen[The]
              /\ \A i \in 1..read : ls[i] \notin {"done", "error", ErrorEvent}
              /\ reply = Summary(ls, read).text

\* What the script has read is what the client has seen of the response.
Reads ==
  /\ read \in Nat /\ reply \in Nat /\ seen[The] <= sent[The]
  /\ DoneLast(lines[The])
  /\ ui = "waiting" => read = 0 /\ reply = 0
  /\ ui = "reading" => ReadSo(lines[The])

\* The prompt under way is the last message; every other is older.
Talk ==
  /\ ui \in {"idle", "waiting", "reading"}
  /\ turn \in 0..MaxPrompts /\ messages \in Seq(Messages)
  /\ shown \in [Prompts -> {"nothing", "reply", "banner", "broken"}]
  /\ ui # "idle" => /\ turn \in Prompts /\ Len(messages) > 0
                    /\ messages[Len(messages)] = Question(turn)
                    /\ \A i \in 1..(Len(messages) - 1) : messages[i].prompt < turn
  /\ \A i \in 1..Len(messages) : messages[i].prompt <= turn

\* The window, seen from the whole history.
ValidWindow(h) ==
  \A i \in 1..Len(h) : i > Len(h) - 2 * MAX_TURNS => h[i].tokens > 0

\* What was posted last, seen from what the session has now.
Posts ==
  /\ turn = 0 => Valid(posted)
  /\ ui # "idle" \/ (turn > 0 /\ shown[turn] = "broken")
       => (Valid(posted) <=> ValidWindow(messages))
  /\ ui = "idle" /\ turn > 0 => shown[turn] \in {"reply", "banner", "broken"}
  /\ ui = "idle" /\ turn > 0 /\ shown[turn] = "banner"
       => (Valid(posted) <=> ValidWindow(Append(messages, Question(turn))))
  /\ ui = "idle" /\ turn > 0 /\ shown[turn] = "reply"
       => /\ Valid(posted) /\ Len(messages) > 1
          /\ messages[Len(messages)] = Reply(turn, reply)
          /\ ValidWindow(SubSeq(messages, 1, Len(messages) - 1))
  /\ ~ Valid(posted) => pc[The] \in {"new", "refused"}

SessionInv == ProxyInv /\ Reads /\ Talk /\ Posts /\ HistoryIsPaired

-----------------------------------------------------------------------------
\* What a step of the session does to the request: a step of the proxy, or
\* nothing, or a new one.
LEMMA SessionTouches ==
  ASSUME SessionNext
  PROVE  \/ Step(The) \/ UNCHANGED proxyVars
         \/ NewRequest
<1>1. CASE Prompt
  BY <1>1 DEF Prompt
<1>2. CASE Refused \/ Opened \/ Chunk
  BY <1>2 DEF Refused, Opened, Chunk
<1>3. CASE PostFails \/ StreamError \/ Keep \/ ReadFails \/ Interrupt
  BY <1>3 DEF PostFails, StreamError, Keep, ReadFails, Interrupt, Step
<1>4. CASE ApiStep
  BY <1>4 DEF ApiStep, Step, ProxyStep
<1> QED BY <1>1, <1>2, <1>3, <1>4 DEF SessionNext, Script

LEMMA NewRequestSound ==
  ASSUME ProxyInv, NewRequest
  PROVE  /\ ProxyInv'
         /\ pc'[The] = "new" /\ status'[The] = 0 /\ lines'[The] = <<>>
         /\ seen'[The] = 0 /\ sent'[The] = 0
<1>1. /\ pc'[The] = "new" /\ status'[The] = 0 /\ lines'[The] = <<>>
      /\ handed'[The] = 0 /\ sent'[The] = 0 /\ seen'[The] = 0
      /\ acc'[The] = Blank /\ trace'[The] = {}
  BY TheRequest DEF NewRequest, ProxyInv, ProxyTypeOK
<1>2. Sound(The)'
  <2>1. StatusFits(pc'[The], status'[The], lines'[The])
    BY <1>1 DEF StatusFits, Silent
  <2>2. LinesFit(pc'[The], lines'[The], handed'[The], sent'[The], acc'[The])
    <3>1. Len(lines'[The]) = 0 /\ acc'[The] = Summary(lines'[The], 0)
      BY <1>1, SummaryOfNone
    <3> QED BY <1>1, <3>1 DEF LinesFit, Silent
  <2>3. EndFits(pc'[The], lines'[The], trace'[The])
    BY <1>1 DEF EndFits
  <2> QED BY <2>1, <2>2, <2>3 DEF Sound
<1>3. ProxyTypeOK'
  <2>1. pc' \in [Requests -> {"new"} \cup Active \cup Terminal]
    BY DEF NewRequest, ProxyInv, ProxyTypeOK
  <2>2. status' \in [Requests -> {0, 200, 400, 502}]
    BY DEF NewRequest, ProxyInv, ProxyTypeOK
  <2>3. lines' \in [Requests -> Seq(Lines)]
    <3>1. <<>> \in Seq(Lines) /\ lines \in [Requests -> Seq(Lines)]
      BY DEF ProxyInv, ProxyTypeOK
    <3>2. lines' = [lines EXCEPT ![The] = <<>>]
      BY DEF NewRequest
    <3> QED BY <3>1, <3>2
  <2>4. /\ handed' \in [Requests -> Nat] /\ sent' \in [Requests -> Nat]
        /\ seen' \in [Requests -> Nat]
    BY DEF NewRequest, ProxyInv, ProxyTypeOK
  <2>5. client' \in [Requests -> BOOLEAN]
    BY DEF NewRequest, ProxyInv, ProxyTypeOK
  <2>6. Blank \in Accumulators
    BY DEF Blank, Accumulators
  <2>7. acc' \in [Requests -> Accumulators] /\ trace' \in [Requests -> SUBSET Accumulators]
    BY <2>6 DEF NewRequest, ProxyInv, ProxyTypeOK
  <2> QED BY <2>1, <2>2, <2>3, <2>4, <2>5, <2>7 DEF ProxyTypeOK
<1> QED BY <1>1, <1>2, <1>3, TheRequest DEF ProxyInv

LEMMA SessionProxyInv == ASSUME ProxyInv, SessionNext PROVE ProxyInv'
<1>1. ASSUME UNCHANGED proxyVars PROVE ProxyInv'
  BY <1>1 DEF proxyVars, ProxyInv, ProxyTypeOK, Sound
<1> QED BY <1>1, SessionTouches, NewRequestSound, ProxyInvStep, TheRequest

\* What the proxy has of a response is settled: a step adds at most a line at
\* its end, nothing after [DONE], and what was sent stays sent.
LEMMA ResponseGrows ==
  ASSUME ProxyInv, Step(The), seen[The] <= sent[The], DoneLast(lines[The])
  PROVE  /\ seen[The] <= seen'[The] /\ seen'[The] <= sent'[The]
         /\ \A i \in 1..Len(lines[The]) : lines'[The][i] = lines[The][i]
         /\ DoneLast(lines'[The])
<1>0. /\ The \in Requests /\ lines[The] \in Seq(Lines) /\ lines \in [Requests -> Seq(Lines)]
      /\ seen \in [Requests -> Nat] /\ sent \in [Requests -> Nat]
      /\ seen[The] \in Nat /\ sent[The] \in Nat
  BY TheRequest DEF ProxyInv, ProxyTypeOK
<1>1. CASE Send(The)
  <2>1. /\ sent'[The] = sent[The] + 1 /\ lines' = lines
        /\ seen'[The] = seen[The] \/ seen'[The] = seen[The] + 1
    BY <1>0, <1>1 DEF Send
  <2> QED BY <1>0, <2>1
<1>2. CASE LineArrives(The) \/ Breaks(The)
  <2>1. PICK l \in Lines : Yield(The, l) /\ (l = ErrorEvent \/ Follows(l, lines[The]))
    BY <1>2 DEF LineArrives, Breaks, Lines
  <2>2. lines'[The] = Append(lines[The], l) /\ seen' = seen /\ sent' = sent
    BY <1>0, <2>1 DEF Yield
  <2>3. /\ Len(lines'[The]) = Len(lines[The]) + 1 /\ Len(lines[The]) \in Nat
        /\ \A i \in 1..Len(lines[The]) : lines'[The][i] = lines[The][i]
        /\ lines'[The][Len(lines[The]) + 1] = l
    BY <1>0, <2>1, <2>2
  <2>4. ASSUME NEW i \in 1..Len(lines[The]), lines[The][i] = "done"
        PROVE  l = ErrorEvent
    <3>1. i = Len(lines[The]) \/ Len(lines[The]) \in (i + 1)..Len(lines[The])
      BY <2>3
    <3>2. Last(lines[The]) \in {"done", ErrorEvent} /\ lines[The] # <<>>
      BY <2>3, <2>4, <3>1 DEF DoneLast, Last
    <3>3. ~ Follows(l, lines[The])
      BY <3>2 DEF Follows, ErrorEvent, Finishes
    <3> QED BY <2>1, <3>3
  <2>5. DoneLast(lines'[The])
    <3> SUFFICES ASSUME NEW i \in 1..Len(lines'[The]), lines'[The][i] = "done",
                        NEW j \in (i + 1)..Len(lines'[The])
                 PROVE  lines'[The][j] = ErrorEvent
      BY DEF DoneLast
    <3>1. i \in 1..Len(lines[The]) /\ lines[The][i] = "done"
      BY <2>3
    <3>2. j = Len(lines[The]) + 1 \/ j \in (i + 1)..Len(lines[The])
      BY <2>3
    <3> QED BY <2>3, <2>4, <3>1, <3>2 DEF DoneLast
  <2> QED BY <1>0, <2>2, <2>3, <2>5
<1>3. CASE UNCHANGED <<lines, sent, seen>>
  BY <1>0, <1>3
<1>4. Send(The) \/ LineArrives(The) \/ Breaks(The) \/ UNCHANGED <<lines, sent, seen>>
  BY DEF Step, UpstreamStep, ProxyStep, Refuse, Open, HandOn, Cancel, Disconnect,
         ConnectFails, ErrorStatus, EmptyStream, BadGateway, Headers, EndOfStream
<1> QED BY <1>1, <1>2, <1>3, <1>4

\* The client has not seen more than was yielded.
LEMMA SeenYielded ==
  ASSUME ProxyInv, seen[The] <= sent[The]
  PROVE  seen[The] <= Len(lines[The]) /\ Len(lines[The]) \in Nat /\ seen[The] \in Nat
<1>1. /\ lines[The] \in Seq(Lines) /\ handed[The] \in Nat /\ sent[The] \in Nat
      /\ seen[The] \in Nat
  BY TheRequest DEF ProxyInv, ProxyTypeOK
<1>2. LinesFit(pc[The], lines[The], handed[The], sent[The], acc[The])
  BY TheRequest DEF ProxyInv, Sound
<1> QED BY <1>1, <1>2 DEF LinesFit

LEMMA ReadsStep ==
  ASSUME ProxyInv, Talk, Reads, SessionNext
  PROVE  Reads'
<1>0. The \in Requests /\ DoneLast(lines[The]) /\ seen[The] <= sent[The]
  BY TheRequest DEF Reads
<1>1. CASE Prompt
  <2>1. lines'[The] = <<>> /\ seen'[The] = 0 /\ sent'[The] = 0
    BY <1>1, NewRequestSound DEF Prompt
  <2>2. read' = 0 /\ reply' = 0 /\ ui' = "waiting"
    BY <1>1 DEF Prompt
  <2> QED BY <2>1, <2>2 DEF Reads, DoneLast
<1>2. CASE Refused \/ PostFails \/ StreamError \/ Keep \/ ReadFails \/ Interrupt
  <2>1. ui' = "idle" /\ UNCHANGED <<lines, seen, sent, read, reply>>
    BY <1>2 DEF Refused, PostFails, StreamError, Keep, ReadFails, Interrupt, Banner,
                Broken, Shows, Disconnect, proxyVars
  <2> QED BY <2>1 DEF Reads
<1>3. CASE Opened
  <2>1. read = 0 /\ reply = 0 /\ ui' = "reading" /\ UNCHANGED <<lines, seen, sent, read, reply>>
    BY <1>3 DEF Opened, Reads, proxyVars
  <2>2. Summary(lines[The], 0).text = 0
    BY SummaryOfNone DEF Blank
  <2>3. seen[The] \in Nat
    BY <1>0 DEF ProxyInv, ProxyTypeOK
  <2> QED BY <2>1, <2>2, <2>3 DEF Reads, ReadSo
<1>4. CASE Chunk
  <2>1. /\ ReadSo(lines[The]) /\ read \in Nat /\ reply \in Nat /\ ui = "reading"
        /\ read < seen[The] /\ lines[The][read + 1] \notin {"done", "error", ErrorEvent}
        /\ read' = read + 1 /\ UNCHANGED <<ui, lines, seen, sent>>
        /\ reply' = IF lines[The][read + 1] \in Tokens THEN reply + 1 ELSE reply
    BY <1>4 DEF Chunk, Reads, HasLine, NextLine, proxyVars
  <2>2. seen[The] \in Nat
    BY <1>0 DEF ProxyInv, ProxyTypeOK
  <2>3. Summary(lines[The], read + 1) = Observe(Summary(lines[The], read), lines[The][read + 1])
    BY <2>1, SummaryOfNext
  <2>4. reply' = Summary(lines[The], read + 1).text
    BY <2>1, <2>3 DEF Observe, ReadSo
  <2>5. \A i \in 1..(read + 1) : lines[The][i] \notin {"done", "error", ErrorEvent}
    BY <2>1 DEF ReadSo
  <2>6. ReadSo(lines[The])'
    BY <2>1, <2>2, <2>4, <2>5 DEF ReadSo
  <2> QED BY <2>1, <2>6 DEF Reads
<1>5. CASE ApiStep
  <2>1. Step(The) /\ UNCHANGED sessionVars
    BY <1>5 DEF ApiStep, Step, ProxyStep
  <2>2. /\ seen[The] <= seen'[The] /\ seen'[The] <= sent'[The]
        /\ \A i \in 1..Len(lines[The]) : lines'[The][i] = lines[The][i]
        /\ DoneLast(lines'[The])
    BY <1>0, <2>1, ResponseGrows
  <2>3. /\ seen[The] <= Len(lines[The]) /\ Len(lines[The]) \in Nat /\ seen[The] \in Nat
        /\ seen'[The] \in Nat
    BY <1>0, <2>1, SeenYielded, ProxyTypeStep DEF ProxyInv, ProxyTypeOK
  <2>4. ASSUME ui = "reading" PROVE ReadSo(lines[The])'
    <3>1. ReadSo(lines[The]) /\ read \in Nat
      BY <2>4 DEF Reads
    <3>2. \A i \in 1..read : lines'[The][i] = lines[The][i]
      BY <2>2, <2>3, <3>1 DEF ReadSo
    <3>3. Summary(lines'[The], read) = Summary(lines[The], read)
      BY <3>1, <3>2, SummaryOfPrefix
    <3>4. read <= seen'[The]
      BY <2>2, <2>3, <3>1 DEF ReadSo
    <3> QED BY <2>1, <3>1, <3>2, <3>3, <3>4 DEF ReadSo, sessionVars
  <2> QED BY <2>1, <2>2, <2>4 DEF Reads, sessionVars
<1> QED BY <1>1, <1>2, <1>3, <1>4, <1>5 DEF SessionNext, Script

-----------------------------------------------------------------------------
\* Messages.
LEMMA Questions ==
  ASSUME NEW p \in Prompts
  PROVE  /\ Question(p) \in Messages /\ Question(p).role = "user"
         /\ Question(p).prompt = p /\ Question(p).tokens = 1
         /\ \A n \in Nat : /\ Reply(p, n) \in Messages /\ Reply(p, n).role = "assistant"
                           /\ Reply(p, n).prompt = p /\ Reply(p, n).tokens = n
BY DEF Question, Reply, Messages

LEMMA PromptsAreNat == \A p \in Prompts : p \in Nat /\ p > 0
BY SessionAssumption DEF Prompts

\* What Append and Popped do, place by place.
LEMMA AppendPlaces ==
  ASSUME NEW h \in Seq(Messages), NEW m \in Messages
  PROVE  /\ Append(h, m) \in Seq(Messages) /\ Len(Append(h, m)) = Len(h) + 1
         /\ \A i \in 1..Len(h) : Append(h, m)[i] = h[i]
         /\ Append(h, m)[Len(h) + 1] = m
OBVIOUS

LEMMA PoppedPlaces ==
  ASSUME NEW h \in Seq(Messages), Len(h) > 0
  PROVE  /\ Popped(h) \in Seq(Messages) /\ Len(Popped(h)) = Len(h) - 1
         /\ \A i \in 1..(Len(h) - 1) : Popped(h)[i] = h[i]
         /\ Popped(h) = SubSeq(h, 1, Len(h) - 1)
<1> DEFINE n == Len(h) - 1
           p == SubSeq(h, 1, n)
<1>1. Len(h) \in Nat /\ n \in Nat /\ 1 \in Int /\ n \in Int /\ n - 1 + 1 = n
  OBVIOUS
<1>2. \A i \in 1..n : h[i] \in Messages
  BY <1>1
<1>3. /\ p \in Seq(Messages)
      /\ Len(p) = IF 1 <= n THEN n - 1 + 1 ELSE 0
      /\ \A i \in 1..(n - 1 + 1) : p[i] = h[1 + i - 1]
  BY <1>1, <1>2, SubSeqProperties
<1> HIDE DEF p, n
<1>4. Len(p) = n
  BY <1>1, <1>3
<1>5. ASSUME NEW i \in 1..n PROVE p[i] = h[i]
  <2>1. i \in 1..(n - 1 + 1) /\ 1 + i - 1 = i
    BY <1>1
  <2> QED BY <1>3, <2>1
<1> QED BY <1>3, <1>4, <1>5 DEF Popped, p, n

\* The five ways a step of the session changes what the user has.
Ends(s) == ui # "idle" /\ Shows(s) /\ UNCHANGED <<turn, posted, read, reply>>

TalkMove ==
  \/ Prompt
  \/ Ends("banner") /\ messages' = Popped(messages)
  \/ Ends("broken") /\ UNCHANGED messages
  \/ Ends("reply") /\ messages' = Append(messages, Reply(turn, reply))
     /\ ui = "reading" /\ LoopEnds
  \/ ui # "idle" /\ ui' \in {"waiting", "reading"} /\ UNCHANGED <<turn, messages, posted, shown>>
  \/ UNCHANGED sessionVars

LEMMA SessionTalks == ASSUME Talk, SessionNext PROVE TalkMove
<1> USE DEF TalkMove, Ends
<1>1. CASE Prompt
  BY <1>1
<1>2. CASE Refused \/ PostFails \/ StreamError
  BY <1>2 DEF Refused, PostFails, StreamError, Banner
<1>3. CASE ReadFails \/ Interrupt
  BY <1>3 DEF ReadFails, Interrupt, Broken
<1>4. CASE Keep
  BY <1>4 DEF Keep
<1>5. CASE Opened \/ Chunk
  BY <1>5 DEF Opened, Chunk
<1>6. CASE ApiStep
  BY <1>6 DEF ApiStep
<1> QED BY <1>1, <1>2, <1>3, <1>4, <1>5, <1>6 DEF SessionNext, Script

LEMMA TalkStep ==
  ASSUME Talk, TalkMove, reply \in Nat
  PROVE  Talk'
<1>0. /\ messages \in Seq(Messages) /\ Len(messages) \in Nat /\ turn \in Nat
      /\ \A i \in 1..Len(messages) : messages[i] \in Messages /\ messages[i].prompt \in Nat
      /\ shown \in [Prompts -> {"nothing", "reply", "banner", "broken"}]
  <2>1. messages \in Seq(Messages) /\ \A m \in Messages : m.prompt \in Nat
    BY PromptsAreNat DEF Talk, Messages
  <2>2. \A i \in 1..Len(messages) : messages[i] \in Messages
    BY <2>1
  <2> QED BY <2>1, <2>2, SessionAssumption DEF Talk
<1>1. CASE Prompt
  <2>1. /\ ui' = "waiting" /\ turn' = turn + 1 /\ turn' \in Prompts /\ UNCHANGED shown
        /\ messages' = Append(messages, Question(turn'))
    BY <1>0, <1>1, SessionAssumption DEF Prompt, Talk, Prompts
  <2>2. /\ messages' \in Seq(Messages) /\ Len(messages') = Len(messages) + 1
        /\ \A i \in 1..Len(messages) : messages'[i] = messages[i]
        /\ messages'[Len(messages) + 1] = Question(turn') /\ Question(turn').prompt = turn'
    BY <1>0, <2>1, Questions, AppendPlaces
  <2>3. turn' \in 0..MaxPrompts
    BY <2>1, SessionAssumption DEF Prompts
  <2>4. \A i \in 1..(Len(messages') - 1) : messages'[i].prompt < turn'
    BY <1>0, <2>1, <2>2 DEF Talk
  <2>5. \A i \in 1..Len(messages') : messages'[i].prompt <= turn'
    BY <1>0, <2>1, <2>2, <2>4
  <2> QED BY <1>0, <2>1, <2>2, <2>3, <2>4, <2>5 DEF Talk
<1>2. ASSUME NEW s \in {"reply", "banner", "broken"}, Ends(s)
      PROVE  /\ turn \in Prompts /\ turn' = turn /\ ui' = "idle"
             /\ shown' \in [Prompts -> {"nothing", "reply", "banner", "broken"}]
  BY <1>0, <1>2 DEF Ends, Shows, Talk
<1>3. CASE Ends("banner") /\ messages' = Popped(messages)
  <2>1. Len(messages) > 0
    BY <1>3 DEF Ends, Talk
  <2>2. /\ messages' \in Seq(Messages) /\ Len(messages') = Len(messages) - 1
        /\ \A i \in 1..(Len(messages) - 1) : messages'[i] = messages[i]
    BY <1>0, <1>3, <2>1, PoppedPlaces
  <2> QED BY <1>0, <1>2, <1>3, <2>1, <2>2 DEF Talk
<1>4. CASE Ends("broken") /\ UNCHANGED messages
  BY <1>2, <1>4 DEF Talk
<1>5. CASE Ends("reply") /\ messages' = Append(messages, Reply(turn, reply))
  <2>1. turn \in Prompts
    BY <1>2, <1>5
  <2>2. /\ messages' \in Seq(Messages) /\ Len(messages') = Len(messages) + 1
        /\ \A i \in 1..Len(messages) : messages'[i] = messages[i]
        /\ messages'[Len(messages) + 1].prompt = turn
    BY <1>0, <1>5, <2>1, Questions, AppendPlaces
  <2> QED BY <1>0, <1>2, <1>5, <2>2 DEF Talk
<1>6. CASE /\ ui # "idle" /\ ui' \in {"waiting", "reading"}
           /\ UNCHANGED <<turn, messages, posted, shown>>
  BY <1>6 DEF Talk
<1>7. CASE UNCHANGED sessionVars
  BY <1>7 DEF Talk, sessionVars
<1> QED BY <1>1, <1>3, <1>4, <1>5, <1>6, <1>7 DEF TalkMove

LEMMA PairedStep ==
  ASSUME Talk, TalkMove, reply \in Nat, HistoryIsPaired
  PROVE  HistoryIsPaired'
<1>0. /\ messages \in Seq(Messages) /\ Len(messages) \in Nat /\ turn \in Nat
      /\ \A i \in 1..Len(messages) : messages[i] \in Messages /\ messages[i].prompt \in Prompts
      /\ \A i \in 1..Len(messages) : messages[i].role \in {"user", "assistant"}
      /\ shown \in [Prompts -> {"nothing", "reply", "banner", "broken"}]
  <2>1. /\ messages \in Seq(Messages)
        /\ \A m \in Messages : m.prompt \in Prompts /\ m.role \in {"user", "assistant"}
    BY DEF Talk, Messages
  <2>2. \A i \in 1..Len(messages) : messages[i] \in Messages
    BY <2>1
  <2> QED BY <2>1, <2>2, SessionAssumption DEF Talk
<1> DEFINE Paired(i, h, u, t, sh) ==
      /\ i > 1 => h[i - 1].prompt <= h[i].prompt
      /\ h[i].role = "assistant" => i > 1 /\ h[i - 1] = Question(h[i].prompt)
      /\ h[i].role = "user" => \/ i < Len(h) /\ h[i + 1].prompt = h[i].prompt
                               \/ sh[h[i].prompt] = "broken"
                               \/ u # "idle" /\ h[i].prompt = t
<1>a. \A i \in 1..Len(messages) : Paired(i, messages, ui, turn, shown)
  BY DEF HistoryIsPaired
<1>b. SUFFICES \A i \in 1..Len(messages') : Paired(i, messages', ui', turn', shown')
  BY DEF HistoryIsPaired
<1>1. CASE Prompt
  <2>1. /\ ui = "idle" /\ ui' = "waiting" /\ turn' = turn + 1 /\ turn' \in Prompts
        /\ shown' = shown /\ messages' = Append(messages, Question(turn'))
    BY <1>0, <1>1, SessionAssumption DEF Prompt, Talk, Prompts
  <2>2. /\ Len(messages') = Len(messages) + 1
        /\ \A i \in 1..Len(messages) : messages'[i] = messages[i]
        /\ messages'[Len(messages) + 1] = Question(turn')
        /\ Question(turn').prompt = turn' /\ Question(turn').role = "user"
    BY <1>0, <2>1, Questions, AppendPlaces
  <2>3. \A i \in 1..Len(messages) : Paired(i, messages', ui', turn', shown')
    BY <1>0, <1>a, <2>1, <2>2
  <2>4. Paired(Len(messages) + 1, messages', ui', turn', shown')
    <3>1. Len(messages) + 1 > 1 => messages'[Len(messages)].prompt <= turn'
      <4>1. Len(messages) + 1 > 1 => Len(messages) \in 1..Len(messages)
        BY <1>0
      <4>2. \A i \in 1..Len(messages) : messages[i].prompt <= turn /\ messages[i].prompt \in Nat
        BY <1>0, PromptsAreNat DEF Talk
      <4> QED BY <1>0, <2>1, <2>2, <4>1, <4>2
    <3> QED BY <1>0, <2>1, <2>2, <3>1
  <2> QED BY <1>0, <2>2, <2>3, <2>4
<1>2. CASE Ends("banner") /\ messages' = Popped(messages)
  <2>1. /\ Len(messages) > 0 /\ messages[Len(messages)].prompt = turn /\ turn \in Prompts
        /\ \A i \in 1..(Len(messages) - 1) : messages[i].prompt < turn
    BY <1>2, Questions DEF Ends, Talk
  <2>2. /\ Len(messages') = Len(messages) - 1
        /\ \A i \in 1..(Len(messages) - 1) : messages'[i] = messages[i]
    BY <1>0, <1>2, <2>1, PoppedPlaces
  <2>3. \A p \in Prompts : p # turn => shown'[p] = shown[p]
    BY <1>0, <1>2, <2>1 DEF Ends, Shows
  <2>4. ASSUME NEW i \in 1..(Len(messages) - 1) PROVE Paired(i, messages', ui', turn', shown')
    <3>1. /\ messages[i].prompt < turn /\ messages[i].prompt \in Prompts
          /\ Paired(i, messages, ui, turn, shown) /\ messages'[i] = messages[i]
      BY <1>0, <1>a, <2>1, <2>2
    <3>2. messages[i + 1].prompt = messages[i].prompt => i + 1 \in 1..(Len(messages) - 1)
      BY <1>0, <2>1, <3>1, PromptsAreNat
    <3>3. i > 1 => i - 1 \in 1..(Len(messages) - 1) /\ messages'[i - 1] = messages[i - 1]
      BY <1>0, <2>2
    <3>4. i < Len(messages) - 1 => messages'[i + 1] = messages[i + 1]
      BY <1>0, <2>2
    <3>5. shown'[messages[i].prompt] = shown[messages[i].prompt]
      BY <2>1, <2>3, <3>1, PromptsAreNat
    <3> QED BY <1>0, <2>1, <2>2, <3>1, <3>2, <3>3, <3>4, <3>5, PromptsAreNat
  <2> QED BY <2>2, <2>4
<1>3. CASE Ends("broken") /\ UNCHANGED messages
  <2>1. turn \in Prompts /\ shown' = [shown EXCEPT ![turn] = "broken"] /\ turn' = turn
    BY <1>3 DEF Ends, Shows, Talk
  <2>2. /\ shown'[turn] = "broken"
        /\ \A p \in Prompts : shown[p] = "broken" => shown'[p] = "broken"
    BY <1>0, <2>1
  <2> QED BY <1>0, <1>3, <1>a, <2>1, <2>2
<1>4. CASE Ends("reply") /\ messages' = Append(messages, Reply(turn, reply))
  <2>1. /\ Len(messages) > 0 /\ messages[Len(messages)] = Question(turn) /\ turn \in Prompts
        /\ Question(turn).prompt = turn /\ Question(turn).role = "user"
        /\ \A i \in 1..(Len(messages) - 1) : messages[i].prompt < turn
    BY <1>4, Questions DEF Ends, Talk
  <2>2. /\ Len(messages') = Len(messages) + 1
        /\ \A i \in 1..Len(messages) : messages'[i] = messages[i]
        /\ messages'[Len(messages) + 1] = Reply(turn, reply)
        /\ Reply(turn, reply).prompt = turn /\ Reply(turn, reply).role = "assistant"
    BY <1>0, <1>4, <2>1, Questions, AppendPlaces
  <2>3. \A p \in Prompts : p # turn => shown'[p] = shown[p]
    BY <1>0, <1>4, <2>1 DEF Ends, Shows
  <2>4. ASSUME NEW i \in 1..(Len(messages) - 1) PROVE Paired(i, messages', ui', turn', shown')
    <3>1. /\ messages[i].prompt < turn /\ messages[i].prompt \in Prompts
          /\ Paired(i, messages, ui, turn, shown) /\ messages'[i] = messages[i]
          /\ messages'[i + 1] = messages[i + 1]
      BY <1>0, <1>a, <2>1, <2>2
    <3>2. i > 1 => messages'[i - 1] = messages[i - 1]
      BY <1>0, <2>2
    <3>3. shown'[messages[i].prompt] = shown[messages[i].prompt]
      BY <2>1, <2>3, <3>1, PromptsAreNat
    <3> QED BY <1>0, <2>1, <2>2, <3>1, <3>2, <3>3, PromptsAreNat
  <2>5. Paired(Len(messages), messages', ui', turn', shown')
    <3>1. Paired(Len(messages), messages, ui, turn, shown)
      BY <1>0, <1>a, <2>1
    <3>2. Len(messages) > 1 => messages'[Len(messages) - 1] = messages[Len(messages) - 1]
      BY <1>0, <2>2
    <3> QED BY <1>0, <2>1, <2>2, <3>1, <3>2
  <2>6. Paired(Len(messages) + 1, messages', ui', turn', shown')
    BY <1>0, <2>1, <2>2, PromptsAreNat
  <2>7. \A i \in 1..Len(messages') : \/ i \in 1..(Len(messages) - 1)
                                     \/ i = Len(messages) \/ i = Len(messages) + 1
    BY <1>0, <2>2
  <2> HIDE DEF Paired
  <2> QED BY <2>4, <2>5, <2>6, <2>7
<1>5. CASE /\ ui # "idle" /\ ui' \in {"waiting", "reading"}
           /\ UNCHANGED <<turn, messages, posted, shown>>
  BY <1>5, <1>a
<1>6. CASE UNCHANGED sessionVars
  BY <1>6, <1>a DEF sessionVars
<1> QED BY <1>1, <1>2, <1>3, <1>4, <1>5, <1>6 DEF TalkMove

-----------------------------------------------------------------------------
\* Windows.  Only the tokens in the last 2 * MAX_TURNS places matter.
LEMMA WindowOfTrimmed ==
  ASSUME NEW h \in Seq(Messages)
  PROVE  Valid(Trimmed(h)) <=> ValidWindow(h)
<1>0. Len(h) \in Nat /\ MAX_TURNS \in Nat /\ 2 * MAX_TURNS \in Nat
  BY SessionAssumption
<1>1. CASE Len(h) <= 2 * MAX_TURNS
  BY <1>0, <1>1 DEF Valid, Trimmed, ValidWindow
<1>2. CASE ~ Len(h) <= 2 * MAX_TURNS
  <2> DEFINE k == Len(h) - 2 * MAX_TURNS
             w == SubSeq(h, k + 1, Len(h))
  <2>1. k \in Nat /\ k + 1 \in Int /\ Trimmed(h) = w
    BY <1>0, <1>2 DEF Trimmed
  <2>2. \A i \in (k + 1)..Len(h) : h[i] \in Messages
    BY <1>0, <2>1
  <2>3. /\ Len(w) = IF k + 1 <= Len(h) THEN Len(h) - (k + 1) + 1 ELSE 0
        /\ \A i \in 1..(Len(h) - (k + 1) + 1) : w[i] = h[k + 1 + i - 1]
    BY <1>0, <2>1, <2>2, SubSeqProperties
  <2> HIDE DEF w
  <2>4. Len(w) = Len(h) - k /\ \A i \in 1..Len(w) : w[i] = h[k + i]
    BY <1>0, <1>2, <2>1, <2>3
  <2>5. ASSUME ValidWindow(h), NEW i \in 1..Len(w) PROVE w[i].tokens > 0
    <3>1. k + i \in 1..Len(h) /\ k + i > Len(h) - 2 * MAX_TURNS
      BY <1>0, <2>1, <2>4
    <3> QED BY <2>4, <2>5, <3>1 DEF ValidWindow
  <2>6. ASSUME Valid(w), NEW i \in 1..Len(h), i > Len(h) - 2 * MAX_TURNS
        PROVE  h[i].tokens > 0
    <3>1. i - k \in 1..Len(w) /\ k + (i - k) = i
      BY <1>0, <2>1, <2>4, <2>6
    <3>2. w[i - k] = h[i]
      BY <2>4, <3>1
    <3> QED BY <2>6, <3>1, <3>2 DEF Valid
  <2> QED BY <2>1, <2>5, <2>6 DEF Valid, ValidWindow
<1> QED BY <1>1, <1>2

LEMMA WindowOfSame ==
  ASSUME NEW g, NEW h, Len(g) = Len(h), \A i \in 1..Len(h) : g[i].tokens = h[i].tokens
  PROVE  ValidWindow(g) <=> ValidWindow(h)
BY DEF ValidWindow

LEMMA WindowOfMore ==
  ASSUME NEW h \in Seq(Messages), NEW m \in Messages, m.tokens > 0, ValidWindow(h)
  PROVE  ValidWindow(Append(h, m))
<1>1. MAX_TURNS \in Nat /\ Len(h) \in Nat
  BY SessionAssumption
<1>2. /\ Len(Append(h, m)) = Len(h) + 1 /\ \A i \in 1..Len(h) : Append(h, m)[i] = h[i]
      /\ Append(h, m)[Len(h) + 1] = m
  BY AppendPlaces
<1>3. ASSUME NEW i \in 1..(Len(h) + 1), i > Len(h) + 1 - 2 * MAX_TURNS
      PROVE  Append(h, m)[i].tokens > 0
  <2>1. i = Len(h) + 1 \/ (i \in 1..Len(h) /\ i > Len(h) - 2 * MAX_TURNS)
    BY <1>1, <1>3
  <2> QED BY <1>2, <2>1 DEF ValidWindow
<1> DEFINE g == Append(h, m)
<1>4. /\ Len(g) = Len(h) + 1
      /\ \A i \in 1..(Len(h) + 1) : i > Len(h) + 1 - 2 * MAX_TURNS => g[i].tokens > 0
  BY <1>2, <1>3
<1> HIDE DEF g
<1>5. ValidWindow(g)
  <2> SUFFICES ASSUME NEW i \in 1..Len(g), i > Len(g) - 2 * MAX_TURNS
               PROVE  g[i].tokens > 0
    BY DEF ValidWindow
  <2>1. i \in 1..(Len(h) + 1) /\ i > Len(h) + 1 - 2 * MAX_TURNS
    BY <1>1, <1>4
  <2> QED BY <1>4, <2>1
<1> QED BY <1>5 DEF g

\* An invalid history gets no answer: the api refuses it.
LEMMA InvalidWaits ==
  ASSUME ProxyInv, Posts, SessionNext, ~ Prompt, ~ Valid(posted)
  PROVE  pc'[The] \in {"new", "refused"}
<1>0. pc[The] \in {"new", "refused"} /\ pc \in [Requests -> {"new"} \cup Active \cup Terminal]
      /\ The \in Requests
  BY TheRequest DEF Posts, ProxyInv, ProxyTypeOK
<1>1. CASE ApiStep
  <2>1. Refuse(The) \/ Send(The) \/ Disconnect(The)
    BY <1>0, <1>1 DEF ApiStep, HandOn, Cancel, UpstreamStep, ConnectFails, Headers,
                      ErrorStatus, EmptyStream, LineArrives, Breaks, EndOfStream, Reading
  <2> QED BY <1>0, <2>1 DEF Refuse, Send, Disconnect, Goto
<1>2. CASE Script \/ Interrupt
  <2>1. UNCHANGED pc
    BY <1>2 DEF Script, Refused, PostFails, Opened, Chunk, StreamError, Keep, ReadFails,
                Interrupt, Disconnect, proxyVars
  <2> QED BY <1>0, <2>1
<1> QED BY <1>1, <1>2 DEF SessionNext

LEMMA KeepsWhatIsValid ==
  ASSUME ProxyInv, Reads, Posts, ui = "reading", LoopEnds
  PROVE  Valid(posted)
<1>1. pc[The] \in {"new", "refused"} => lines[The] = <<>>
  BY TheRequest DEF ProxyInv, Sound, StatusFits, Silent
<1>2. HasLine => Len(lines[The]) > 0
  BY SeenYielded DEF Reads, HasLine
<1>3. pc[The] \notin {"new", "refused"}
  BY <1>1, <1>2 DEF LoopEnds
<1> QED BY <1>3 DEF Posts

LEMMA PostsStep ==
  ASSUME ProxyInv, Reads, Talk, Posts, SessionNext
  PROVE  Posts'
<1>0. /\ messages \in Seq(Messages) /\ Len(messages) \in Nat /\ turn \in Nat
      /\ shown \in [Prompts -> {"nothing", "reply", "banner", "broken"}] /\ reply \in Nat
  BY SessionAssumption DEF Talk, Reads
<1>1. CASE Prompt
  <2>1. /\ ui' = "waiting" /\ turn' = turn + 1 /\ turn' \in Prompts
        /\ messages' = Append(messages, Question(turn')) /\ posted' = Trimmed(messages')
    BY <1>0, <1>1, SessionAssumption DEF Prompt, Talk, Prompts
  <2>2. messages' \in Seq(Messages)
    BY <1>0, <2>1, Questions, AppendPlaces
  <2>3. Valid(posted') <=> ValidWindow(messages')
    BY <2>1, <2>2, WindowOfTrimmed
  <2>4. pc'[The] = "new"
    BY <1>1, NewRequestSound DEF Prompt
  <2> QED BY <1>0, <2>1, <2>3, <2>4 DEF Posts
<1>2. ASSUME NEW s \in {"reply", "banner", "broken"}, Ends(s), ~ Prompt
      PROVE  /\ turn \in Prompts /\ turn > 0 /\ turn' = turn /\ posted' = posted /\ reply' = reply
             /\ ui' = "idle" /\ shown'[turn] = s /\ (Valid(posted) <=> ValidWindow(messages))
             /\ Len(messages) > 0 /\ messages[Len(messages)] = Question(turn)
             /\ ~ Valid(posted)' => pc'[The] \in {"new", "refused"}
  <2>1. /\ turn \in Prompts /\ turn' = turn /\ posted' = posted /\ reply' = reply
        /\ ui # "idle" /\ ui' = "idle" /\ shown'[turn] = s
        /\ Len(messages) > 0 /\ messages[Len(messages)] = Question(turn)
    BY <1>0, <1>2 DEF Ends, Shows, Talk
  <2>2. turn > 0
    BY <2>1, PromptsAreNat
  <2>3. Valid(posted)' = Valid(posted)
    BY <2>1 DEF Valid
  <2> QED BY <1>2, <2>1, <2>2, <2>3, InvalidWaits DEF Posts
<1>3. CASE Ends("banner") /\ messages' = Popped(messages) /\ ~ Prompt
  <2>1. /\ turn \in Prompts /\ turn > 0 /\ turn' = turn /\ posted' = posted /\ reply' = reply
        /\ ui' = "idle" /\ shown'[turn] = "banner" /\ (Valid(posted) <=> ValidWindow(messages))
        /\ Len(messages) > 0 /\ messages[Len(messages)] = Question(turn)
        /\ ~ Valid(posted)' => pc'[The] \in {"new", "refused"}
    BY <1>2, <1>3
  <2>2. /\ messages' \in Seq(Messages) /\ Len(messages') = Len(messages) - 1
        /\ \A i \in 1..(Len(messages) - 1) : messages'[i] = messages[i]
    BY <1>0, <1>3, <2>1, PoppedPlaces
  <2>3. /\ Len(Append(messages', Question(turn))) = Len(messages)
        /\ \A i \in 1..Len(messages) : Append(messages', Question(turn))[i] = messages[i]
    <3>1. /\ Len(Append(messages', Question(turn))) = Len(messages') + 1
          /\ \A i \in 1..Len(messages') : Append(messages', Question(turn))[i] = messages'[i]
          /\ Append(messages', Question(turn))[Len(messages') + 1] = Question(turn)
      BY <2>1, <2>2, Questions, AppendPlaces
    <3> QED BY <1>0, <2>1, <2>2, <3>1
  <2>4. ValidWindow(Append(messages', Question(turn))) <=> ValidWindow(messages)
    BY <2>3, WindowOfSame
  <2> QED BY <2>1, <2>4 DEF Posts
<1>4. CASE Ends("broken") /\ UNCHANGED messages /\ ~ Prompt
  BY <1>2, <1>4 DEF Posts
<1>5. CASE Ends("reply") /\ messages' = Append(messages, Reply(turn, reply)) /\ ~ Prompt
           /\ ui = "reading" /\ LoopEnds
  <2>1. /\ turn \in Prompts /\ turn > 0 /\ turn' = turn /\ posted' = posted /\ reply' = reply
        /\ ui' = "idle" /\ shown'[turn] = "reply" /\ (Valid(posted) <=> ValidWindow(messages))
        /\ Len(messages) > 0
    BY <1>2, <1>5
  <2>2. Valid(posted)
    BY <1>5, KeepsWhatIsValid
  <2>3. /\ messages' \in Seq(Messages) /\ Len(messages') = Len(messages) + 1
        /\ \A i \in 1..Len(messages) : messages'[i] = messages[i]
        /\ messages'[Len(messages) + 1] = Reply(turn, reply)
    BY <1>0, <1>5, <2>1, Questions, AppendPlaces
  <2>4. /\ Len(SubSeq(messages', 1, Len(messages') - 1)) = Len(messages)
        /\ \A i \in 1..Len(messages) : SubSeq(messages', 1, Len(messages') - 1)[i] = messages[i]
    <3>1. /\ Len(Popped(messages')) = Len(messages') - 1
          /\ \A i \in 1..(Len(messages') - 1) : Popped(messages')[i] = messages'[i]
          /\ Popped(messages') = SubSeq(messages', 1, Len(messages') - 1)
      <4>1. messages' \in Seq(Messages) /\ Len(messages') > 0
        BY <1>0, <2>3
      <4> QED BY <4>1, PoppedPlaces
    <3> QED BY <1>0, <2>3, <3>1
  <2>5. ValidWindow(SubSeq(messages', 1, Len(messages') - 1)) <=> ValidWindow(messages)
    BY <2>4, WindowOfSame
  <2>6. Valid(posted)' = Valid(posted)
    BY <2>1 DEF Valid
  <2> QED BY <1>0, <2>1, <2>2, <2>3, <2>5, <2>6 DEF Posts
<1>6. ASSUME UNCHANGED <<turn, messages, posted, shown>>, ~ Prompt,
             \/ ui # "idle" /\ ui' # "idle"
             \/ ui' = ui /\ reply' = reply
      PROVE  Posts'
  <2>1. /\ ~ Valid(posted)' => pc'[The] \in {"new", "refused"}
        /\ Valid(posted)' = Valid(posted)
    BY <1>6, InvalidWaits DEF Valid
  <2> QED BY <1>6, <2>1 DEF Posts
<1>7. CASE ui # "idle" /\ ui' \in {"waiting", "reading"} /\ UNCHANGED <<turn, messages, posted, shown>>
           /\ ~ Prompt
  BY <1>6, <1>7
<1>8. CASE UNCHANGED sessionVars /\ ~ Prompt
  BY <1>6, <1>8 DEF sessionVars
<1> QED BY <1>1, <1>3, <1>4, <1>5, <1>7, <1>8, SessionTalks DEF TalkMove
-----------------------------------------------------------------------------
LEMMA SessionBegins == SessionInit => SessionInv
<1> SUFFICES ASSUME SessionInit PROVE SessionInv
  OBVIOUS
<1>1. ProxyInv
  BY ProxyTypeInit, SoundInit DEF SessionInit, ProxyInv
<1>2. /\ lines[The] = <<>> /\ seen[The] = 0 /\ sent[The] = 0 /\ pc[The] = "new"
      /\ Len(messages) = 0 /\ Len(posted) = 0 /\ messages \in Seq(Messages)
  BY TheRequest DEF SessionInit, ProxyInit
<1>3. Reads
  BY <1>2 DEF SessionInit, Reads, DoneLast
<1>4. Talk
  BY <1>2, SessionAssumption DEF SessionInit, Talk
<1>5. Posts
  BY <1>2 DEF SessionInit, Posts, Valid
<1>6. HistoryIsPaired
  BY <1>2 DEF HistoryIsPaired
<1> QED BY <1>1, <1>3, <1>4, <1>5, <1>6 DEF SessionInv

LEMMA SessionStep == SessionInv /\ [SessionNext]_vars => SessionInv'
<1> SUFFICES ASSUME SessionInv, [SessionNext]_vars PROVE SessionInv'
  OBVIOUS
<1>1. CASE SessionNext
  <2>1. ProxyInv /\ Reads /\ Talk /\ Posts /\ HistoryIsPaired /\ TalkMove /\ reply \in Nat
    BY <1>1, SessionTalks DEF SessionInv, Reads
  <2>2. ProxyInv'
    BY <1>1, <2>1, SessionProxyInv
  <2>3. Reads'
    BY <1>1, <2>1, ReadsStep
  <2>4. Talk'
    BY <2>1, TalkStep
  <2>5. HistoryIsPaired'
    BY <2>1, PairedStep
  <2>6. Posts'
    BY <1>1, <2>1, PostsStep
  <2> QED BY <2>2, <2>3, <2>4, <2>5, <2>6 DEF SessionInv
<1>2. CASE UNCHANGED vars
  <2>1. UNCHANGED proxyVars /\ UNCHANGED sessionVars
    BY <1>2 DEF vars
  <2>2. ProxyInv' /\ Reads'
    BY <2>1 DEF SessionInv, ProxyInv, ProxyTypeOK, Sound, Reads, ReadSo, proxyVars, sessionVars
  <2>3. Talk' /\ HistoryIsPaired'
    BY <2>1 DEF SessionInv, Talk, HistoryIsPaired, sessionVars
  <2>4. Posts'
    BY <2>1 DEF SessionInv, Posts, Valid, proxyVars, sessionVars
  <2> QED BY <2>2, <2>3, <2>4 DEF SessionInv
<1> QED BY <1>1, <1>2

\* A session's request is sound, what the script has read is what it was sent,
\* and what was posted last follows from the history.
THEOREM SessionInvariance == SessionSpec => []SessionInv
BY SessionBegins, SessionStep, PTL DEF SessionSpec

\* The history is a conversation, whatever ends the prompts and however many
\* there are: a reply follows its own prompt, and a prompt without one is the
\* one under way or belongs to a script that was broken off.
THEOREM HistoryPaired == SessionSpec => []HistoryIsPaired
<1>1. SessionInv => HistoryIsPaired
  BY DEF SessionInv
<1> QED BY <1>1, SessionInvariance, PTL

\* A reply is kept once [DONE] was read; a body that ends without it cannot be,
\* for what ends a body is [DONE] or the error event, and the script stops at
\* either.
LEMMA KeepsTheWhole ==
  ASSUME SessionInv, ui = "reading", LoopEnds
  PROVE  /\ reply = Summary(lines[The], Len(lines[The])).text
         /\ \E j \in 1..Len(lines[The]) :
              /\ lines[The][j] = "done"
              /\ \A k \in 1..j : lines[The][k] \notin {"error", ErrorEvent}
<1> DEFINE ls == lines[The]
           n  == Len(ls)
<1>1. /\ ProxyInv /\ seen[The] <= sent[The] /\ DoneLast(ls) /\ read \in Nat
      /\ read <= seen[The] /\ reply = Summary(ls, read).text
      /\ \A i \in 1..read : ls[i] \notin {"done", "error", ErrorEvent}
  BY DEF SessionInv, Reads, ReadSo
<1>2. seen[The] <= n /\ n \in Nat /\ seen[The] \in Nat
  BY <1>1, SeenYielded
<1>3. CASE HasLine
  <2>1. read + 1 \in 1..n /\ ls[read + 1] = "done"
    BY <1>1, <1>2, <1>3 DEF LoopEnds, HasLine, NextLine
  <2>2. \A i \in (read + 2)..n : ls[i] = ErrorEvent
    BY <1>1, <2>1 DEF DoneLast
  <2>3. \A i \in 1..n : i \in 1..read \/ i = read + 1 \/ i \in (read + 2)..n
    BY <1>1, <1>2
  <2>4. \A i \in 1..n : ls[i] \in Tokens => i \in 1..read
    BY <2>1, <2>2, <2>3 DEF Tokens, ErrorEvent
  <2>5. 1..read \subseteq 1..n
    BY <1>1, <1>2
  <2>6. {i \in 1..n : ls[i] \in Tokens} = {i \in 1..read : ls[i] \in Tokens}
    BY <2>4, <2>5
  <2>7. Summary(ls, n).text = Summary(ls, read).text
    BY <2>6 DEF Summary
  <2>8. \A k \in 1..(read + 1) : ls[k] \notin {"error", ErrorEvent}
    <3>1. \A k \in 1..(read + 1) : k \in 1..read \/ k = read + 1
      BY <1>1
    <3> QED BY <1>1, <2>1, <3>1 DEF ErrorEvent
  <2> QED BY <1>1, <2>1, <2>7, <2>8
<1>4. CASE ~ HasLine
  <2>1. pc[The] = "end" /\ read = n
    BY <1>4 DEF LoopEnds
  <2>2. ls # <<>> /\ Last(ls) \in {"done", ErrorEvent} /\ ls \in Seq(Lines)
    BY <1>1, <2>1, TheRequest DEF ProxyInv, ProxyTypeOK, Sound, StatusFits, EndFits
  <2>3. n \in 1..read
    BY <2>1, <2>2
  <2> QED BY <1>1, <2>2, <2>3 DEF Last
<1> QED BY <1>3, <1>4

\* No partial answer enters the history, at any step of any session.
THEOREM KeptWhole == SessionSpec => KeptIsWhole
<1>1. ASSUME SessionInv, [SessionNext]_vars,
             Len(messages') > Len(messages), messages'[Len(messages')].role = "assistant"
      PROVE  /\ messages'[Len(messages')].tokens = Summary(lines[The], Len(lines[The])).text
             /\ \E j \in 1..Len(lines[The]) :
                  /\ lines[The][j] = "done"
                  /\ \A k \in 1..j : lines[The][k] \notin {"error", ErrorEvent}
  <2>0. /\ Talk /\ messages \in Seq(Messages) /\ Len(messages) \in Nat /\ reply \in Nat
        /\ turn \in Nat /\ (ui # "idle" => turn \in Prompts /\ Len(messages) > 0)
    BY <1>1, SessionAssumption DEF SessionInv, Talk, Reads
  <2>1. TalkMove
    <3>1. messages' # messages
      BY <1>1, <2>0
    <3> QED BY <1>1, <2>0, <3>1, SessionTalks DEF vars, sessionVars
  <2>2. ~ Prompt
    <3> SUFFICES ASSUME Prompt PROVE FALSE
      OBVIOUS
    <3>1. turn + 1 \in Prompts /\ messages' = Append(messages, Question(turn + 1))
      BY <2>0, SessionAssumption DEF Prompt, Prompts, Talk
    <3>2. Question(turn + 1) \in Messages /\ Question(turn + 1).role = "user"
      BY <3>1, Questions
    <3>3. messages'[Len(messages')] = Question(turn + 1)
      BY <2>0, <3>1, <3>2
    <3> QED BY <1>1, <3>2, <3>3
  <2>3. ~ (Ends("banner") /\ messages' = Popped(messages))
    <3> SUFFICES ASSUME Ends("banner"), messages' = Popped(messages) PROVE FALSE
      OBVIOUS
    <3>1. Len(messages') = Len(messages) - 1
      BY <2>0, PoppedPlaces DEF Ends
    <3> QED BY <1>1, <2>0, <3>1
  <2>4. messages' # messages
    BY <1>1, <2>0
  <2>5. /\ Ends("reply") /\ messages' = Append(messages, Reply(turn, reply))
        /\ ui = "reading" /\ LoopEnds
    BY <2>1, <2>2, <2>3, <2>4 DEF TalkMove, sessionVars
  <2>6. Reply(turn, reply) \in Messages /\ Reply(turn, reply).tokens = reply
    BY <2>0, <2>5, Questions
  <2>7. messages'[Len(messages')] = Reply(turn, reply)
    BY <2>0, <2>5, <2>6
  <2> QED BY <1>1, <2>5, <2>6, <2>7, KeepsTheWhole
<1>2. SessionInv /\ [SessionNext]_vars =>
        [Len(messages') > Len(messages) /\ messages'[Len(messages')].role = "assistant" =>
           /\ messages'[Len(messages')].tokens = Summary(lines[The], Len(lines[The])).text
           /\ \E j \in 1..Len(lines[The]) :
                /\ lines[The][j] = "done"
                /\ \A k \in 1..j : lines[The][k] \notin {"error", ErrorEvent}]_vars
  BY <1>1
<1> QED BY <1>2, SessionInvariance, PTL DEF SessionSpec, KeptIsWhole

-----------------------------------------------------------------------------
\* The next prompt's window, by how the last one ended.
LEMMA NextWindow ==
  ASSUME SessionInv, SessionNext, turn' > turn
  PROVE  /\ (turn > 0 /\ shown[turn] = "banner" => (Valid(posted') <=> Valid(posted)))
         /\ (turn > 0 /\ shown[turn] = "broken" /\ Valid(posted) => Valid(posted'))
         /\ (turn > 0 /\ shown[turn] = "reply" => Valid(posted) /\ (reply > 0 => Valid(posted')))
         /\ (turn > 0 => shown[turn] \in {"reply", "banner", "broken"})
         /\ (turn = 0 => Valid(posted))
<1>0. /\ Talk /\ Posts /\ reply \in Nat /\ messages \in Seq(Messages)
      /\ Len(messages) \in Nat /\ turn \in Nat /\ turn \in 0..MaxPrompts
  BY SessionAssumption DEF SessionInv, Talk, Reads
<1>1. Prompt
  <2>1. turn' # turn
    BY <1>0
  <2>2. TalkMove
    BY <1>0, SessionTalks
  <2> QED BY <2>1, <2>2 DEF TalkMove, Ends, sessionVars
<1>2. /\ ui = "idle" /\ turn + 1 \in Prompts /\ (turn > 0 => turn \in Prompts)
      /\ messages' = Append(messages, Question(turn + 1)) /\ posted' = Trimmed(messages')
  BY <1>0, <1>1, SessionAssumption DEF Prompt, Prompts
<1>3. /\ messages' \in Seq(Messages) /\ Len(messages') = Len(messages) + 1
      /\ \A i \in 1..Len(messages) : messages'[i] = messages[i]
      /\ messages'[Len(messages) + 1].tokens = 1
      /\ Question(turn + 1) \in Messages /\ Question(turn + 1).tokens > 0
  BY <1>0, <1>2, Questions, AppendPlaces
<1>4. Valid(posted') <=> ValidWindow(messages')
  BY <1>2, <1>3, WindowOfTrimmed
<1>5. ValidWindow(messages) => ValidWindow(messages')
  BY <1>0, <1>2, <1>3, WindowOfMore
<1>6. ASSUME turn > 0, shown[turn] = "banner"
      PROVE  Valid(posted') <=> Valid(posted)
  <2> DEFINE g == Append(messages, Question(turn))
  <2>1. Valid(posted) <=> ValidWindow(g)
    BY <1>0, <1>2, <1>6 DEF Posts
  <2>2. /\ Len(g) = Len(messages) + 1 /\ \A i \in 1..Len(messages) : g[i] = messages[i]
        /\ g[Len(messages) + 1].tokens = 1
    BY <1>0, <1>2, <1>6, Questions, AppendPlaces
  <2> HIDE DEF g
  <2>3. \A i \in 1..Len(messages') : i \in 1..Len(messages) \/ i = Len(messages) + 1
    BY <1>0, <1>3
  <2>4. Len(g) = Len(messages') /\ \A i \in 1..Len(messages') : g[i].tokens = messages'[i].tokens
    BY <1>3, <2>2, <2>3
  <2>5. ValidWindow(g) <=> ValidWindow(messages')
    BY <2>4, WindowOfSame
  <2> QED BY <1>4, <2>1, <2>5
<1>7. ASSUME turn > 0, shown[turn] = "reply", reply > 0
      PROVE  Valid(posted')
  <2> DEFINE h == SubSeq(messages, 1, Len(messages) - 1)
             m == Reply(turn, reply)
             g == Append(h, m)
  <2>1. Len(messages) > 1 /\ messages[Len(messages)] = m /\ ValidWindow(h)
    BY <1>0, <1>2, <1>7 DEF Posts
  <2>2. /\ h \in Seq(Messages) /\ Len(h) = Len(messages) - 1
        /\ \A i \in 1..(Len(messages) - 1) : h[i] = messages[i]
    BY <1>0, <2>1, PoppedPlaces
  <2>3. m \in Messages /\ m.tokens > 0
    BY <1>0, <1>2, <1>7, Questions
  <2> HIDE DEF h, m
  <2>4. ValidWindow(g)
    BY <2>1, <2>2, <2>3, WindowOfMore
  <2>5. /\ Len(g) = Len(h) + 1 /\ \A i \in 1..Len(h) : g[i] = h[i] /\ g[Len(h) + 1] = m
    BY <2>2, <2>3, AppendPlaces
  <2>6. Len(h) + 1 = Len(messages) /\ Len(h) \in Nat /\ g[Len(h) + 1] = m
    BY <1>0, <2>2, <2>3, AppendPlaces
  <2> HIDE DEF g
  <2>7. \A i \in 1..Len(messages) : g[i] = messages[i]
    <3>1. \A i \in 1..Len(messages) : i \in 1..Len(h) \/ i = Len(messages)
      BY <1>0, <2>2
    <3>2. \A i \in 1..Len(h) : g[i] = messages[i]
      BY <2>2, <2>5
    <3> QED BY <2>1, <2>6, <3>1, <3>2
  <2>8. ValidWindow(g) <=> ValidWindow(messages)
    BY <2>5, <2>6, <2>7, WindowOfSame
  <2> QED BY <1>4, <1>5, <2>4, <2>8
<1>8. ASSUME turn > 0, shown[turn] = "broken", Valid(posted)
      PROVE  Valid(posted')
  BY <1>0, <1>2, <1>4, <1>5, <1>8 DEF Posts
<1> QED BY <1>0, <1>2, <1>6, <1>7, <1>8 DEF Posts

\* An invalid history was refused or has not been read: no answer comes of it.
LEMMA InvalidIsSilent == SessionInv => (~ Valid(posted) => status[The] # 200)
BY TheRequest DEF SessionInv, Posts, ProxyInv, Sound, StatusFits, Silent

\* Only an empty answer makes a history invalid, and then every later one is,
\* until a script is broken off: for any window, any number of prompts and any
\* order of endings.
THEOREM EmptyPoisons == SessionSpec => EmptyReplyPoisons
<1>1. SessionInv /\ [SessionNext]_vars =>
        [(turn' > turn /\ ~ Valid(posted) /\ shown[turn] # "broken") => ~ Valid(posted')]_vars
  <2> SUFFICES ASSUME SessionInv, SessionNext, turn' > turn, ~ Valid(posted),
                      shown[turn] # "broken"
               PROVE  ~ Valid(posted')
    OBVIOUS
  <2>1. turn \in Nat
    BY SessionAssumption DEF SessionInv, Talk
  <2> QED BY <2>1, NextWindow
<1>2. SessionInv /\ [SessionNext]_vars =>
        [(turn' > turn /\ turn > 0 /\ Valid(posted) /\ ~ Valid(posted'))
           => shown[turn] = "reply" /\ reply = 0]_vars
  <2> SUFFICES ASSUME SessionInv, SessionNext, turn' > turn, turn > 0, Valid(posted),
                      ~ Valid(posted')
               PROVE  shown[turn] = "reply" /\ reply = 0
    OBVIOUS
  <2>1. reply \in Nat
    BY DEF SessionInv, Reads
  <2> QED BY <2>1, NextWindow
<1> QED BY <1>1, <1>2, SessionInvariance, InvalidIsSilent, PTL DEF SessionSpec, EmptyReplyPoisons
=============================================================================
