----------------------------- MODULE ChatSession ----------------------------
(***************************************************************************)
(* One browser session of the chat UI (ui/app.py) talking to the chat      *)
(* proxy (ChatProxy): main(), one run of the script per prompt, and        *)
(* stream_reply(), which posts the trimmed history and reads the stream.   *)
(* The one request of the proxy is the current prompt's: what the api      *)
(* still does for an earlier one is nothing to the session, which has      *)
(* closed that connection.                                                 *)
(*                                                                         *)
(* The script blocks in requests; what can end it early is a status that   *)
(* is not 200, an error on the stream, requests' own timeout or a lost     *)
(* connection, and the user, whose next prompt or click stops the running  *)
(* script at its next call of Streamlit.                                   *)
(***************************************************************************)
EXTENDS ChatProxy

CONSTANTS MAX_TURNS,
          MaxPrompts,  \* bound on the prompts of the session
          Impatient    \* may the user interrupt a running script?

ASSUME SessionAssumption ==
  /\ MAX_TURNS \in Nat \ {0} /\ MaxPrompts \in Nat /\ Impatient \in BOOLEAN
  /\ Requests # {} /\ \A r, s \in Requests : r = s

Prompts == 1..MaxPrompts
The     == CHOOSE r \in Requests : TRUE

VARIABLES
  ui,         \* where the script is: "idle", "waiting" for headers or "reading"
  turn,       \* the last prompt sent
  messages,   \* st.session_state.messages
  posted,     \* the history sent with the current prompt
  read,       \* lines of the response read so far
  reply,      \* tokens shown so far
  shown       \* what the user was shown in the end: "reply", "banner", "broken"

sessionVars == <<ui, turn, messages, posted, read, reply, shown>>
vars        == <<proxyVars, sessionVars>>

\* A message: what matters of its content is how many tokens it has.
Messages == [role : {"user", "assistant"}, prompt : Prompts, tokens : Nat]

Question(p) == [role |-> "user", prompt |-> p, tokens |-> 1]
Reply(p, n) == [role |-> "assistant", prompt |-> p, tokens |-> n]

SessionTypeOK ==
  /\ ui \in {"idle", "waiting", "reading"}
  /\ turn \in 0..MaxPrompts
  /\ messages \in Seq(Messages)
  /\ posted \in Seq(Messages) /\ Len(posted) <= 2 * MAX_TURNS
  /\ read \in 0..MaxLines + 1 /\ reply \in 0..MaxLines
  /\ shown \in [Prompts -> {"nothing", "reply", "banner", "broken"}]

SessionInit ==
  /\ ProxyInit
  /\ ui = "idle" /\ turn = 0
  /\ messages = <<>> /\ posted = <<>>
  /\ read = 0 /\ reply = 0
  /\ shown = [p \in Prompts |-> "nothing"]

NewRequest ==
  /\ pc' = [pc EXCEPT ![The] = "new"] /\ status' = [status EXCEPT ![The] = 0]
  /\ lines' = [lines EXCEPT ![The] = <<>>]
  /\ handed' = [handed EXCEPT ![The] = 0] /\ sent' = [sent EXCEPT ![The] = 0]
  /\ seen' = [seen EXCEPT ![The] = 0] /\ client' = [client EXCEPT ![The] = TRUE]
  /\ acc' = [acc EXCEPT ![The] = Blank] /\ trace' = [trace EXCEPT ![The] = {}]

\* The most recent turns.
Trimmed(h) == IF Len(h) <= 2 * MAX_TURNS
              THEN h ELSE SubSeq(h, Len(h) - 2 * MAX_TURNS + 1, Len(h))

Popped(h) == SubSeq(h, 1, Len(h) - 1)

-----------------------------------------------------------------------------
(* The script.                                                             *)

Prompt ==
  /\ ui = "idle" /\ turn < MaxPrompts
  /\ ui' = "waiting"
  /\ turn' = turn + 1
  /\ messages' = Append(messages, Question(turn + 1))
  /\ posted' = Trimmed(messages')
  /\ read' = 0 /\ reply' = 0
  /\ NewRequest
  /\ UNCHANGED shown

Shows(s) == ui' = "idle" /\ shown' = [shown EXCEPT ![turn] = s]

\* Mutant: the unanswered prompt stays in the history.
Banner_Keeps ==
  /\ Shows("banner")
  /\ UNCHANGED <<turn, messages, posted, read, reply>>

\* Mutant: the last turn is dropped, not the last message.
Banner_Turn ==
  /\ Shows("banner")
  /\ messages' = IF Len(messages) > 2 THEN Popped(Popped(messages)) ELSE <<>>
  /\ UNCHANGED <<turn, posted, read, reply>>

\* A RuntimeError: the banner, and the unanswered prompt is dropped.
Banner ==
  /\ Shows("banner")
  /\ messages' = Popped(messages)
  /\ UNCHANGED <<turn, posted, read, reply>>

\* Any other exception, or Streamlit stopping the script: nothing is dropped.
Broken ==
  /\ Shows("broken")
  /\ UNCHANGED <<turn, messages, posted, read, reply>>

\* requests.post returns a status that is not 200.
Refused ==
  /\ ui = "waiting" /\ status[The] \in {400, 502}
  /\ Banner
  /\ UNCHANGED proxyVars

\* Mutant: no timeout, as for the proxy's own reads.
PostFails_Untimed == FALSE

\* It cannot connect, or no header arrives for REQUEST_TIMEOUT_S; the api may
\* have the request all the same.
PostFails ==
  /\ ui = "waiting"
  /\ Banner
  /\ Disconnect(The)

Opened ==
  /\ ui = "waiting" /\ status[The] = 200
  /\ ui' = "reading"
  /\ UNCHANGED <<proxyVars, turn, messages, posted, read, reply, shown>>

HasLine  == read < seen[The]
NextLine == lines[The][read + 1]

\* Mutant: an error on the stream is a chunk without choices, like any other.
Chunk_Error ==
  /\ ui = "reading" /\ HasLine /\ NextLine # "done"
  /\ read' = read + 1
  /\ reply' = IF NextLine \in Tokens THEN reply + 1 ELSE reply
  /\ UNCHANGED <<proxyVars, ui, turn, messages, posted, shown>>

\* A chunk: its content, if any, is shown.
Chunk ==
  /\ ui = "reading" /\ HasLine /\ NextLine \notin {"done", "error", ErrorEvent}
  /\ read' = read + 1
  /\ reply' = IF NextLine \in Tokens THEN reply + 1 ELSE reply
  /\ UNCHANGED <<proxyVars, ui, turn, messages, posted, shown>>

StreamError ==
  /\ ui = "reading" /\ HasLine /\ NextLine \in {"error", ErrorEvent}
  /\ Banner
  /\ Disconnect(The)

\* The loop over the lines ends: at [DONE], or when the body does.
LoopEnds == IF HasLine THEN NextLine = "done"
            ELSE pc[The] = "end" /\ read = Len(lines[The])

\* What was shown joins the history; the response is dropped half read.
Keep ==
  /\ ui = "reading" /\ LoopEnds
  /\ Shows("reply")
  /\ messages' = Append(messages, Reply(turn, reply))
  /\ Disconnect(The)
  /\ UNCHANGED <<turn, posted, read, reply>>

\* iter_lines raises: no byte for REQUEST_TIMEOUT_S, or the connection is lost.
ReadFails ==
  /\ ui = "reading"
  /\ Broken
  /\ Disconnect(The)

\* The user does not wait for the end.
Interrupt ==
  /\ Impatient /\ ui # "idle"
  /\ Broken
  /\ Disconnect(The)

Script == Refused \/ PostFails \/ Opened \/ Chunk \/ StreamError \/ Keep \/ ReadFails

-----------------------------------------------------------------------------
(* The api.                                                                *)

\* ChatMessage: content has at least one character.
Valid(h) == \A i \in 1..Len(h) : h[i].tokens > 0

\* A prompt reaches the api once it was sent; an invalid history is a 422, a
\* valid one may still be refused (401, 413: keys and sizes are not modelled).
ApiStep ==
  /\ turn > 0
  /\ \/ Refuse(The)
     \/ Open(The) /\ Valid(posted)
     \/ HandOn(The) \/ Send(The) \/ Cancel(The)
     \/ UpstreamStep(The)
  /\ UNCHANGED sessionVars

SessionNext == Prompt \/ Script \/ Interrupt \/ ApiStep

\* The script runs on: requests.post and iter_lines return or time out.  Nothing
\* is asked of the api or of the model server.
SessionSpec ==
  SessionInit /\ [][SessionNext]_vars /\ WF_vars(Script)

-----------------------------------------------------------------------------
(* Properties.                                                             *)

\* No partial answer enters the history: the reply a session keeps is every
\* token the model produced for its prompt, and [DONE] came with no error
\* before it.  (The loop over the lines takes any end for a good one; this rests
\* on the proxy never ending a stream silently.)
KeptIsWhole ==
  [][Len(messages') > Len(messages) /\ messages'[Len(messages')].role = "assistant" =>
       /\ messages'[Len(messages')].tokens = Summary(lines[The], Len(lines[The])).text
       /\ \E j \in 1..Len(lines[The]) :
            /\ lines[The][j] = "done"
            /\ \A k \in 1..j : lines[The][k] \notin {"error", ErrorEvent}
    ]_vars

\* The history is a conversation: prompts in order, each followed by its own
\* reply, but for the one under way and those whose script was broken off; a
\* prompt that ended in a banner is nowhere in it.
HistoryIsPaired ==
  \A i \in 1..Len(messages) :
    LET m == messages[i]
    IN  /\ i > 1 => messages[i - 1].prompt <= m.prompt
        /\ m.role = "assistant" => i > 1 /\ messages[i - 1] = Question(m.prompt)
        /\ m.role = "user" =>
             \/ i < Len(messages) /\ messages[i + 1].prompt = m.prompt
             \/ shown[m.prompt] = "broken"
             \/ ui # "idle" /\ m.prompt = turn

\* An empty answer, kept like any other, poisons the session: the next history
\* is invalid, it is not answered, and dropping its prompt makes the one after
\* it invalid again, until a broken script pushes the empty answer out of the
\* window.  Nothing else makes a history invalid.
EmptyReplyPoisons ==
  /\ [][(turn' > turn /\ ~ Valid(posted) /\ shown[turn] # "broken")
           => ~ Valid(posted')]_vars
  /\ [](~ Valid(posted) => status[The] # 200)
  /\ [][(turn' > turn /\ turn > 0 /\ Valid(posted) /\ ~ Valid(posted'))
           => shown[turn] = "reply" /\ reply = 0]_vars

\* "Silence is the one unacceptable outcome": every prompt ends in a reply, a
\* banner or a broken script, even if the api and the model stay silent.
PromptEnds == ui # "idle" ~> ui = "idle"

-----------------------------------------------------------------------------
(* What a comment says and the code does not do.                           *)

\* app.py:149-150, the unanswered turn is dropped "so a retry does not resend
\* a dangling user message with no reply after it".
NoDanglingTurn ==
  \A i \in 1..(Len(posted) - 1) :
    posted[i].role = "user" => posted[i + 1].role = "assistant"
=============================================================================
