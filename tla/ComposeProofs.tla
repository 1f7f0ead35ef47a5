---------------------------- MODULE ComposeProofs ---------------------------
(***************************************************************************)
(* Proofs about the api process (ChatService), for any set of requests,    *)
(* queue size and bound on restarts, and about that process among the      *)
(* containers (Compose), for any number of faults and any passwords.       *)
(*                                                                         *)
(* That nobody can submit to a writer that is being closed is a fact about *)
(* three components at once: uvicorn (a drained server accepts nothing),   *)
(* the requests (one that is over stays over) and the lifespan (aclose()   *)
(* begins only when none is under way).  DrainsBeforeClosing is inductive  *)
(* by itself; the proof is that each component's steps respect the other   *)
(* two.  That the writer has heard of exactly the answered requests needs  *)
(* AnswerInv: what lies between submit() and the table is no one else's.   *)
(*                                                                         *)
(* Both hold among the containers: a step of Compose is a step of the      *)
(* process or leaves its requests, its server and its lifespan alone, and  *)
(* takes nothing to the table that was not on its way there.  The gate     *)
(* needs invariants of its own: the role is there exactly when the schema  *)
(* is whole, `up` remembers what it has seen until it starts the api, and  *)
(* the started process keeps it until it asks for the store.               *)
(***************************************************************************)
EXTENDS Compose, TLAPS

-----------------------------------------------------------------------------
(* The api process.                                                        *)

Closing == phase \in {"cancelling", "closing", "closed"}

-----------------------------------------------------------------------------
\* No step of the writer but aclose() begins the closing, and submit() leaves
\* the lifespan where it is.
LEMMA WriterSteps ==
  ASSUME StoreStep
  PROVE  Closing' => Closing
<1> USE DEF Closing
<1>1. CASE Store!Start \/ Store!OpenSucceeds \/ Store!OpenFails
  BY <1>1 DEF Store!Start, Store!OpenSucceeds, Store!OpenFails
<1>2. CASE Store!Get \/ Store!SendCommit \/ Store!WriteEnds
  BY <1>2 DEF Store!Get, Store!SendCommit, Store!WriteEnds, Store!WriteSucceeds,
              Store!WriteFails, Store!FinishWrite
<1>3. CASE \E r \in Requests : Store!ServerCommits(r)
  BY <1>3 DEF Store!ServerCommits
<1>4. CASE Store!CancelIdle \/ Store!CancelWrite \/ Store!Reap \/ Store!PoolCloses
  BY <1>4 DEF Store!CancelIdle, Store!CancelWrite, Store!Reap, Store!PoolCloses
<1> QED BY <1>1, <1>2, <1>3, <1>4 DEF StoreStep

\* A request that is not under way neither progresses nor submits.
LEMMA IdleRequests ==
  ASSUME Idle, NEW r \in Requests, Progress(r) \/ EndBody(r)
  PROVE  FALSE
<1>1. req[r] \notin {"active", "drained"}
  BY DEF Idle, UnderWay
<1> QED BY <1>1 DEF Progress, EndBody, Drain, GiveUp, Answer

LEMMA DrainingKept ==
  DrainsBeforeClosing /\ [ServiceNext]_serviceVars => DrainsBeforeClosing'
<1> SUFFICES ASSUME DrainsBeforeClosing, [ServiceNext]_serviceVars, Closing'
             PROVE  Idle' /\ server' = "draining"
  BY DEF DrainsBeforeClosing, Closing
<1>1. ASSUME Closing, UNCHANGED <<req, server>>
      PROVE  Idle' /\ server' = "draining"
  BY <1>1 DEF DrainsBeforeClosing, Closing, Idle, UnderWay
<1>2. CASE UNCHANGED serviceVars
  BY <1>1, <1>2 DEF serviceVars, storeVars, Closing
<1>3. ASSUME NEW r \in Requests, Arrive(r) PROVE FALSE
  BY <1>3 DEF Arrive, storeVars, Closing
<1>4. ASSUME NEW r \in Requests, Progress(r) \/ EndBody(r) PROVE FALSE
  <2>1. Closing
    BY <1>4 DEF Progress, EndBody, storeVars, Store!Submit, Closing
  <2> QED BY <1>4, <2>1, IdleRequests DEF DrainsBeforeClosing, Closing
<1>5. CASE StoreStep
  BY <1>1, <1>5, WriterSteps DEF StoreStep
<1>6. CASE Sigterm
  BY <1>6 DEF Sigterm, storeVars, Closing
<1>7. CASE Shutdown
  BY <1>7 DEF Shutdown, Idle, UnderWay
<1>8. CASE Crash
  BY <1>8 DEF Crash, Store!Restart, Closing
<1> QED BY <1>2, <1>3, <1>4, <1>5, <1>6, <1>7, <1>8 DEF ServiceNext

\* No request is under way once aclose() has begun, whoever stops the process
\* and whenever, so no trace is accepted by a worker that is being cancelled or
\* dropped as "disabled" during a shutdown (lifespan, uvicorn).
THEOREM ClosesAfterTheLast == ServiceSpec => []DrainsBeforeClosing
<1>1. ServiceInit => DrainsBeforeClosing
  BY DEF ServiceInit, Store!Init, DrainsBeforeClosing
<1> QED BY <1>1, DrainingKept, PTL DEF ServiceSpec
-----------------------------------------------------------------------------
(* Submissions.  SubmittedOnceAnswered speaks of the fates and of the      *)
(* table; between the two lie the queue, the worker's hand and the         *)
(* statements on their way.                                                *)

Seen == {r \in Requests : fate[r] # "unseen"}

Answered == \A r \in Requests : fate[r] # "unseen" <=> req[r] = "answered"

\* What the writer has, anywhere, was submitted.
OnlySeen ==
  /\ \A i \in 1..Len(queue) : queue[i] \in Seen
  /\ worker = "write" => held \in Seen
  /\ committing \subseteq Seen /\ rows \subseteq Seen

Kinds ==
  /\ req \in [Requests -> RequestStates]
  /\ DOMAIN fate = Requests /\ fate = [r \in Requests |-> fate[r]]
  /\ queue \in Seq(Requests)

AnswerInv == Kinds /\ Answered /\ OnlySeen

\* A fate decided for a trace that had one leaves the set of those that have.
LEMMA DecideKeeps ==
  ASSUME Kinds, NEW t \in Seen, NEW f, f # "unseen", Store!Decide(t, f)
  PROVE  /\ Seen' = Seen
         /\ DOMAIN fate' = Requests /\ fate' = [r \in Requests |-> fate'[r]]
         /\ Answered /\ UNCHANGED req => Answered'
BY DEF Kinds, Seen, Answered, Store!Decide

\* The writer's own steps decide only what was submitted before.
LEMMA WriterKeepsAnswers ==
  ASSUME AnswerInv, StoreStep \/ (Store!Aclose /\ UNCHANGED req)
  PROVE  AnswerInv'
<1> USE DEF AnswerInv, OnlySeen
<1>1. UNCHANGED req
  BY DEF StoreStep
<1>2. ASSUME UNCHANGED fate PROVE Seen' = Seen /\ (Answered => Answered')
  BY <1>1, <1>2 DEF Seen, Answered
<1>3. CASE Store!Start \/ Store!OpenSucceeds \/ Store!OpenFails \/ Store!Aclose
  <2>1. /\ UNCHANGED <<queue, committing, rows, fate>>
        /\ worker' = "write" => worker = "write" /\ held' = held
    BY <1>3 DEF Store!Start, Store!OpenSucceeds, Store!OpenFails, Store!Aclose
  <2> QED BY <1>1, <1>2, <2>1 DEF Kinds
<1>4. CASE Store!Get
  <2>1. /\ queue # <<>> /\ queue' = Tail(queue) /\ UNCHANGED <<committing, rows>>
        /\ \/ UNCHANGED fate /\ held' = Head(queue)
           \/ Store!Decide(Head(queue), "disabled") /\ worker' # "write"
    BY <1>4 DEF Store!Get
  <2>2. Head(queue) \in Seen /\ queue' \in Seq(Requests)
    BY <2>1 DEF Kinds
  <2>3. \A i \in 1..Len(queue') : queue'[i] \in Seen
    BY <2>1 DEF Kinds
  <2>4. CASE UNCHANGED fate /\ held' = Head(queue)
    <3>1. Seen' = Seen /\ Answered'
      BY <1>2, <2>4
    <3> QED BY <1>1, <2>1, <2>2, <2>3, <2>4, <3>1 DEF Kinds
  <2>5. CASE Store!Decide(Head(queue), "disabled") /\ worker' # "write"
    <3>1. /\ Seen' = Seen /\ Answered'
          /\ DOMAIN fate' = Requests /\ fate' = [r \in Requests |-> fate'[r]]
      BY <1>1, <2>2, <2>5, DecideKeeps
    <3> QED BY <1>1, <2>1, <2>2, <2>3, <2>5, <3>1 DEF Kinds
  <2> QED BY <2>1, <2>4, <2>5
<1>5. CASE Store!SendCommit
  <2>1. /\ UNCHANGED <<worker, queue, held, rows, fate>>
        /\ worker = "write" /\ committing' = committing \cup {held}
    BY <1>5 DEF Store!SendCommit
  <2> QED BY <1>1, <1>2, <2>1 DEF Kinds
<1>6. ASSUME NEW r \in Requests, Store!ServerCommits(r) PROVE AnswerInv'
  <2>1. /\ UNCHANGED <<worker, queue, held, committing, fate>>
        /\ r \in committing /\ rows' = rows \cup {r}
    BY <1>6 DEF Store!ServerCommits
  <2> QED BY <1>1, <1>2, <2>1 DEF Kinds
<1>7. ASSUME NEW f, f # "unseen", Store!Decide(held, f), worker = "write",
             worker' # "write", UNCHANGED <<queue, committing, rows>>
      PROVE  AnswerInv'
  <2>1. /\ Seen' = Seen /\ Answered'
        /\ DOMAIN fate' = Requests /\ fate' = [r \in Requests |-> fate'[r]]
    BY <1>1, <1>7, DecideKeeps
  <2> QED BY <1>1, <1>7, <2>1 DEF Kinds
<1>8. CASE Store!WriteEnds
  <2>1. PICK l \in {"written"} \cup Store!FailureReasons : Store!FinishWrite(l)
    BY <1>8 DEF Store!WriteEnds, Store!WriteSucceeds, Store!WriteFails
  <2>2. l # "unseen"
    BY <2>1 DEF Store!FailureReasons
  <2> QED BY <1>7, <2>1, <2>2 DEF Store!FinishWrite
<1>9. CASE Store!CancelWrite
  BY <1>7, <1>9 DEF Store!CancelWrite
<1>10. CASE Store!CancelIdle \/ Store!Reap \/ Store!PoolCloses
  <2>1. /\ UNCHANGED <<queue, committing, rows, fate>>
        /\ worker' = "write" => worker = "write" /\ held' = held
    BY <1>10 DEF Store!CancelIdle, Store!Reap, Store!PoolCloses
  <2> QED BY <1>1, <1>2, <2>1 DEF Kinds
<1> QED BY <1>3, <1>4, <1>5, <1>6, <1>8, <1>9, <1>10 DEF StoreStep

\* body() ends: the request is answered and its trace gets its fate at once.
LEMMA EndBodyKeepsAnswers ==
  ASSUME AnswerInv, NEW r \in Requests, EndBody(r)
  PROVE  AnswerInv'
<1> USE DEF AnswerInv, OnlySeen
<1>1. /\ req' = [req EXCEPT ![r] = "answered"]
      /\ UNCHANGED <<worker, held, committing, rows>>
      /\ \E f \in {"disabled", "pending", "queue_full"} : fate' = [fate EXCEPT ![r] = f]
      /\ queue' = queue \/ queue' = Append(queue, r)
  BY DEF EndBody, Answer, Become, Store!Submit, Store!SubmitDisabled, Store!SubmitQueued,
         Store!SubmitFull, Store!Decide
<1>2. Seen' = Seen \cup {r}
  BY <1>1 DEF Seen, Kinds
<1>3. Kinds'
  <2>1. req' \in [Requests -> RequestStates]
    BY <1>1 DEF Kinds, RequestStates
  <2>2. DOMAIN fate' = Requests /\ fate' = [t \in Requests |-> fate'[t]]
    BY <1>1 DEF Kinds
  <2>3. queue' \in Seq(Requests)
    BY <1>1 DEF Kinds
  <2> QED BY <2>1, <2>2, <2>3 DEF Kinds
<1>4. Answered'
  BY <1>1 DEF Answered, Kinds
<1>5. \A i \in 1..Len(queue') : queue'[i] \in Seen'
  BY <1>1, <1>2 DEF Kinds
<1> QED BY <1>1, <1>2, <1>3, <1>4, <1>5

LEMMA AnswersKept == AnswerInv /\ [ServiceNext]_serviceVars => AnswerInv'
<1> SUFFICES ASSUME AnswerInv, [ServiceNext]_serviceVars PROVE AnswerInv'
  OBVIOUS
<1> USE DEF AnswerInv, OnlySeen, storeVars
<1>1. CASE UNCHANGED serviceVars
  BY <1>1 DEF serviceVars, Kinds, Answered, Seen
<1>2. ASSUME NEW r \in Requests, NEW s \in RequestStates \ {"answered"},
             req[r] # "answered", req' = [req EXCEPT ![r] = s], UNCHANGED storeVars
      PROVE  AnswerInv'
  <2>1. Kinds' /\ Answered' /\ Seen' = Seen
    BY <1>2 DEF Kinds, Answered, Seen
  <2> QED BY <1>2, <2>1
<1>3. ASSUME NEW r \in Requests, Arrive(r) \/ Progress(r) PROVE AnswerInv'
  BY <1>2, <1>3 DEF Arrive, Progress, Turn, Begin, Drain, GiveUp, Become, RequestStates
<1>4. ASSUME NEW r \in Requests, EndBody(r) PROVE AnswerInv'
  BY <1>4, EndBodyKeepsAnswers
<1>5. CASE StoreStep \/ Shutdown
  <2>1. StoreStep \/ (Store!Aclose /\ UNCHANGED req)
    BY <1>5 DEF Shutdown
  <2> HIDE DEF AnswerInv
  <2> QED BY <2>1, WriterKeepsAnswers
<1>6. CASE Sigterm
  BY <1>6 DEF Sigterm, Kinds, Answered, Seen
<1>7. CASE Crash
  <2>1. /\ queue' = <<>> /\ worker' = "none" /\ UNCHANGED <<committing, rows>>
        /\ fate' = [r \in Requests |-> IF fate[r] = "pending" THEN "lost" ELSE fate[r]]
        /\ req' = [r \in Requests |-> IF UnderWay(r) THEN "over" ELSE req[r]]
    BY <1>7 DEF Crash, Store!Restart
  <2>2. Seen' = Seen
    BY <2>1 DEF Seen
  <2>3. Kinds'
    BY <2>1 DEF Kinds, RequestStates
  <2>4. Answered'
    BY <2>1 DEF Answered, UnderWay
  <2> QED BY <2>1, <2>2, <2>3, <2>4
<1> QED BY <1>1, <1>3, <1>4, <1>5, <1>6, <1>7 DEF ServiceNext

LEMMA AnswersBegin == ServiceInit => AnswerInv
BY DEF ServiceInit, RequestInit, Store!Init, AnswerInv, Kinds, Answered, OnlySeen, Seen,
       RequestStates

LEMMA AnswersSuffice == AnswerInv => SubmittedOnceAnswered
BY DEF AnswerInv, Answered, OnlySeen, Seen, SubmittedOnceAnswered

\* One submission per answered request and none for any other, and nothing in
\* the table that was not answered, whoever crashes and whenever (body(),
\* submit() and the writer behind it).
THEOREM OneSubmissionEach == ServiceSpec => []SubmittedOnceAnswered
<1> QED BY AnswersBegin, AnswersKept, AnswersSuffice, PTL DEF ServiceSpec

-----------------------------------------------------------------------------
(* Among the containers.                                                   *)

USE NoRoleAssumption, PasswordAssumption

\* Compose's steps are the service's, or none of its business: a store that
\* dies or is replaced only loses what was on its way to it and what it had.
StoreLoses ==
  /\ UNCHANGED <<req, server, storeButTable>>
  /\ committing' \subseteq committing /\ rows' \subseteq rows

LEMMA ServiceOrNot ==
  ASSUME ComposeNext
  PROVE  ServiceNext \/ StoreLoses
<1> USE DEF StoreLoses
<1>1. CASE Process
  <2>1. CASE ApiStarts
    BY <2>1 DEF ApiStarts, InContainer, ServiceNext, StoreStep
  <2>2. CASE ApiOpens
    BY <2>2 DEF ApiOpens, InContainer, ServiceNext, StoreStep
  <2>3. CASE ApiWrites
    BY <2>3 DEF ApiWrites, InContainer, ServiceNext, StoreStep
  <2>4. CASE ApiServes
    BY <2>4 DEF ApiServes, InContainer, ServiceNext
  <2>5. CASE ApiStops
    BY <2>5 DEF ApiStops, InContainer, ServiceNext
  <2>6. CASE ApiRestarts
    BY <2>6 DEF ApiRestarts, ServiceNext
  <2> QED BY <1>1, <2>1, <2>2, <2>3, <2>4, <2>5, <2>6 DEF Process
<1>2. UNCHANGED serviceVars => StoreLoses
  BY DEF serviceVars, storeVars, storeButTable
<1> HIDE DEF StoreLoses
<1>3. CASE Daemon
  BY <1>2, <1>3 DEF Daemon, PostgresStarts, VllmStarts, MigrateApplies, MigrateDone,
                    MigrateFails
<1>4. CASE Operator
  <2>1. CASE UpRecreatesApi
    BY <2>1 DEF UpRecreatesApi, ServiceNext
  <2> QED BY <1>2, <1>4, <2>1 DEF Operator, Up, UpMigrates, UpStartsApi, UpKeepsApi
<1>5. CASE Trouble
  <2>1. CASE Reboot \/ Down
    BY <1>2, <2>1 DEF Reboot, Down, EndAll, ServiceNext
  <2>2. CASE PostgresDies \/ ReplaceVolume
    BY <2>2 DEF PostgresDies, ReplaceVolume, Severed, StoreLoses
  <2> QED BY <1>2, <1>5, <2>1, <2>2 DEF Trouble, VllmDies, EditEnv, AlterRole
<1> QED BY <1>1, <1>3, <1>4, <1>5 DEF ComposeNext

LEMMA AsAService == ComposeInit => ServiceInit
BY DEF ComposeInit

\* Among the containers too, whatever dies, is recreated or rebooted, no
\* request is under way once aclose() has begun.
THEOREM DrainsAmongContainers == ComposeSpec => []DrainsBeforeClosing
<1>1. ComposeInit => DrainsBeforeClosing
  BY DEF ComposeInit, ServiceInit, Store!Init, DrainsBeforeClosing
<1>2. DrainsBeforeClosing /\ [ComposeNext]_composeVars => DrainsBeforeClosing'
  <2>1. ASSUME DrainsBeforeClosing, UNCHANGED <<req, server, phase>>
        PROVE  DrainsBeforeClosing'
    BY <2>1 DEF DrainsBeforeClosing, Idle, UnderWay
  <2>2. UNCHANGED composeVars => UNCHANGED <<req, server, phase>>
    BY DEF composeVars, serviceVars, storeVars
  <2>3. StoreLoses => UNCHANGED <<req, server, phase>>
    BY DEF StoreLoses, storeButTable
  <2> QED BY <2>1, <2>2, <2>3, ServiceOrNot, DrainingKept
<1> QED BY <1>1, <1>2, PTL DEF ComposeSpec

\* Among the containers too every answered request was submitted exactly once,
\* and no other is in the table: not even a store that comes back with less
\* than it had, or with nothing.
THEOREM OnceAmongContainers == ComposeSpec => []SubmittedOnceAnswered
<1>1. AnswerInv /\ [ComposeNext]_composeVars => AnswerInv'
  <2>1. ASSUME AnswerInv, StoreLoses PROVE AnswerInv'
    <3>1. /\ UNCHANGED <<req, worker, queue, held, fate>>
          /\ committing' \subseteq committing /\ rows' \subseteq rows
      BY <2>1 DEF StoreLoses, storeButTable
    <3> QED BY <2>1, <3>1 DEF AnswerInv, Kinds, Answered, OnlySeen, Seen
  <2>2. UNCHANGED composeVars => UNCHANGED serviceVars
    BY DEF composeVars
  <2> QED BY <2>1, <2>2, ServiceOrNot, AnswersKept
<1> QED BY <1>1, AsAService, AnswersBegin, AnswersSuffice, PTL DEF ComposeSpec

-----------------------------------------------------------------------------
VolumeInv ==
  /\ schema \in 0..2 /\ env \in Passwords
  /\ schema = 2 <=> role # NoRole

GateInv ==
  /\ api \in {"absent", "running"}
  /\ api = "absent" => phase = "boot"
  /\ up = "api" /\ ~ since => postgres = "up" /\ schema = 2
  /\ gated /\ phase = "boot" => postgres = "up" /\ schema = 2
  /\ GateHolds

LEMMA VolumeKept == VolumeInv /\ [ComposeNext]_composeVars => VolumeInv'
<1> SUFFICES ASSUME VolumeInv, [ComposeNext]_composeVars PROVE VolumeInv'
  OBVIOUS
<1> USE DEF VolumeInv, volumeVars
<1>1. CASE Process
  BY <1>1 DEF Process, ApiStarts, ApiOpens, ApiWrites, ApiServes, ApiStops, ApiRestarts,
              InContainer
<1>2. CASE Daemon
  BY <1>2 DEF Daemon, PostgresStarts, VllmStarts, MigrateApplies, MigrateDone, MigrateFails
<1>3. CASE Operator
  BY <1>3 DEF Operator, Up, UpMigrates, UpStartsApi, UpRecreatesApi, UpKeepsApi
<1>4. CASE Trouble
  BY <1>4 DEF Trouble, PostgresDies, VllmDies, Reboot, Down, EndAll, ReplaceVolume, EditEnv,
              AlterRole
<1>5. CASE UNCHANGED composeVars
  BY <1>5 DEF composeVars
<1> QED BY <1>1, <1>2, <1>3, <1>4, <1>5 DEF ComposeNext

LEMMA GateKept == VolumeInv /\ GateInv /\ [ComposeNext]_composeVars => GateInv'
<1> SUFFICES ASSUME VolumeInv, GateInv, [ComposeNext]_composeVars PROVE GateInv'
  OBVIOUS
<1> USE DEF GateInv, GateHolds
<1>1. CASE Process
  <2>1. CASE ApiStarts
    BY <2>1 DEF ApiStarts, InContainer, Store!Start, Reachable, volumeVars, VolumeInv
  <2>2. CASE ApiOpens
    BY <2>2 DEF ApiOpens, InContainer, volumeVars
  <2>3. CASE ApiWrites
    <3>1. phase # "boot" /\ phase # "opening" => phase' # "boot" /\ phase' # "opening"
      BY <2>3 DEF ApiWrites, InContainer, Store!Get, Store!WriteEnds, Store!WriteSucceeds,
         Store!WriteFails, Store!FinishWrite, Store!SendCommit, Store!ServerCommits,
         Store!CancelIdle, Store!CancelWrite, Store!Reap, Store!PoolCloses
    <3>2. phase \in {"boot", "opening"} => phase' = phase
      BY <2>3 DEF ApiWrites, InContainer, Store!Get, Store!WriteEnds, Store!WriteSucceeds,
         Store!WriteFails, Store!FinishWrite, Store!SendCommit, Store!ServerCommits,
         Store!CancelIdle, Store!CancelWrite, Store!Reap, Store!PoolCloses
    <3>3. api = "running" /\ UNCHANGED <<up, postgres, schema, role, api, apiEnv, since,
                                         unreached, gated>>
      BY <2>3 DEF ApiWrites, InContainer, volumeVars
    <3> QED BY <3>1, <3>2, <3>3
  <2>4. CASE ApiServes
    <3>1. phase' = phase
      BY <2>4 DEF ApiServes, InContainer, Arrive, Progress, EndBody, storeVars, Store!Submit
    <3> QED BY <2>4, <3>1 DEF ApiServes, InContainer, volumeVars
  <2>5. CASE ApiStops
    <3>1. phase = "serving" /\ phase' \notin {"boot", "opening"}
      BY <2>5 DEF ApiStops, InContainer, Sigterm, Shutdown, Store!Aclose, storeVars
    <3> QED BY <2>5, <3>1 DEF ApiStops, InContainer, volumeVars
  <2>6. CASE ApiRestarts
    BY <2>6 DEF ApiRestarts, volumeVars
  <2> QED BY <1>1, <2>1, <2>2, <2>3, <2>4, <2>5, <2>6 DEF Process
<1>2. CASE Daemon
  <2> USE DEF serviceVars, storeVars, procVars, volumeVars
  <2>1. CASE PostgresStarts \/ VllmStarts
    BY <2>1 DEF PostgresStarts, VllmStarts
  <2>2. CASE MigrateApplies
    BY <2>2 DEF MigrateApplies, VolumeInv
  <2>3. CASE MigrateDone \/ MigrateFails
    BY <2>3 DEF MigrateDone, MigrateFails
  <2> QED BY <1>2, <2>1, <2>2, <2>3 DEF Daemon
<1>3. CASE Operator
  <2> USE DEF serviceVars, storeVars, procVars, volumeVars, UpEnds
  <2>1. CASE Up \/ UpMigrates \/ UpKeepsApi
    BY <2>1 DEF Up, UpMigrates, UpKeepsApi
  <2>2. CASE UpStartsApi
    BY <2>2 DEF UpStartsApi, MayStartApi
  <2>3. CASE UpRecreatesApi
    <3>1. phase' = "boot" /\ up = "api"
      BY <2>3 DEF UpRecreatesApi, MayStartApi, Crash, Store!Restart
    <3> QED BY <2>3, <3>1 DEF UpRecreatesApi
  <2> QED BY <1>3, <2>1, <2>2, <2>3 DEF Operator
<1>4. CASE Trouble
  <2> USE DEF serviceVars, storeVars, storeButTable, procVars, volumeVars
  <2>1. CASE PostgresDies \/ ReplaceVolume \/ AlterRole
    BY <2>1 DEF PostgresDies, ReplaceVolume, AlterRole, StoreGone
  <2>2. CASE VllmDies \/ EditEnv
    BY <2>2 DEF VllmDies, EditEnv
  <2>3. CASE Reboot \/ Down
    <3>1. EndAll /\ api' \in {api, "absent"}
      BY <2>3 DEF Reboot, Down
    <3>2. up' = "none" /\ ~ gated'
      BY <3>1 DEF EndAll, UpEnds
    <3>3. api = "running" => phase' = "boot"
      BY <3>1 DEF EndAll, Crash, Store!Restart
    <3>4. api # "running" => phase' = phase
      BY <3>1 DEF EndAll
    <3>5. api' = "absent" => phase' = "boot"
      <4>1. CASE Reboot
        BY <4>1, <3>3, <3>4 DEF Reboot
      <4>2. CASE Down
        BY <4>2, <3>3, <3>4 DEF Down
      <4> QED BY <2>3, <4>1, <4>2
    <3> QED BY <3>1, <3>2, <3>5
  <2> QED BY <1>4, <2>1, <2>2, <2>3 DEF Trouble
<1>5. CASE UNCHANGED composeVars
  BY <1>5 DEF composeVars, serviceVars, storeVars, procVars, volumeVars
<1> QED BY <1>1, <1>2, <1>3, <1>4, <1>5 DEF ComposeNext

\* depends_on does its job whatever fails: an api that `compose up` has started
\* misses the store only if the store has failed or changed since db-migrate
\* was done, or .env holds a password the role does not have.
THEOREM GateHeld == ComposeSpec => []GateHolds
<1>1. ComposeInit => VolumeInv /\ GateInv
  BY DEF ComposeInit, ServiceInit, Store!Init, VolumeInv, GateInv, GateHolds
<1>2. GateInv => GateHolds
  BY DEF GateInv
<1> QED BY <1>1, <1>2, VolumeKept, GateKept, PTL DEF ComposeSpec
=============================================================================
