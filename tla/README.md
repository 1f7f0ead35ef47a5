# vllm-chat-app in TLA+

The repository is a self-hosted chat stack: a Streamlit UI, a FastAPI layer that
proxies a vLLM server and streams its tokens back, a Postgres trace store filled
in the background from finished responses, a migration runner, an offline
evaluation harness with a noise-floor report, a streaming benchmark, and scripts
that generate load and seed the backlog. This directory holds TLA+ models
of the parts whose correctness depends on interleaving, failure, shutdown and
the order in which things are read; the TLC runs over them; and TLAPS proofs.

Contents: [the system](#the-system) · [modules and code](#modules-and-code) ·
[runs and bounds](#runs-and-bounds) · [fairness](#fairness) ·
[proofs](#proofs) · [findings](#findings) ·
[observations](#observations-without-a-run) ·
[what is left out](#what-is-assumed-and-what-is-left-out) · [plan](#plan)

## The system

```
 browser ── ui/app.py ── POST /chat/stream ──> api ── httpx stream ──> vLLM
            (history,                          │ body(), stream_chat
             trimming)                         │ StreamAccumulator
                                               ▼ submit()
                                   queue ──> worker ──> Postgres (traces)
                                                            ▲
        docker compose: db-migrate (migrate.sh) ────────────┘
        offline: eval/run.py ──> vLLM (ask, judge) ──> run files ──> drift.py
                 bench_stream.py ──> api or vLLM ──> result files ──> compare.py
                 loadtest.py ──> api          jira_seed.py ──> Jira, .keys.json
```

Coupling is by call (UI to api over HTTP, `body()` to `submit()`), by shared
state inside one event loop (queue, worker task, pool), by the database, by
files (migrations, the eval set, run and result files, the resume file), and by
process lifecycle (lifespan, compose).

| Component | State | Operations | What is hard | What makes it correct |
|---|---|---|---|---|
| trace store writer, `api/app/trace_store.py`, `metrics.py` | queue, worker task, pool, counters, gauge; rows of `traces` | `start`, `submit`, `_drain`, `_write`, `aclose` | ambiguous commits, cancellation inside a write, submissions while closing, kill and restart | every submitted trace in one place; counters agree with the table; bounded loss; the worker outlives failures; `aclose` returns |
| chat proxy, `api/app/main.py` (`chat_stream`, `body`), `vllm_client.py`, `tracing.py` | suspended await of the request, lines yielded / handed on / sent, accumulator | open, first line, each line, break-off, end, disconnect | three tasks per line (generator, body, middleware), failures before and after the status, a client that leaves anywhere | observed = handed on; a trace is the whole response; status honest; no silent end; a leaver releases the upstream |
| api process, `main.py` (`lifespan`), uvicorn | requests under way, writer | start-up, SIGTERM, drain, shutdown, kill | shutdown against requests still able to submit | the writer is closed last; one submission per answered request; chat never waits on the store |
| chat UI, `ui/app.py` | `st.session_state.messages`, trimmed history posted | `main`, `stream_reply`, Streamlit reruns | mid-stream failure, timeouts, interruption; what is left in the history | history pairs prompts with whole replies; every prompt ends |
| migration runner, `pipeline/db/migrate.sh` | `schema_migrations`, the schema; per runner: file, SQL, checksum | wait, create table, per file: read, checksum, query, apply | overlapping runners without a lock, psql failing around COMMIT, files edited or unlinked between commands | once per file and recorded with it; history immutable; filename order; edits refused; bounded wait |
| evaluation runner, `pipeline/eval/run.py` | items, results, run identity, output file | load, identify, ask, judge, write | identity read minutes apart, a failing item in a pool, escaping exceptions | a set score is a mean over the whole set; the recorded identity is what ran |
| judge, `pipeline/eval/judge.py` | none | `align`, `ItemScore` | items lacking a layer, traps | exact means, never of nothing |
| drift report, `pipeline/eval/drift.py` | none | `check_comparable`, `compare`, `compare_runs` | comparability is not transitive; causes of movement | compares only runs that differ in time; causes partition the movement |
| eval set validator, `pipeline/eval/validate.py` | none | per-item rules | — | every item has a positive check (an assumption of `EvalRun`) |
| compose lifecycle, `docker-compose.yml` | container states; schema, role and password in the volume; `.env` | `up` through its conditions, restart, reboot, `down`, a replaced volume, a rotated password | a reboot starts the api before Postgres; three places hold one password | an api that `up` started finds its store; chat comes back without the store |
| streaming benchmark, `bench/bench_stream.py`, `common.py`, `compare.py` | samples under a lock, waves, result file | preflight, probe, waves, percentiles, compare | threads of a wave end in any order; nearest rank at the ends; error events counted as chunks | samples are the measured requests, results add up, no ratio without samples |
| local baselines, `bench/bench_hf_baseline.py`, `bench_local_verify.py` | — | sequential measurement | — | — |
| load generator, `scripts/loadtest.py` | semaphore, counters under a lock | thread per request | a permit lost or given back early | the load is what was asked for; each request counted once |
| metrics and dashboards, `metrics/` | none | configuration | — | shows the counters the writer keeps |
| database schema, `pipeline/db/migrations/` | tables, grants | DDL | — | `ON CONFLICT` needs the primary key |
| configuration, logging, auth, `api/app/{config,logging,auth}.py` | settings read at import | — | — | a refused request sends nothing upstream |
| backlog seeding, `scripts/jira_seed.py` | Jira's issues and sprints, resume file | create issue, save key, create sprint, move | a stop between any two, also inside the write of the file | the file is true; one duplicate per stop at most; a finished run is complete |
| recording scripts, `scripts/s0-2-*` | — | — | — | — |
| continuous integration, `.github/workflows/ci.yml` | — | — | — | — |

`PROJECT.json` gives each component's status, and under "hazards" the lines
where these difficulties bite with the properties that would notice.

## Modules and code

```
 TraceLedger  <= refined by =  TraceStoreLedger -- extends --> TraceStore
                                                                  ▲ INSTANCE
 ChatRequest  <-- extends --  ChatService ------------------------┘
     ▲ INSTANCE (refinement)      ▲ extends
     │                         Compose
 ChatProxy    <-- extends --  ChatSession          Migrate <-- MCMigrate
 EvalScore <-- EvalDrift <-- EvalRun <-- MCEvalRun
 StreamClient <-- BenchStream (with BenchStats) <-- BenchTools <-- MCBench
 StreamClient <-- LoadTest <--------------------------┘
 JiraSeed <-- MCJiraSeed

 TraceStoreProofs --> TraceStoreLedger     ChatProxyProofs --> ChatSession
 ComposeProofs --> Compose                 MigrateProofs --> Migrate
 JiraSeedProofs --> JiraSeed               EvalProofs --> EvalRun, Counting
 BenchProofs --> BenchTools, Counting
```

**`TraceStore`** is `TraceStore` of `trace_store.py`. asyncio is single
threaded, so code between two awaits is one action, and `phase` and `worker`
name the await the lifespan coroutine and the worker task are suspended at.
`Start`/`OpenSucceeds`/`OpenFails` are `start()`; `Submit` is `submit()` with
its three exits; `Get`, `SendCommit`, `WriteSucceeds`, `WriteFails` are one turn
of `_drain` with `_write`; `Aclose`, `CancelIdle`/`CancelWrite`, `Reap`,
`PoolCloses` are `aclose()` between its awaits. `ServerCommits` is Postgres: a
row can become durable after the writer gave up on it, which is why a timeout
says nothing about the table. `Restart` rebuilds memory and keeps the table.
`calls`, `interrupted` and `fate` are history variables. `Restart` resets the
first two with the counters, for those live in the process.

**`TraceLedger`** is the promise to the readers of the panels and of the table:
admit or drop at submit, settle once, at most `Capacity` unsettled, only
admitted traces become rows. **`TraceStoreLedger`** gives the refinement
mapping (`Capacity <- QueueSize + 1`).

**`ChatProxy`** is `POST /chat/stream`. A line is yielded by `stream_chat`
(`lines`), handed by `body()` to the middleware's zero-length memory stream
(`handed`), and sent (`sent`); the generator resumes, and the accumulator
observes, only when the next line is asked for (`HandOn`). `Refuse` stands for
401, 413 and 422; `ConnectFails`, `ErrorStatus` and `EmptyStream` are the ways
to a 502; `Breaks` is any other httpx error at any await on the upstream, which
`stream_chat` turns into its error event; `Cancel` is the disconnect listener of
a started response cancelling the body's task. An SSE line is one of six kinds,
by what the accumulator and the client tell apart.

**`ChatRequest`** is the request as the lifespan and the writer see it, and
`ChatProxy!ImplementsRequest` shows that the proxy implements it.
**`ChatService`** composes `ChatRequest` with `TraceStore`: `EndBody` is one
step because there is no await between the end of `body()`'s loop and
`submit()`; `Shutdown` runs `aclose()` when uvicorn has drained the requests;
`Crash` takes the requests with the process.

**`Compose`** puts that process into its container. `Up`, `UpMigrates`,
`MayStartApi` and what follows are `docker compose up` with the conditions of
`depends_on`; `PostgresStarts`, `VllmStarts` and `ApiRestarts` are the daemon,
which waits for nothing; `MigrateApplies` is one file of `db-migrate`, the second
of which makes the role with the password of that day; `UpRecreatesApi` and
`UpKeepsApi` say what a second `up` does to an api that runs. `PostgresDies`,
`VllmDies`, `Reboot`, `Down`, `ReplaceVolume`, `EditEnv` and `AlterRole` are what
goes wrong and what the operator does (architecture.md:133-143, the runbook's
rotation of a password). The outcome of the api's one attempt to connect follows
from all of this (`Reachable`) instead of being a choice, and an attempt lasts:
it fails only if the store was out of reach at some moment of it. `since` and
`gated` are history variables.

**`ChatSession`** extends `ChatProxy` with one browser session of `ui/app.py`:
`Prompt` appends and posts the trimmed history, `Refused`, `PostFails`,
`StreamError` end in the banner and pop the prompt, `Keep` appends the reply,
`ReadFails` is what `main()` does not catch, `Interrupt` is Streamlit stopping
the script because the user clicked. Each prompt gets a fresh request of the
proxy. A prompt whose history holds an empty message is a 422.

**`Migrate`** is `migrate.sh`, one action per command, for overlapping runners
over one database and one directory. The file read for its SQL (`Cat`) and for
its checksum (`Md5sum`) are separate steps, as they are in the script. A file's
content is a version number that stands for its checksum as well; a file may be
edited, or unlinked and created again, between any two commands, and Postgres may
come and go. `Commit` is the transaction of the file and its record; the primary
key decides between runners. `ApplyUnheard` is a commit whose acknowledgement is
lost. `since` is a history variable, and `Left` counts the commands a run has left.

**`EvalScore`**, **`EvalDrift`** and **`EvalRun`** are `judge.py`'s arithmetic
(in units, so that no score is rounded), `drift.py` as operators on run files,
and `run.py` executed several times by an operator who edits, commits and
redeploys between (or during) runs. `Start`, `LoadSet`, `ServerIdentity`,
`GitCommit`, `Ask`, `Answer`, `JudgeItem`, `ItemFails`, `ItemEscapes`, `WriteOut`
follow `main()`; what identifies a run is read at the moment the code reads it.

**`StreamClient`** is `one_request()` of the benchmark and of the load generator:
one thread, one request, and a server that refuses, breaks off, sends data chunks
with or without tokens, an error event or `[DONE]`. The body may just end anywhere:
urllib takes a connection that closes between two chunks for its end, and the code
does not look for `[DONE]`. **`BenchStream`** is
`bench_stream.py` from its preflight to its result file, and a comparison by
`compare.py`; a thread is a wave and a prompt, the probe is wave 0. **`BenchStats`**
has the percentiles and what `compare.py` accepts and computes, with a reference
definition of nearest rank. The code computes a rank in floats, `Rank` in whole
numbers; for the two percents `summarize()` asks for (`Percents`) they agree, as the
module's header says, and of others nothing is claimed. Its `Listed` and `Selected` put positions in order by
the definition of that order, where `SortSeq` and `SelectSeq` would compute it: the
provers see through the former. **`LoadTest`** is `loadtest.py`. **`BenchTools`** is
whichever of the two somebody runs, so that one run covers both.

**`Counting`** models nothing: it has the lemmas about counting up that the
proofs about sums share.

**`JiraSeed`** is `seed()` of `jira_seed.py`, one action per request to Jira, per
answer and per half of `write_text` (which empties the file, then fills it). A run
may end between any two; the operator runs it again and edits the backlog, which has
of each story its sprint and its epic. An issue's key is its position in Jira's list;
its label names the epic the backlog had it in when it was created.

Operators named `X_Something` in front of an `X` are bugs somebody could
plausibly write in `X`. Nothing in the specifications uses them; substituting one
for `X` shows that a property notices.

## Runs and bounds

Each run answers one question. `expect` in `PROJECT.json` says whether TLC
finishes or finds the violation.

| Run | Configuration | What it shows |
|---|---|---|
| `trace_store` | 3 traces, queue of 1, 1 restart | Every submitted trace is counted once, queued, held or cut off (`Conservation`, `PendingIsOnce`), loss is bounded (`BoundedLoss`), counters, gauge and table agree (`CountersTellTheTruth`), the ledger is implemented (`ImplementsLedger`), accepted traces are settled while the process serves (`PendingResolves`), `aclose()` returns (`AcloseReturns`). |
| `chat_proxy` | 1 request, 6 lines | Observed, handed on, sent and submitted agree (`ObservedIsHanded`, `TraceIsWhole`), the status is honest and no response just stops (`EndsLoudly`), the request is a `ChatRequest` (`ImplementsRequest`), a client that leaves releases the request even from a silent upstream (`DisconnectReleases`), and with an upstream that answers, requests end and every line is delivered (`RequestsEnd`). |
| `compose` | 2 requests, queue of 1, 1 restart, 2 passwords, 2 faults | The writer is closed after the last request (`DrainsBeforeClosing`), one submission per answered request and none for others (`SubmittedOnceAnswered`), an api that `up` started misses its store only for a cause that came later or a password of `.env` (`GateHolds`), requests end although worker and Postgres may stop for ever (`ChatNeverWaits`), and the daemon alone brings chat back after anything (`ChatComesBack`). |
| `chat_session` | 3 prompts, 4 lines, window of 1 turn | The history is paired (`HistoryIsPaired`) and holds only whole replies (`KeptIsWhole`), what an empty answer does to the session (`EmptyReplyPoisons`), every prompt ends (`PromptEnds`). |
| `migrate` | 2 runners, 2 runs each, 2 files, 1 change, faults | Applied at most once and exactly when recorded (`AppliedOnceAndRecorded`), recorded history never changes (`HistoryIsImmutable`), files reach the schema in order and all of them before exit 0 (`SchemaIsAPrefix`), an edit made before a run is refused (`EditsAreCaught`), a run that fails undisturbed lost a race that no later run can lose, or is at a changed file (`FailuresHaveCause`), every run ends (`RunsEnd`). |
| `eval_run` | 3 runs, 2 items, pool of 2, 1 change, 1 fault | Set scores are means over the whole set (`ScoreIsWhole`), runs that are compared differ in time only (`NoiseOnly`), an accepted report is about one server (`ReportIsHomogeneous`), movement is accounted for (`DriftIsExplained`). |
| `bench` | 1 warm-up and 2 measured waves of 2 prompts, 3 baselines; or 7 requests, 2 at a time | The samples are the measured requests, each once and in its place, and no thread of an earlier wave still runs (`SamplesAreTheMeasured`); counts, percentiles and token totals agree with them (`ResultAddsUp`); a comparison rests on samples of both sides (`ComparisonIsGrounded`); the load generator keeps its load and counts each request once (`LoadIsKept`). |
| `seed` | 2 epics, 4 stories, 2 sprints, chunks of 2, 4 runs, 3 stops, 1 edit | The resume file is true (`RecordedIsReal`), a stop costs at most one duplicate (`OneOrphanPerStop`), a run that ends well leaves everything in its place (`FinishedIsComplete`), and run often enough one does, unless a stop tore the file (`ResumesUnlessTorn`). |
| `ts_silent_loss`, `cp_unfinished`, `ui_dangling`, `ev_edit` | as small as the behaviour allows | See [findings](#findings). |

Why the bounds are enough to meet the interesting cases:

- `trace_store`: the third trace finds a queue slot and the worker's hand taken,
  so all three exits of `submit()` occur, before and during `aclose()`, and a
  restart happens with traces queued, held, and committing on the server. A
  second restart adds no kind of state: what survives one is the table only.
- `chat_proxy`: six lines hold role, text, finish and `[DONE]` with a break-off or
  an error object anywhere and room for the proxy's own event. Requests share
  nothing in the proxy, so one is enough.
- `compose`: two faults are the least for one after another's repair (a reboot,
  then a replaced volume; an edited `.env`, then a death) and one restart lets a
  late commit of a killed process meet a new one. One slot and two requests fill
  the queue and the worker's hand.
- `chat_session`: three prompts and a window of two messages, so an empty answer
  can poison the next prompt, and a broken script can push it out again.
- `migrate`: two runners at every pair of commands; two runs each, so that a
  runner meets what its own failed run left behind; two files, for an order. One
  change is an edit or an unlinking, and a file that is away may come back, as it
  was or otherwise, even after the last one. The runners are interchangeable, and
  every property is one of states or of steps, so symmetry is sound.
- `eval_run`: three runs are the least for comparability not to be transitive;
  two items the least for a partial run and for a gap that cancels; a judged
  item and one without claims; a second version that has a trap; two builds
  that report one release and a third that does not.
- `bench`: two prompts per wave are the least for threads to end in another order
  than they began; a discarded and two measured waves, so that a straggler has an
  earlier and a later wave to be mistaken for; the four samples put p50 and p95 at
  different ranks. One data chunk per response, with or without tokens, is all the
  counting tells apart. Seven requests exceed the two permits.
- `seed`: three stories of one sprint need two chunks of two; three stops of four
  runs reach a run that resumes after each kind of stop; a story that the first
  run does not list comes, or one moves to another sprint or epic, with the edit.

Deadlock checking is on for `bench`, where a tool that has neither ended nor
anything left to do would be an error. Elsewhere it is off: requests, runs,
prompts and traces are finite, and the system stops when they are used up.

## Fairness

- *Event loop* (`TraceStore!Fairness`, `ProxyFairness`): a ready callback runs.
  `OpenSucceeds \/ OpenFails` and `WriteEnds` are fair because `pool.open` and
  each write are bounded by `write_timeout_s`. psycopg is assumed to honour a
  cancellation and to end `pool.close()`.
- *Postgres*: none. `ServerCommits` need never happen.
- *Upstream*: none in the specifications, for httpx has `read=None`. `RequestsEnd`
  states its assumption in the formula (`UpstreamAnswers => ...`);
  `DisconnectReleases` needs none.
- *Containers* (`ComposeFairSpec`): requests go on (what `RequestsEnd` shows of the
  proxy), `start()` begins and returns, vLLM comes up when the daemon starts it, and
  a process told to stop is killed after the grace period. Deliberately nothing is
  asked of the worker, Postgres, `db-migrate` or the operator, so `ChatNeverWaits`
  and `ChatComesBack` hold even if all of them hang.
- *UI* (`SessionSpec`): the script runs on, because `requests.post` and
  `iter_lines` return or time out after `REQUEST_TIMEOUT_S`. Nothing is asked of
  the api or the model.
- *Migrations*: none. `RunsEnd` is a measure: a run under way can always take a
  step, each step leaves it fewer, and nothing else gives it more.
- *Seeding* (`FairSpec` of `JiraSeed`): Python runs on, Jira answers or times out
  (`timeout=60`), and the operator runs the script again while it has not ended well.
- The evaluation and the load tools claim safety only: a run may hang on a server.

## Proofs

TLAPS checks these for every value of the constants that satisfies the named
assumptions; TLC has checked the same definitions on the instances above.

| Theorem | Statement | Argument |
|---|---|---|
| `TraceStoreProofs!TypeCorrect` | `Spec => []TypeOK` | `TypeOK` is not inductive by itself: `SendCommit` adds `held` to a set of traces. `InHand` (writing iff holding) and `Unborn` (no worker before the pool) make it so. |
| `TraceStoreProofs!EverySubmitAccountedFor` | `Spec => []Conservation` | Inductive with the types: each action moves one unit between the five terms. The pool must be open in `Get`, hence `WorkerHasPool` and `Lifecycle`. |
| `TraceStoreProofs!LossIsBounded` | `Spec => []BoundedLoss` | From `Conservation`, `Bounded` (the queue has at most `QueueSize`) and `Interrupted`: a write cut off by cancellation is the worker's last, so hand and interruption never add up to two. |
| `TraceStoreProofs!PoolOutlivesWorker` | `Spec => []WorkerHasPool` | `Lifecycle`: what each await of the lifespan allows of pool and worker. |
| `TraceStoreProofs!PendingOnce`, `CountersTrue` | `Spec => []PendingIsOnce`, `[]CountersTellTheTruth` | `InPlace`, inductive with `Inv`: the two properties need each other (what is counted as written must have been in the hand, what is in the queue must not have been sent) and `Unsent`: a trace nobody submitted is nowhere. |
| `TraceStoreProofs!Refinement` | `Spec => ImplementsLedger` | `Inv` and `InPlace` carry the step simulation: `Room` counts the places of a pending trace (a slot each and the hand), so `submit()` finds room in the ledger when it finds it in the queue; a late commit concerns no dropped trace; a restart loses all that is pending in one step. |
| `ComposeProofs!ClosesAfterTheLast` | `ServiceSpec => []DrainsBeforeClosing` | Inductive by itself. `WriterSteps`: nothing in the writer but `aclose()` begins a closing; `IdleRequests`: a request that is not under way neither progresses nor submits; a drained server accepts nothing. |
| `ComposeProofs!OneSubmissionEach` | `ServiceSpec => []SubmittedOnceAnswered` | `AnswerInv`: what is in the queue, in the hand, on its way to the table or in it was submitted; then each of the writer's steps decides only fates that were open (`DecideKeeps`), and `body()`'s last step opens one and answers its request at once. |
| `ChatProxyProofs!ObservedOnceHanded`, `TraceWhole`, `EndLoud` | `ProxySpec => []ObservedIsHanded`, `[]TraceIsWhole`, `[]EndsLoudly` | `ProxyInv`: the types and, of each request by itself, `Sound`: where its task is fixes its status (`StatusFits`), how far handing on, sending and observing have come (`LinesFit`), and how its lines end (`EndFits`). A step touches one request (`Others`); a yielded line changes nothing of what is said of earlier ones (`SummaryOfPrefix`), and one more observed line adds itself (`SummaryOfNext`). |
| `ChatProxyProofs!ProxyRefines` | `ProxySpec => ImplementsRequest` | Step simulation under `ProxyInv`: `Moves` says what a step does to the state of its request, and a request is drained from its last line on. |
| `ChatProxyProofs!HistoryPaired` | `SessionSpec => []HistoryIsPaired` | `Talk`: the prompt under way is the last message and its question the last thing asked; a banner pops exactly that. |
| `ChatProxyProofs!KeptWhole` | `SessionSpec => KeptIsWhole` | `Reads`: what the script has read is a prefix of the lines the proxy yielded, without `[DONE]` or an error so far; with `EndsLoudly` the end of such a prefix is the end of a whole response. |
| `ChatProxyProofs!EmptyPoisons` | `SessionSpec => EmptyReplyPoisons` | `Posts`: what the last posted window was, in terms of the messages there are now, by how the prompt ended. A banner pops the prompt, so the next window is the last one with another prompt in it; a kept reply pushes one pair out. |
| `MigrateProofs!TypeCorrect` | `Spec => []TypeOK` | With `AtFile` (from reading a file to committing it a runner is at a file and holds SQL it has read) and `Waiting` (a runner still waiting has an attempt left). |
| `MigrateProofs!AppliedOnce` | `Spec => []AppliedOnceAndRecorded` | `HistoryStep`: every step leaves the history alone or is the commit of one runner's file over an empty record. |
| `MigrateProofs!HistoryImmutable` | `Spec => HistoryIsImmutable` | The same lemma. |
| `MigrateProofs!RunsShrink` | `RunsEnd` without its `ENABLED` | `Left` depends on a runner's own place only; every command moves it to a place with fewer commands left, and nothing that another runner, the operator or Postgres does moves it. |
| `MigrateProofs!SchemaPrefix`, `EditsCaught`, `FailuresCaused` | `Spec => []SchemaIsAPrefix`, `[]EditsAreCaught`, `[]FailuresHaveCause` | `SchemaInv`: of the database (`Db`), that a file on record has its elders on record, but for those that were away; of each run (`Run`), that what it has passed is on record or was away; and of a run over files nobody changed (`Undisturbed`), that what it listed, read and passed is what there is. |
| `ComposeProofs!DrainsAmongContainers` | `ComposeSpec => []DrainsBeforeClosing` | `ServiceOrNot`: every step among the containers is a step of `ChatService` or leaves requests, server and writer's phase alone; then the lemma behind `ClosesAfterTheLast`. |
| `ComposeProofs!OnceAmongContainers` | `ComposeSpec => []SubmittedOnceAnswered` | The same case split: a store that dies or is replaced only loses rows and statements (`StoreLoses`), which keeps `AnswerInv`. |
| `ComposeProofs!GateHeld` | `ComposeSpec => []GateHolds` | First what the volume holds (no role before the second migration, a password of some `.env` after it), then that from `MigrateDone` to the api's attempt to connect only a recorded failure or change takes the store out of reach. |
| `EvalProofs!EvalTypeCorrect`, `ScoreWhole` | `Spec => []EvalTypeOK`, `[]ScoreIsWhole` | `EvalInv`: what a run has of an item fits the item's stage and shape (`ItemSound`), and a file is made of what its run has gathered (`RunSound`). That the total lies in its range is induction over the items (`TotalType`). |
| `EvalProofs!OnlyNoise`, `DriftExplained` | `Spec => []NoiseOnly`, if `HasGit` and `~ MidRunChanges`; `Spec => []DriftIsExplained`, if `~ MidRunChanges` | `QuietInv`: while a run is under way the world is as the run found it, as far as it has looked; so a file names by its hash and version the set and the release the run depended on and, if its tree is known to be clean, by its commit the code (`ComparedRuns`). Two files with the same scores have the same total (`TotalOfSameScores`). |
| `EvalProofs!ReportHomogeneous` | `Spec => []ReportIsHomogeneous` | Every two files of an accepted report have been compared, in one order or the other (`EveryTwo`). |
| `JiraSeedProofs!TypeCorrect` | `Spec => []TypeOK` | Needs the loops' positions: an answer's key is entered for an item and a sprint that exist. |
| `JiraSeedProofs!RecordedReal` | `Spec => []RecordedIsReal` | `Fresh` (between Jira's act and the entry of the key the last issue is the one asked for), `EpicsKnown` (stories come when all epics are known), `Position`; `GrowthKeepsReal`: Jira only grows, and moving issues changes no identity. |
| `JiraSeedProofs!FinishedComplete` | `Spec => []FinishedIsComplete` | `Passed`: what the loops have gone past is recorded, and moved; a chunk moves the stories of its own range and, since a key names one item, none of an earlier sprint. |
| `JiraSeedProofs!OneOrphan` | `Spec => []OneOrphanPerStop` | `LossInv` counts what is lost at each step; what counts as known is what the run knows or, once it has stopped, what the file holds (`InStep`). |
| `BenchProofs!RankIsNearest` | for p in `Percents` (50 and 95) percentile's position is a nearest rank, the clamp never acts | Integer arithmetic: 100 r is the least multiple of 100 not below p n. |
| `BenchProofs!PercentileIsNearest` | p50 and p95 are nearest ranks of any non-empty list | `Listed` puts the positions in order, each once, so that as many are at or before a place as its number says. |
| `BenchProofs!SamplesMeasured`, `ResultSums`, `ComparisonGrounded` | `ToolSpec => []SamplesAreTheMeasured`, `[]ResultAddsUp`, `[]ComparisonIsGrounded` | `BenchInv`: threads of earlier waves are over and those of later ones new (`InWaves`), the collector has one sample of each thread of the wave that is over (`OneOfEach`), what was gathered is whole waves (`Gathered`), and a result is the summary of it (`Reported`). The work is in joining a wave: the collected prompts are a permutation, and sorting undoes it. |
| `BenchProofs!LoadKept` | `ToolSpec => []LoadIsKept` | The next two, for the composition the run checks. |
| `BenchProofs!PermitsConserved`, `CountedOnce` | `LoadSpec => []PermitsAreConserved`, `[]EachCountsOnce` | Inductive with the types and `Settled`; each step moves one thread between the sets that are counted. |

Assumptions on the constants, each in the module that declares them:

- `TraceStore`, and what contains it: `QueueSize \in Nat \ {0}`, `NoTrace \notin Traces`,
  `MaxRestarts \in Nat`; `Compose`: `FirstPassword \in Passwords`, `NoRole \notin
  Passwords`, `MaxFaults \in Nat`. The proofs about the api process cite none.
- `ChatProxy`: `MaxLines \in Nat \ {0}`. `ChatSession`: a window of at least one turn,
  a natural number of prompts, and one element of `Requests`, for the script waits for
  each response; the proofs about the proxy do not cite that.
- `Migrate`: `NFiles \in Nat`, at least one attempt and one run, `MaxChanges \in Nat`.
- `EvalRun`: at least one run, item and thread; every item has a positive check, which
  is what `validate.py` enforces; `Unit` can be divided as the arithmetic divides it;
  `Null` is no number and no answer. `OnlyNoise` and `DriftExplained` have the
  hypothesis `~ MidRunChanges` besides, a world left alone while a run is under way, and
  `OnlyNoise` also `HasGit`: TLC refutes both properties when `MidRunChanges` is set, and
  `NoiseOnly` when there is no git (compare finding 4).
- The load tools: at least one prompt, natural numbers of waves, latencies and tokens,
  and baselines that have no percentile of no samples (`summarize()` wrote them);
  `Concurrency >= 1` and finitely many requests.
- `JiraSeed`: natural sizes, `Chunk >= 1`, a first backlog in which every story has an
  epic, natural bounds.

`Runners`, `Requests` and `Traces` are any sets, and every bound is any number, so no
theorem depends on the sizes of the runs.

Every invariant and every action property of a passing run is proved. Only
model-checked are the liveness properties, for liveness under fairness and `ENABLED` are
out of the prover's reach: `PendingResolves`, `AcloseReturns`, `DisconnectReleases`,
`RequestsEnd`, `ChatNeverWaits`, `ChatComesBack`, `PromptEnds`, `ResumesUnlessTorn`, and of
`RunsEnd` that a run under way can take a step.

Where a proof needs induction over numbers it is made by hand (`Counting`): the
library's induction theorems have an operator as a parameter, which the provers cannot
instantiate, but from the well-foundedness of `<` it follows that a set with 0 which is
closed under + 1 holds every number (`CountingUp`), and a function defined along `0..N`
can be put into such a set.

## Findings

Each is a sentence of the repository that a run refutes.

1. `ts_silent_loss`: `trace_store.py:6-9` promises a counter for every trace that
   is not stored. `aclose()` cancels the worker: the trace in its hand and the
   ones queued appear in no counter. (What holds is `BoundedLoss`: at most
   `QueueSize + 1` of them.)
2. `cp_unfinished`: `main.py:185-188` says a response with no `finish_reason` is
   not submitted. After an upstream failure in mid-stream `stream_chat` yields its
   error event and returns normally, so the partial answer is submitted.
3. `ui_dangling`: `ui/app.py:149-150` drops the unanswered turn so that a retry
   does not resend it. Only `RuntimeError` is caught; what `iter_lines` raises at
   `ui/app.py:75` is not, and the prompt stays and is sent again.
4. `ev_edit`: `run.py:418` says the hash is how an edit is caught. The items are
   read at line 368 and the hash from a second read at line 419, minutes later.
   An edit in between gives old items the new hash. With a git binary the dirty
   tree gives it away; without one the tree's state is unknown, and `drift.py:98`
   lets unknown pass.

## Observations without a run

Met while modelling; each is in the models' behaviour, none is claimed as a
violation.

- `aclose()`'s docstring (`trace_store.py:145-146`) reads as if pending writes got
  a moment; it cancels at once.
- A timeout or a lost connection after COMMIT is counted as a failure although the
  row may be, or become, durable (`metrics.py:30`). `TraceLedger` says exactly that:
  a failed trace may be a row.
- Only `ConnectError` and `ConnectTimeout` become an `UpstreamError`. Any other httpx
  error before the first line commits a 200 whose only line is the error event
  (compare `vllm_client.py:94-97`).
- `read=None` bounds nothing (`vllm_client.py:8`): before the response has started
  a client that leaves is not noticed either.
- `submit()` runs after the middleware has taken the last line, and before it is
  necessarily sent (`main.py:176`). A client that closes on `[DONE]`, as the UI
  does, may cost a completed answer its row (`docs/trace-store.md:57`).
- An empty answer enters the UI's history; every later prompt whose window holds it
  is a 422, and the refused prompt is popped, so the window does not move.
- The UI's window counts messages and not tokens (`docs/architecture.md:16`): twenty
  turns of up to 1024 tokens are more than the 8192 of `docker-compose.yml`,
  and under the api's 48000 characters. A full window begins with an assistant
  message.
- A UI that times out before the first line leaves the api's upstream request
  running.
- `migrate.sh` reads each file twice, for its SQL (70) and for its md5 (71). An edit in
  between applies the old content under the md5 of the new one, and every later run
  finds the file in order, against lines 19-20. `EditsAreCaught` says that the file is
  the one on record, not that the record is what was applied.
- A migration that is unlinked between the two reads is recorded with an empty
  checksum, looks unrecorded and fails as "already exists" in every later run (compare
  `migrate.sh:5-6`).
- An exception `score_one` does not catch (a reset while the body is read, a reply
  that is not JSON) loses the whole run (`run.py:276-277`).
- `run.py`'s `score_one` says it "records a failure rather than raising, so one bad item
  does not discard the other 51 answers"; the two exceptions above do just that.
- `compose up` migrates a data volume that was replaced under a running stack but
  leaves an api alone whose own definition has not changed: if that api came up without
  tracing it stays so until it is restarted.
- The header of `0002_api_writer_role.sql` (15-18) says that a role which survives a
  database drop and `schema_migrations` "stay consistent". They do for a dropped
  volume; after a dropped database the role is still there, its record is not, and
  `CREATE ROLE` fails in every later run.
- The benchmark and the load generator read the api's error event like any data line and
  do not look for `[DONE]`: a response that fails in mid-stream, or breaks off between
  two chunks, is a success, and a fast one (`bench_stream.py:166-204`,
  `loadtest.py:75-80`; "any failure is a failed request", `bench_stream.py:194`). The
  load generator counts one without any data line as one whose first token took no time
  (`first or 0.0`).
- Of the gateway nobody asks which model it serves (`bench_stream.py:270-275`): `--model`
  is recorded as typed, and `compare.py:68-72` matches on it. `ComparisonIsGrounded`
  claims equal models of runs against vLLM only.
- Result files are stamped to the second (`common.py:149-151`): of two comparisons made
  within one the second replaces the first, against "timestamped rather than overwritten".
- `jira_seed.py` promises that a second run skips what exists. What was created and not
  yet recorded when a run stopped is created again: at most one per stop
  (`OneOrphanPerStop`). A stop between the two halves of `save_state` leaves a
  `.keys.json` that `json.loads` rejects, and every later run ends there.
- `jira_seed.py:4-5` says that the board and the plan cannot drift. A story that exists is
  skipped (256-263), so one the plan moves to another epic keeps the parent it was
  created with. `RecordedIsReal` says that this is the recorded issue of the epic its
  label names; `FinishedIsComplete` speaks of sprints only.
- A tripped trap on an item whose string checks pass scores 0.5; the rubric calls a
  trap a hard zero.

## What is assumed and what is left out

External parts are modelled from how `src/` uses them: asyncio, psycopg and its pool,
Postgres (durability, the primary key, `CREATE TABLE IF NOT EXISTS` racing in the
catalogue), Starlette's `BaseHTTPMiddleware` and disconnect listener, uvicorn's graceful
shutdown, httpx, `requests`, Streamlit (a script is stopped at its next call), git,
and vLLM, of which one thing is assumed: a 200 that has produced lines ends cleanly only after `[DONE]`
(anything else is a break-off or a 200 without lines).

Abstracted: the text of messages, answers and error events (counts and kinds); a
trace's usage and logprobs; the SQL of migrations and the checksum function (a
version); timestamps and latencies; which of 401, 413 and 422 a refusal is; the
prompt and schema of the judge; formatting, logging and printing.

Not modelled: the two local baselines (sequential scripts around model libraries;
their result files are the baselines of `BenchStream`); dashboards, recording scripts
and CI (no behaviour of the running system). Of the compose file, the ui, prometheus
and grafana containers are left out: nothing waits for them, and only the ui waits,
for the api's health. Provenance in result files is reduced to the model's name, and
time to first token, which is handled like the total time, is left out. Of an issue
only its parent, its sprint and its epic's label are kept.

## Plan

Done, in order of importance: the trace writer with its ledger; the proxy and that it
is a request; their composition, and its life among the containers; migrations; the
evaluation; the UI session; the load tools and the seeding script; and proofs of every
safety property of all of them.

Next, modelling: sizes in `ChatSession` (tokens per message against the context window
and the 48000 characters), and the api's leftover requests of earlier prompts; result
files by name, for results of one second.

Next, proofs:

1. An abstract specification of `Migrate` (one file after another, each once) and that
   overlapping runners implement it; `HistoryStep` and `SchemaInv` are most of it.
2. The composition of `ProxyRefines` with `ComposeProofs`: the proxy itself, and not
   `ChatRequest`, in the api process.
3. Measures for the other liveness properties, as `RunsShrink` is for `RunsEnd`: what
   remains of a prompt, of a request with an upstream that answers, of a seeding run.
4. Whatever the modelling above adds.

## Running

```
tlc -workers 2 -config TraceStore.cfg MCTraceStore
tlapm TraceStoreProofs.tla
```

`PROJECT.json` lists each run with its module, configuration and properties, the
source lines each definition models, and the theorems.
