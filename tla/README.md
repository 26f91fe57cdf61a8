# Verification of SecureLens (trust-vault)

TLA+ specifications of the parts of this repository where several processes,
requests, tabs or tables act on the same state, the TLC configurations that check
them on small instances, and proofs that TLAPS checks for every instance. Paths are
relative to the repository; `kafka.go` is `internal/external/kafka.go`, and
`app/`, `hooks/`, `lib/`, `store/`, `components/` are in `trust-vault-frontend/`.

    tlc -config JobScheduler_settles.cfg MCJobScheduler      # a run
    tlapm JobSchedulerProofs.tla                             # a proof

## 1. Inventory

The program is one Go binary that runs as a *gateway* (HTTP API) or as a *worker*,
Python side services, PostgreSQL, Kafka, and DataHub as the metadata store; a
Next.js frontend and client SDKs use the gateway.

| Component | State | Operations | Talks to |
|---|---|---|---|
| Job scheduler `internal/scheduler/scheduler.go` | tables `jobs`, `job_executions`; the list of a tick in memory | `releaseStaleJobs`, `processDueJobs`, `retryFailedJobs`, `queueJob`, every 30 s in every worker | PostgreSQL, topic `job-executions` |
| Job execution consumer `kafka.go:1952-2290` | the same tables, the message in hand | `processJobExecution` | PostgreSQL, topics, the code of each job type |
| Job API `internal/api/observability_jobs.go` | the same tables | `createJob`, `updateJob`, `deleteJob`, `runJobNow` | PostgreSQL, topic `job-executions` |
| Data source scans `internal/api/datasource.go`, watchdog in `cmd/server/main.go` | `datasources.status`, `scan_logs` | `triggerScan` (a handler, then a goroutine), `scanCallback`, update, delete, watchdog | ingestion sidecar (HTTP), `job-executions` |
| Ingestion sidecar `ingestion/main.py` | `jobs[job_id]` in memory, DataHub | `start_ingestion`, `run_ingestion`, final callback | gateway (HTTP) |
| Classification worker `kafka.go:79-550` | `classifications`, `scan_logs`, `datasources.status` | `processClassificationJob` | topic `classification-jobs`, DataHub |
| Repository `internal/store` | every table | `Create`, `FindByID`, `Update` (whole row), `Delete` | PostgreSQL |
| Labels `internal/api/auto_governance.go`, `kafka.go:769-` | label assignments | label rules of the worker, upgrade-only governance of the gateway | PostgreSQL |
| Residency `internal/api/residency.go` | rules, `datasources.region`, violations | create, delete, re-evaluate, tag, detect | PostgreSQL |
| DPIA `internal/api/dpia_cde_profiling.go` | `dpias`: steps, status, consultation | step updates, approval and status changes | PostgreSQL |
| Client SDK `sdk/node/src` | a call's attempt, timer and signal; the contexts of LangChain runs | `request` with retries, Express middleware, callback handler, retriever, streamed query | gateway (HTTP) |
| Frontend: pages and query cache `app/`, `hooks/`, `components/providers.tsx` | React Query's cache, local state of components | the queries and mutations of 66 pages | gateway (HTTP) |
| Frontend: session `lib/api.ts`, `store/auth.ts` | cookie jar of the browser; store, cache and requests of each tab | login, SSO callback, logout, 401 interceptor | gateway (HTTP) |
| Frontend: waiting pages (a data source, ROT, a classification) | a busy flag, an `EventSource` | start a job, poll or listen for its end | gateway (HTTP, SSE) |
| Event bus `internal/events/bus.go` | a channel of 1000 events, the SSE clients | `Emit`, `Start`, `BroadcastSSE` | browsers |
| Policies, AI gate, DSAR, remediation, ROT, invitations, endpoint agents | one table each | handlers of the API | PostgreSQL, topics |

What is hard, and the property that makes each component correct:

* **Jobs.** Workers coordinate by conditional UPDATEs only; `FOR UPDATE SKIP LOCKED`
  is used outside a transaction, so its row locks end with the SELECT. A job's
  lock, execution row and message are written by three calls. Workers crash, locks
  age, Kafka redelivers, a timed-out execution runs on. Correct means: one holder
  at a time, bounded and gapless attempts, no execution left in nobody's hands, an
  execution runs once, locks are released, a one-time job ends.
* **Scans.** One status column is written by two HTTP handlers, a goroutine,
  consumers and an update handler; the sidecar keeps one entry for all scans
  of a source and calls back once. Correct means: "scanning" only while a
  scan is in flight, a scan log that ends and stays ended, classification after the
  scan's own ingestion, a bound on the classification rows of a column.
* **Labels.** Check-then-act against "never downgrade automatically" (`auto_governance.go`).
* **Residency.** Violations are derived data that each handler keeps up by itself, in
  statements outside a transaction. Correct means that none is missing in the end.
* **DPIA.** Requests write back all steps of the row each one read. Correct means that
  nothing is completed without the officer's consultation on record.
* **SDK.** A POST is retried although its answer may only be late; timers and signals
  abort what they reach. Correct means: a promise that settles once and with the answer
  to its own attempt, nothing sent after it; a middleware that fails closed.
* **Query cache.** Each command names the keys it makes stale, beside a server that
  writes other tables than the hook's author thought of, at once or later. Correct means:
  a page shows what its command did, and never an older state than it showed.
* **Session.** Tabs share the cookie jar but neither store nor cache, and answers cross.
  Correct means: no tab holds another user's data.
* **Waiting pages.** The end of a job is learnt from a poll that may see nothing or an
  event that may reach nobody. Correct means: busy while the job runs, free after it.

The full list of components and hazards, each at its line, is in `PROJECT.json`.

## 2. Modules

| Module | What it is |
|---|---|
| `JobScheduler` | the jobs of the scheduler, the consumer and the job API; composes the three because they share two tables and a topic |
| `JobLifecycle` | what they promise of one execution row: abstract specification |
| `ScanPipeline` | one data source from the scan request to its classification rows: gateway, sidecar, both topics, workers, watchdog |
| `Labels` | the sensitivity label of one dataset: the worker that classified it, the gateway's governance, the users |
| `Residency` | residency rules, the regions of data sources with all their writers, and the violations |
| `Dpia` | one assessment and the requests that update it |
| `Governance` | the three modules before side by side |
| `SdkErrors` | error classes of the Node SDK and which of them are retried |
| `RemoteCall` | what `SecureLensClient` promises of one call: abstract specification |
| `SdkClient` | the retry loop of `client.ts`, its timers and signals, and the gateway; implements `RemoteCall` |
| `SdkApps` | Express, LangChain, retriever and streaming on top of `RemoteCall` |
| `Hooks` | every query and mutation of `hooks/` that a page uses: keys, invalidations, tables read and written |
| `Pages` | every page of `app/(app)`: what it shows, its commands, where they lead |
| `Browser` | React Query's cache, the server's tables and a user, over any tour of `Pages` |
| `Session` | the tabs of one browser: cookie jar, auth stores, caches, requests in flight |
| `TaskWatch` | three pages that start a job and wait for its end |
| `MC*` | instances for TLC |
| `*Proofs` | theorems about the module of the same name, `GovernanceProofs` also about its three parts |

On the server one action is one SQL statement, one Kafka call or one HTTP call:
PostgreSQL runs each statement in a transaction of its own, and anything may happen
between two. In the SDK and the frontend one action is what the event loop runs between
two awaits. An action is named for the function it is in or for what the statement does.
Fault kinds are members of the constant `Faults`; `MaxFaults` bounds how many of
them happen, except `age` and `slow`, which are the passing of time, and `timeout`.
The operators called "Mutant" or "Mistake" in a comment are plausible mistakes, never part
of `Next`; each property is seen to fail when one replaces its original.

### JobScheduler

`jobs` is the table, one row per job id, with the columns the code decides by. The
three times become flags that actions of time raise: `due` (`next_run` is NULL or
past), `stale` (`locked_at` older than ten minutes), `cooled` (`updated_at` older
than the retry backoff). `execs` is `job_executions` in order of `created_at`; a row
removed by the cascade keeps its place with status "deleted". `topic` holds unread
messages. `sched[w]` and `cons[w]` are the two goroutines of a worker, with a program
counter between statements; `requests[r]` is a handler with the copy of the row it
read, because `Repository.Update` writes every column of that copy back.

* `ReleaseStaleJobs`, `SelectDueJobs`, `SelectFailedJobs`, `EndTick`: one tick. The
  lists stay in memory (`todo`); `LockJob` / `LoseJob` is the conditional UPDATE.
* `InsertExecution`/`InsertFails`, `ProduceExecution`/`ProduceFails`,
  `FailExecution`, `UnlockFailedJob`: the rest of `queueJob` with its error paths.
* `ReceiveExecution` ... `FinishJob`: `processJobExecution`. `Outcomes` is the data
  race after a timeout: the abandoned goroutine still assigns the variable that
  is read later.
* `Crash`: a worker dies or shuts down; the message it read last may come back.
* `CreateJob`, `Run*`, `Update*`, `DeleteJob`: the gateway. `runJobNow` works on the context of its
  request (`observability_jobs.go:775-820`, 60 seconds by `server.go:145`): after the INSERT of the
  execution the Update of the job may fail alone (`RunUpdateFails`), and a client that leaves
  (`ClientLeaves`) makes the Update, the Produce, the revert and the failing of the execution fail
  together. What it leaves behind is a request in state "left".

Not modelled: failing statements of the scheduler and the consumer other than the INSERT of an
execution; redelivery
of more than the last message; ORDER BY (a due job is any due job); what a job does;
cron strings (the code never parses one: `calculateNextRunTime` maps a few words).
`LoseJob` also stands for the bound `MaxExecs`. A topic is a set, so that there
is at most one unread copy of a message.

### ScanPipeline

`status` and `logs` are the rows of the source and its scans, `rows` counts the
classification rows of each column. `triggers[s]` is `triggerScan`: its handler,
then its goroutine. `entry` is the sidecar's `jobs[job_id]`, which all scans of a
source share; `ingestions[s]` is the outcome of the scan's own ingestion.
`callbacks[s]` is the callback and its handler. `executions` and `queue` are the two
topics; `workers[w]` is a classification consumer. The message of an execution is
relayed by `Relay` from the first topic to the second.

* `SettleError` leaves the scan log alone: the ScanLog it writes has an empty
  `datasource_id`, which PostgreSQL refuses as a UUID, and the error is dropped.
* `Classify` may insert a second row for a column: `classifications` has no unique
  constraint for ON CONFLICT DO NOTHING to apply to.
* `Watchdog` is the UPDATE of `runScanWatchdog`; `UpdateRead`/`UpdateWrite` is every
  handler that writes back the status it read.
* A fault "statement" is an SQL statement that fails, alone or with every later one of its
  request, because the client left or its time was up. In `triggerScan` any error of the
  re-fetch is a 404 with the source already "scanning" and no goroutine (`TriggerGivesUp`,
  `datasource.go:318`); in `scanCallback` the UPDATE to "error" runs on the context whose end
  made the Produce fail (`CallbackGivesUp`, `:574`); the worker logs a failing DELETE and inserts
  all the same (`ClearFails`, `kafka.go:296`), takes any error of its SELECT for a missing source
  (`NotFound`), and drops the errors of its last UPDATEs (`WorkerFails`).
* Two history variables remember what such a fault leaves behind. `stranded`: since the status was
  last written, somebody dropped a scan (by a crash, a lost message, call or callback, a failed
  statement), or an update wrote an old "scanning" back. `uncleared`: the DELETEs that failed since
  the last that did not.

Not modelled: progress messages, SSE events, labels (module `Labels`), text mode and rules of the
classifier, auto-eradication after a scan, more than one source (sources share
topics and workers only).

### Labels

`found` is the dataset's entity types in `classifications`, `rules` the active
`label_rules`, `label` the row of `labels`, `mirror` the copy in
`datasources.sensitivity_label`. `workers[w]` is the part of `processClassificationJob`
from its DELETE on: the label rules are one action per statement (`ReadTypes`,
`ReadRules`, `Store`, `Mirror`). `governors[j]` is the goroutine a job's callback
starts. The two tables of entity types are the code's (`entityLabelMap`,
`defaultClasses`), and differ: IBAN is RESTRICTED for the gateway and
HIGHLY_CONFIDENTIAL for the worker, PHI is RESTRICTED and PUBLIC.

* `GovernCreate` and `AssignLabel` are plain INSERTs, which the unique index of
  migration 012 refuses when there is a row; both errors are dropped.
* `Matching` leaves out negative priorities: the search starts at -1.
* `Highest` is a set, because the query orders by priority only.
* `outdated` is a history variable: the last UPDATE of a goroutine (`GovernUpgrade`) left a label
  too low for what the dataset then held, because the goroutine had read fewer rows than were there
  since, or had compared with a label that was there before. The worker's next `Store` resets it.

Not modelled: the audit and policy-gap log entries written after the label; jobs
of a dataset that fail before their DELETE, which touch no label.

### Residency, Dpia, Governance

`Residency`: `region` is the column of the sources, `violations` the pairs in the table,
`requests[q]` a handler with the copy of the row it read and the violations it has still
to insert. Rules and sources get fresh ids. `ReevaluateResidencyViolations` is two
statements and an INSERT for each rule, all from the handler's own copy. `WriteSource`
with the operation "keep" is every handler that writes back the region it read: an update
without a region, `triggerScan`, `scanCallback`. `Abandon`: the client goes away, and the
later statements of `r.Context()` fail. `unchecked` is a history variable: the sources
whose region was written last by something that evaluates no rule, by one of two
updates at once, or by one that was cut short.

`Dpia`: the four steps before the officer's are the set `Earlier`, because
`computeDPIAStatus` does not tell them apart. Every request works on its own copy of the
steps. A statement that fails although its request lives on is not modelled.

`Governance` lets one of the three parts move in a behaviour, since their handlers share no row.

### SdkErrors, RemoteCall, SdkClient, SdkApps

`loop[c]` is where `request` and `executeRequest` stand for call `c`, with the attempt;
`gateway[c]` holds the attempts that are on their way and those it has executed, in any
order and however late. Time is left out: an armed timer may fire at any moment.
`PromiseKept` is the refinement: `result` of the loop is `RemoteCall`'s.

* `client.ts:177`: the caller's signal replaces the timer's, so that nothing ends such
  an attempt but an answer or the caller; `:180` clears the timer before the body is read.
* A body that cannot be parsed is retried as a connection error (`:207`).

`SdkApps` uses the promises of `RemoteCall` only. Its applications share nothing, so one
of them is active in a behaviour. `web.sent` lists the answers a request got. `contexts` is
`runContexts` of the LangChain handler; `own` marks a context a child made for itself,
because its parent had none, which nothing deletes (`langchain.ts:256`, `:278`).

Not modelled: the Python SDK, which has the same loop without signals and timers of its own.

### Hooks, Pages, Browser

`Hooks` and `Pages` are data: a query is a key, the tables behind it and how it loads; a
mutation is the tables its handler writes before and after its answer, and the keys it
invalidates. The tables come from the handlers in `internal/api`, the rest from the hooks
and pages. `Browser` picks a *tour* (a page, one of its commands, one query the command
affects, and another page) and follows that query through React Query's rules:
a load in flight is cancelled by a refetch unless it is the first (`Refetch`), data are
fresh for five minutes (`Age`) and dropped after ten (`Gc`). `entry.loads` are the loads
in flight with the version the server read for each. `local` queries are fetches into a
component's state, which nothing cancels. All tours are initial states of one run.

Not modelled: filters, paging and forms; two queries at once, since a cache entry depends
on its own key only; pages outside the app shell (registration, forgotten password).

### Session

`jar` is the cookie all tabs share; `store`, `cache`, `fetches`, `login` and `logout`
are each tab's. `path` says where the layout of the app is (`app/(app)/layout.tsx:29-61`): mounted with
the user of the store or the cookie (`Enter`, `Reload`), and showing its pages, which fetch, before
its second effect has looked for a cookie ("checking"); past that ("app"); or about to be replaced by
the login page ("leaving"). The effect runs again when the user goes (`CheckAgain`), and redirects
only if there is no cookie: with the cookie of another tab, a tab without a user goes on showing
the app. Any answer may be a 401, whose interceptor (`lib/api.ts:31`) removes the cookies and has the
login page loaded: the page lives on, store and cache with it, until that arrives (`unloading`,
`Unload`). `mixed` records that a tab went on with its cache across
a change of user: a login clears no cache (`login/page.tsx:88`), nor does a logout whose
request fails (`use-auth.ts:69`).

### TaskWatch

Jobs are numbered by the clicks that start them, and job 0 is another user's. `UpdateReads` and
`UpdateWrites` are the handlers that write back the status they read (`datasource.go:182-212`, the
region detection `:115-127`, `residency.go:343-365`, `:370-410`): they can put an older status over
"scanning" while the scan runs, or "scanning" over its end. `overwritten` remembers it. `Poll` and
`Read` are the source page's polling, `inbox` the events on their way to the other two.
Events are matched as the code matches them: any ROT scan's, and those of the dataset for a
classification. `NeverLearns` names the causes for which a page stays busy: the poll saw the
same status before and after the scan (`data-sources/[id]/page.tsx:52`), an update wrote an old
"scanning" back after it, the ROT scan was
refused or its end was sent while nobody listened (`rot/page.tsx:290`, `:347`), and the
classification failed (`classification/[id]/page.tsx:408`).

## 3. Runs

| Run | Instance | Shows |
|---|---|---|
| `flight` | 2 jobs (retries 2 and 0, one-time or recurring), lists of 2, 2 workers, one failing INSERT or Produce, 2 executions | `SingleFlight`, `SettledAgrees` |
| `requests` | 1 job, 2 workers, 1 gateway request, ageing, timeouts, one of a failing INSERT, Update or Produce and a client that leaves, 2 executions | `TypeOK`, `NoneForgotten`, and `RunsOnce`: every execution row implements `JobLifecycle` |
| `locks` | 1 job, 2 workers, one of crash, lost Produce, lost answer, ageing locks; fair | `LockReleased` |
| `settles` | 1 job, `max_retries` 2, 2 workers, timeouts, one failing Produce, 5 executions; fair | `AttemptsBounded`, `OneTimeSettles` |
| `scan_concurrent` | 2 scans, 1 update, delete or reclassification, 1 worker, one fault of any kind but "worker" and "ambiguous", watchdog; fair | `TypeOK`, `ScanningHasScan`, `ClassifiedAfterIngest`, `CompletedStays`, `ScanEnds` |
| `scan_faults` | 1 scan, 2 other requests of any kind, 2 workers, two faults of any kind, watchdog; fair | `RowsBounded`, `LogEnds` |
| `governance` | labels: 2 jobs, 2 workers, 1 user, datasets with no, one or two entity types, 2 rule changes, callbacks may be lost; residency: 1 source, 2 rules, 2 regions, 3 requests; DPIA: 2 earlier steps, 3 requests; 2 clients that go away | `TypeOK`, `Labelled`, `LabelSufficient`, `NoViolationMissed`, `CompletedWasConsulted` |
| `sdk_client` | 2 calls, one with a signal, 2 retries, 4 error statuses, failed connections, truncated and stalled bodies; fair | `TypeOK`, `ExecutionsAccounted`, `QuietAfter`, `PromiseKept` (implements `RemoteCall`), `Settles` |
| `sdk_apps` | every option of every application, 1 retriever in the chain, 1 outside and the model, 2 documents, streams of 3 events; fair | `FailsClosed`, `AnsweredOnce`, `ContextsReleased`, `StreamDelivered`, `EveryRequestAnswered` |
| `browser` | every tour of 66 pages, 2 issues of the command, 2 overlapping local loads; fair | `ShowsItsEffect`, `NeverOlder`, `PollCatchesUp` |
| `session` | 2 tabs, 2 users, one user's token in flight per tab at a time | `TypeOK`, `SetterAgrees`, `NoForeignData`, `LogoutSignsOut` |
| `watch` | each page, 2 clicks, another user's job, an update of the source, 1 visit elsewhere, 1 event under way; fair | `TypeOK`, `BusyWhileRunning`, `BecomesFree` |

**Bounds.** Two workers are enough for every race of this code: each conditional
UPDATE and each topic has a winner and a loser, and a third worker is another loser.
Three executions reach the boundary of `max_retries` 2 (attempt 3 must not exist).
In `settles`, four are what two workers with old lists make of a one-time job with
two tries, and five leave one to spare: with three the bound itself would strand the
job and `OneTimeSettles` would fail. A failing INSERT starts the attempts again and
takes seven; that instance holds too and is left out for its size. Two scans interleave all
writers of the status; with `MaxFaults` 2 a fault may hit the recovery from another.
`DueLimit` and `RetryLimit` (10 and 5 in the code) are 1 or 2, so that a list may be cut off.
Residency starts from any consistent tables, so that three requests are two that race and
one that finds what they left; each violation belongs to one source, and the instance
with two sources (3.3 million states) holds as well. `Retries` 2 is the first number
with an attempt that is neither first nor last; the statuses stand for the outcomes of
`parseApiError` and `isRetryableError`. The command of a tour is issued twice, so that the
second overtakes loads of the first; one more page in a tour is enough to leave and
come back. In `session` the requests in flight of one tab carry the same token (`MaxTokens` 1); the
instance with two (10.7 million states) holds as well, and the theorems hold for any number. In `watch` the second click meets the timers and events of the first.
`MaxInbox` 1 only bounds how many events wait in the browser.
Symmetry is used only where no liveness is checked.
The jobs, SDK client, browser and session runs check deadlock; the others stop when their
requests are served, their applications done or their bounds used up.

**Which fault belongs to which run** is part of what is shown. `SingleFlight`,
`SettledAgrees` and `OneTimeSettles` are promises of the lock protocol, and hold
only as long as nothing takes a lock from its holder: with `age`, `crash`, `ambiguous` or a
gateway request they are false, as the code has no fencing. `RunsOnce` needs a
broker that loses no answer. `SettledAgrees` is also false with `timeout`: the
data race can record a failed execution and a completed job. `CompletedStays` is
false with `ambiguous`: the callback handler then fails a scan that runs, so a log goes from
completed to failed. `NoneForgotten` excepts an execution that a client left behind, which no
statement of the code finds again. `ClassifiedAfterIngest` says of two scans what the shared entry
of the sidecar leaves true: a scan whose own ingestion failed is classified only if the entry
spoke of another one that had completed. `RowsBounded` allows a row for each worker, because two
both delete, then both insert, and one for each DELETE that failed. `ScanningHasScan` and `ScanEnds`
hold of every fault for a source that is not `stranded`; one that is stays "scanning" until its
status is written again, since `triggerScan` refuses it and the watchdog closes only its log.
`LabelSufficient` needs callbacks that arrive, and excepts a label that a late UPDATE left too low
(`outdated`): with two entity types, a goroutine that read half of the rows overwrites the
higher label, against "never downgrade automatically" (`auto_governance.go:101`). It holds of
whatever the worker stores and the other goroutines leave, with any entity types. `PHI` and the rules of `LowRules` are
chosen so that the worker's label is lower than the gateway requires.
`NoViolationMissed` counts only sources that were evaluated last and undisturbed, for the
other writers of a region evaluate nothing, and two updates of one source at once
can each delete what the other inserted; violations that are no longer true may remain in
any case. `CompletedWasConsulted` leaves out a skipped step and a status set outright,
which the API allows. `ShowsItsEffect` leaves out the six pairs of `Gaps`
in `MCBrowser`, an answer that was read before the write and could not be cancelled,
and a last load that failed. `NeverOlder` is about queries, not local fetches. `NoForeignData` holds except where
`mixed` names the cause. `StreamDelivered` leaves out events lost between two reads.

**Fairness.** Weak fairness of each goroutine: the ticker fires every 30 seconds, a
consumer works off what it read, a handler that started ends, the watchdog ticks
every five minutes (`main.go:211`), locks age. Nobody has to create a job, send a request or fail.
`ScanPipeline` assumes nothing of the choice among the steps of one goroutine.
`SdkClient`: the event loop of each call goes on and armed timers fire; the gateway need
not answer, and `Settles` says so for calls with a signal. `SdkApps`: promises
settle, which is what `Settles` shows, and awaiting code is resumed. `Browser`: requests
are read and answered unless they fail, and polling goes on. `TaskWatch`: answers
arrive, timers fire, events that reached the page are handled; reading and receiving a
load is strongly fair, because each poll cancels the load before it, and polls are
seconds apart. The jobs themselves need not end, and events may be lost.
`Governance` and `Session` assume none: their properties are about safety or states at rest.

## 4. Proofs

Every safety invariant and action property of the runs, and both refinements, is the
subject of a theorem. Few of them are inductive; what each proof adds is said below.

`JobSchedulerProofs` (any number of jobs, workers, requests and executions):

* `TypeCorrect`: `Spec => []TypeOK`, under every fault; one lemma `TypeStep` with one step
  per action. `TypeOK` is inductive because it says that every execution named by a message
  or a goroutine has a row.
* `AttemptsCorrect`: `Spec => [](AttemptsBounded /\ RetryChain)`, under every fault, where
  `RetryChain` (no attempt is skipped) is stated by this theorem only. The attempt number is
  computed by one statement, kept in memory and inserted by a later one. `AttemptInv` adds
  that each listed attempt is `Justified` by executions that exist; that survives other
  actors' steps because rows are only appended and neither the job nor the attempt of a row
  changes.
* `FlightCorrect`: if `Undisturbed` (no requests, no `age`, `crash`, `ambiguous`), then
  `Spec => []SingleFlight`. `FlightInv` adds that no lock is stale and that the
  execution a scheduler produces belongs to the job it locked. The argument:
  an unlocked job is in nobody's hands (`UnlockedIsFree`), so that `LockJob` creates
  the only holder; a hand-over passes the job from one holder to the next, and
  whoever unlocks is the only holder (`SoleHolder`).
* `NoneForgottenHolds`, for any faults (`NoneForgotten` itself excepts `crash`, and what a client that left
  run-now orphaned), and `RunsOnceHolds`,
  the refinement of `JobLifecycle`, without `crash` and `ambiguous`. Both follow from `CustodyInv`:
  an execution passes from the scheduler or a request over the topic to a consumer, one
  party at a time has it (`CustodyOf`), its status says how far that party is (`ProgressOf`),
  and an unfinished one is in somebody's hands (`RememberedOf`). What depends on the broker's
  answers carries the condition `Clear`, so that one invariant serves both theorems.
* `SettledAgreesHolds`: if `Settling` (`Undisturbed`, and no `timeout`), then
  `Spec => []SettledAgrees`. `SettleInv` adds that every holder's execution is the newest of
  its job, and that a consumer finishes the job with the outcome it has recorded. It needs
  `FlightInv`: a second holder could add an execution behind the first one's back.

`ScanPipelineProofs` (any number of scans, requests, workers and columns):

* `TypesHold`: `Spec => []TypeOK`, under every fault.
* `ScanningHolds`: `Spec => []ScanningHasScan`, under every fault and with every request. `Staged` says
  at which stage of its scan each goroutine, callback and ingestion may be. `ScanningHasScan` is inductive
  beside it: whoever gives a scan up either passes it on, or writes the status, or strands the source.
* `CompletedHolds`: if no worker dies and no message is kept whose sender was told it failed
  (`Once`), then `Spec => CompletedStays`. `Exclusive` says that one party at a time may settle
  a scan, `Final` that a completed scan is in nobody's hands.
* `ClassifiedAfterIngestHolds`: for any number of scans that share the entry, under every fault.
  `Faithful` follows a "completed" from the ingestion that filled DataHub to the sidecar's entry, to the
  callback of a scan that may be another, to the topics, the workers and back after a redelivery.
* `RowsHold` (`RowsBounded`): for any number of workers, under every fault. `Bounded` counts the workers
  that have yet to insert a row for the column (`Pending`) with the rows that are there.

Only `CompletedHolds` has a condition, without which section 3 says that the property fails.

`GovernanceProofs` (any number of jobs, workers, users, sources, regions, rules and requests):

* `TypeCorrect`: `Spec => []TypeOK`, of `Labels`; `LabelsWithin`, `GovernanceSpec => Spec`, carries it
  and the next two over to the composition that the run checks.
* `LabelledCorrect`: `Spec => []Labelled`. A state at rest is no starting point for
  an induction, so `LabelledInv` says who still has to act: while a classified dataset
  has no label, some worker is before its `Store`.
* `SufficientCorrect`: `Spec => []LabelSufficient`, with any entity types. `SufficientInv`: while the label
  is too low and not `outdated`, a worker is busy, a goroutine has yet to decide or to raise it to
  what the dataset requires (`Requires`), or a callback was lost. A
  goroutine in `GovernCreate` does not count, as its INSERT may be refused; there
  `LabelledInv` supplies the worker that refuses it.
* `NoViolationMissedHolds`. In `ResidencyInv`, a missing violation is `Owed` by a handler that has
  listed it and not inserted it, or that will list it: a new rule's handler reads the sources
  after its rule is there, an update reads the rules after its region is, so one of two that
  cross sees the other. `UpToDate` says that an update which evaluates a source goes by the
  region the source has; this is what `unchecked` excepts.
* `CompletedWasConsultedHolds`. `DpiaInv` adds that a request about to store the officer's step as
  completed, or to set "approved", finds the consultation recorded (`Careful`): the copies of the
  steps that requests hold may be old, and are all the same never ahead of `consulted`.

`SdkClientProofs` (any calls, retries and statuses): `LoopInv` ties the attempt, the timer
and the promise to each other.

* `TypesHold`, `ExecutionsHold` (`ExecutionsAccounted`), `QuietHolds` (`QuietAfter`).
* `PromiseHolds`: `Spec => PromiseKept`, the refinement: `Init` implies `RemoteCall`'s, and every
  step is a step of one promise or a stutter.

`SdkAppsProofs` (any retrievers, documents, statuses and stream events): `TypeCorrect`; `FailsClosedHolds`
and `AnsweredOnceHolds` from `WebInv` (what brought a request to the handler, and that it has
sent nothing before it is done); `ContextsReleasedHolds` from `ContextInv` (only a run that has started
owns a context); `StreamDeliveredHolds` from `StreamInv` (the final response is that of a last
event which the callback took). `AppsAssumption` says that the two calls of the middleware, the
chain, its model and the retrievers are different things.

`BrowserProofs` (any bounds, so any number of issues, visits and loads):

* `NeverOlderHolds`. `Fresh`: unless the query is local, the only load in flight is at least as
  new as the data, and no load is ahead of the server. It rests on `PatchAssumption`, which
  TLC evaluates over all of `Pages`.
* `ShowsItsEffectHolds`: if `Covering`, then `Spec => []ShowsItsEffect`. `Covering` is about data only:
  for every page and command, whatever query the command writes is invalidated, loaded
  again or patched where it is shown, but for the known gaps. It is the rule a developer
  has to keep; the theorem says that keeping it is enough for every order of
  loads, failures, remounts and repeated commands. TLC evaluates `Covering` to TRUE for the
  pages and hooks as they are, with the constants of `MCBrowser`; it is a hypothesis and no assumption
  of the module, so that a hook which breaks it shows as a violation of `ShowsItsEffect`
  in run `browser`. In `EffectInv`, once the command is answered no load on its way is older than the
  write, and older data are being replaced or marked to be when next shown (`CaughtUp`).

`SessionProofs` (any tabs, users and tokens in flight): `TypesHold` (with the types, that what is fetched
without a token never gets into a cache); `SetterHolds` (the tab that last wrote the
cookie agrees with it); `NoForeignDataHolds`, from the two before it; `LogoutSignsOutHolds`.

`TaskWatchProofs` (any bounds): `TypesHold`, and `BusyHolds` (`BusyWhileRunning`) from two facts:
`Parts` (what each page uses, and that a job runs only once its click was accepted) and `Calm` (while the
page's job runs, nothing that would free the page is under way to it, and the source is "scanning" or
as the page knows it, unless `foreign` or `overwritten` says otherwise).

The proofs assume the named assumptions on constants only, which every run of the module
evaluates (`ConstantsAssumption`, `BoundsAssumption`, `PatchAssumption`, `ClientAssumption`,
`AppsAssumption`, `StatusAssumption`, `BodiesAssumption`, `NobodyAssumption`), and where a theorem says so a
condition on the faults, the actors or the tables. They are about the modules TLC runs, without
change of any definition.

## 5. What is only model-checked

* Liveness, which is out of the prover's reach: `LockReleased`, `OneTimeSettles`, `LogEnds`,
  `ScanEnds`, `Settles`, `EveryRequestAnswered`, `PollCatchesUp`, `BecomesFree`.
* `Covering`, and with it what `Hooks` and `Pages` say of each page: data, which a proof could only
  enumerate as TLC does.

## 6. Not modelled

* **Event bus and SSE**: it promises nothing that could be checked. A full channel or a slow
  client drops events without a trace; `TaskWatch` models what the pages make of it.
* **Policies, AI gate**: pure evaluation of JSON conditions within one request, and calls of
  language models.
* **DSAR, consent, remediation, ROT, invitations**: handlers of a few statements that accept
  a row in any status, or one transaction behind a unique index: there is no protocol
  to violate. What the pages show of them is in `Browser`.
* **Endpoint agents, SSO, middleware, domain services, classifier**: I/O and data processing.
* **Repository**: only as the modelled handlers use it.
* **Python SDK, end-to-end tests, hooks no page uses, pages outside the app shell.**

## 7. Where the code differs from its documentation, or from itself

Found while modelling.

* `scheduler.go:130` "This ensures only one worker picks up each job". Two
  workers list the same job; the later one queues it after the first run unlocked it.
* `kafka.go:253` says the sidecar populated DataHub before; the callback
  reports the entry that another scan of the source may have written.
* `main.go:209` "This handles cases where the ingestion sidecar is
  unreachable or crashes without calling back". The watchdog closes the log and
  leaves the source "scanning", and `triggerScan` answers 409 from then on.
* `auto_governance.go:101` "never downgrade automatically". The
  comparison is a statement before the UPDATE; of two goroutines the one that read less
  may write last (`outdated` in `Labels`).
* `scheduled-jobs.mdx:187` "Job won't run until re-enabled": `queueJob` checks
  `locked_by`, not `status`, so a job paused after it was listed runs.
* `scheduler.go:105` releases the jobs of crashed workers, but a job that was still
  'pending' keeps that status, and no query finds it again.
* `scheduler.go:95` "without progress": `locked_at` is written once, so any execution over ten
  minutes is failed while it runs (`scheduled-jobs.mdx:170` shows a run of 42 minutes).
* `scheduler.go:265`: an execution that cannot be inserted puts the job back to
  'scheduled', where its attempts start again.
* Two `runJobNow` requests that both read the unlocked row run a job twice at once
  (`scheduled-jobs.mdx:221` "max_concurrent: 1"); a run-now holds no lock, and its
  full-row Update can erase a worker's. A client that leaves run-now after its INSERT
  (`observability_jobs.go:787`) leaves a pending execution that nothing finds again.
* A re-fetch that fails (`datasource.go:318`), or a callback whose client is gone before its error is
  written (`:574`), leaves the source "scanning"; a classification that could not delete the old
  rows adds the new ones to them (`kafka.go:298`).
* Two scan requests pass the check of `datasource.go:277` together; an update that read
  "scanning" writes it back after the scan ended (`datasource.go:210`).
* `data-sources.mdx:120` "Deleting a data source removes all associated classifications":
  `classifications.source_id` is ON DELETE SET NULL.
* `sensitivity-labels.mdx:86` "Override automatic labels": `assignLabel` inserts, the
  unique index refuses the second row of a dataset, and the answer is 201 all the
  same. A label that was assigned is in turn replaced by the next scan.
* `sensitivity-labels.mdx:77` maps SSN and CREDIT_CARD to "Highly Confidential"; both
  tables in the code say RESTRICTED.
* `datasources.sensitivity_label` keeps the worker's label when governance raises it.
* Scans and updates write back each other's columns: the failure handling of a scan writes the
  region it read minutes before (`datasource.go:384`).
* `tagDatasourceRegion`, `detectRegionsHandler` and `createDataSource` set a region and leave the
  violations as they were; `deleteDataSource` leaves those of a source that is gone
  (migration 014 has no foreign key).
* `updateDPIAStep` writes all steps back: of two requests at once, one step is lost, and the
  status is computed without it. `updateDPIAStatus` accepts "completed" at any step.
* The topics `remediation-jobs`, `quality-jobs`, `rot-remediation-jobs`, `integration-sync-jobs` and
  `document-extraction-jobs` have producers (`remediation_reports.go:149`, `quality_privacy.go:64`,
  `rot_integrations.go:244`, `:943`, `:1344`) and no consumer: what was "executing" or
  "syncing" remains so.
* An event without `tenant_id`, such as `datasource.deleted` (`datasource.go:250`), is
  broadcast to the SSE clients of every tenant (`bus.go:86-98`).
* `POST /auth/logout` (`auth.go:92`) invalidates no token; `POST /auth/forgot-password` has no route.
* `privacy/consent/page.tsx:11` and `data-sources/new/page.tsx:206` read a `token` from
  localStorage that nothing sets, so their requests are answered 401; the former shows "Saved" all the same.
* The remediation page's log is refetched under its old key (`LogViewer`); three lists are not
  invalidated by the command that changes them (`Gaps` in `MCBrowser`); the reports page does not poll
  a report that is "generating".
* A failed login removes the cookies of every tab (`lib/api.ts:31`); the late answer to a logout
  removes those of a newer login.
* The classification page's timer is not cancelled when its job ends (`:404`), the effect that opens
  its stream runs at every render (`:452`), and after 60 seconds it declares a completion
  that nobody reported (`:457`).
* `gate.ts:163` parses each read of a stream by itself, so that an event split between two is dropped;
  `express.ts:136` lets a request without a query through; the callback handler fails open
  on errors other than a policy's (`langchain.ts:199`), and the retriever passes
  documents with a label the SDK does not know (`indexOf` is -1).

## 8. Plan

Most important first.

1. Proofs: what the liveness properties rest on and a prover can reach, such as that an
   execution in nobody's hands is always one that some query of the scheduler finds again.
2. Models: remediation and DSAR as writers of whole rows, if the code gets a life
   cycle they could violate; the bus, if it gets a delivery promise.
