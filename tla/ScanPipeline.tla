---------------------------- MODULE ScanPipeline ----------------------------
(***************************************************************************)
(* The scan of one data source, from POST /datasources/{id}/scan to its     *)
(* classification rows (internal/api/datasource.go, internal/external/      *)
(* kafka.go, ingestion/main.py, cmd/server/main.go):                        *)
(*                                                                          *)
(*   gateway --HTTP--> ingestion sidecar --HTTP callback--> gateway         *)
(*     --"job-executions"--> worker --"classification-jobs"--> worker       *)
(*                                                                          *)
(* One action is one SQL statement, Kafka call or HTTP call. The source, its*)
(* scan logs and its rows live in PostgreSQL; the sidecar keeps one entry   *)
(* per source in memory. Of a row only what the properties tell apart is    *)
(* kept: its status, and how many classification rows each column has.      *)
(* Progress messages, SSE events and sensitivity labels are left out.       *)
(*                                                                          *)
(* A statement may fail, alone or with every later one of its request: the  *)
(* client left, or its time was up. The history variables stranded and      *)
(* uncleared remember what such failures leave behind.                      *)
(***************************************************************************)
EXTENDS Integers, FiniteSets

CONSTANTS
    Scans,      \* scan requests (and the scan_logs rows they create)
    Requests,   \* other gateway requests: update, delete, reclassify
    Kinds,      \* which of these requests are made
    Workers,    \* worker processes, each with one classification consumer (finite)
    Columns,    \* the columns DataHub reports for the source
    NoMessage,  \* no message in hand
    Faults,     \* the kinds of fault that may happen
    MaxFaults   \* bound: how many faults may happen

FaultKinds == {"produce", "ambiguous", "relay", "unanswered", "callback",
               "sidecar", "gateway", "worker", "statement", "slow"}

ASSUME ConstantsAssumption ==
    /\ Scans \cap Requests = {}
    /\ NoMessage \notin Scans \cup Requests
    /\ IsFiniteSet(Workers)
    /\ Kinds \subseteq {"update", "delete", "reclassify"}
    /\ Faults \subseteq FaultKinds
    /\ MaxFaults \in Nat

VARIABLES
    status,      \* datasources.status of the source
    stranded,    \* history: since status was last written, a fault made somebody
                 \* drop a scan, or an update wrote an old "scanning" back
    logs,        \* scan_logs.status of each scan
    triggers,    \* triggerScan of each scan: its handler, then its goroutine
    entry,       \* the sidecar's jobs[job_id], shared by all scans of the source
    ingestions,  \* run_ingestion of each scan, and its own outcome
    schema,      \* DataHub holds datasets of the source
    callbacks,   \* the final callback of each scan and its handler scanCallback
    executions,  \* scans with a message in topic "job-executions"
    queue,       \* messages in topic "classification-jobs"
    workers,     \* each worker's classification consumer
    rows,        \* how many classification rows each column has
    uncleared,   \* history: DELETEs of the rows that failed since the last that did not
    requests,    \* the handlers of the other requests
    faults       \* faults so far

gateway == <<triggers, callbacks, requests>>
topics  == <<executions, queue>>
sidecar == <<entry, ingestions, schema>>
source     == <<status, stranded>>
classified == <<rows, uncleared>>
tables     == <<source, logs, classified>>
vars == <<tables, gateway, sidecar, topics, workers, faults>>

-----------------------------------------------------------------------------
(* Rows, messages and control states. *)

SourceStatus == {"pending", "scanning", "active", "error"}
LogStatus    == {"none", "running", "completed", "failed", "deleted"}
EntryStatus  == {"none", "running", "completed", "failed"}
Trigger      == {"new", "write", "log", "refetch", "call", "settle", "done"}
Ingestion    == {"none", "running", "completed", "failed", "lost"}
\* A callback was posted with a status, then its handler passes its states.
Callback     == {"none", "completed", "failed", "queue", "error", "log", "done"}
Message      == Scans \cup Requests
Consumer     == [pc : {"idle", "load", "failLog", "failSource", "clear",
                       "classify", "activate"},
                 msg  : Message \cup {NoMessage},
                 todo : SUBSET Columns]
Idle == [pc |-> "idle", msg |-> NoMessage, todo |-> {}]

\* UPDATE datasources SET status: no row, no effect.
SetStatus(s) == /\ status' = IF status = "deleted" THEN status ELSE s
                /\ stranded' = FALSE

\* UPDATE scan_logs SET status ... WHERE id = m. A reclassification names none.
SetLog(m, s) ==
    logs' = IF m \in Scans /\ logs[m] \notin {"none", "deleted"}
            THEN [logs EXCEPT ![m] = s] ELSE logs

Fault(kind) == /\ kind \in Faults
               /\ faults < MaxFaults
               /\ faults' = faults + 1

\* A fault by which somebody drops a scan without a word to the source.
Drop(kind) == Fault(kind) /\ stranded' = TRUE

-----------------------------------------------------------------------------
(* triggerScan: the handler ... *)

Goto(s, pc) == /\ triggers' = [triggers EXCEPT ![s] = pc]
               /\ UNCHANGED <<callbacks, requests>>

TriggerRead(s) ==
    /\ triggers[s] = "new"
    /\ status \notin {"deleted", "scanning"}
    /\ Goto(s, "write")
    /\ UNCHANGED <<tables, sidecar, topics, workers, faults>>

\* 404, or 409 already_scanning.
TriggerRefused(s) ==
    /\ triggers[s] = "new"
    /\ status \in {"deleted", "scanning"}
    /\ Goto(s, "done")
    /\ UNCHANGED <<tables, sidecar, topics, workers, faults>>

TriggerWrite(s) ==
    /\ triggers[s] = "write"
    /\ SetStatus("scanning")
    /\ Goto(s, "log")
    /\ UNCHANGED <<logs, classified, sidecar, topics, workers, faults>>

\* The INSERT fails when the source is gone (a foreign key); the error is logged.
TriggerLog(s) ==
    /\ triggers[s] = "log"
    /\ logs' = IF status = "deleted" THEN logs ELSE [logs EXCEPT ![s] = "running"]
    /\ Goto(s, "refetch")
    /\ UNCHANGED <<source, classified, sidecar, topics, workers, faults>>

\* The statements before the answer: 404, 500, or logged (the scan log's INSERT).
TriggerFails(s) ==
    /\ Fault("statement")
    /\ \/ triggers[s] \in {"new", "write"} /\ Goto(s, "done")
       \/ triggers[s] = "log" /\ Goto(s, "refetch")
    /\ UNCHANGED <<tables, sidecar, topics, workers>>

\* The client leaves after the UPDATE, or the re-fetch fails (404): there is
\* no goroutine. Or the goroutine's UPDATE fails.
TriggerGivesUp(s) ==
    /\ triggers[s] \in {"log", "refetch", "settle"}
    /\ Drop("statement")
    /\ Goto(s, "done")
    /\ UNCHANGED <<status, logs, classified, sidecar, topics, workers>>

TriggerRefetch(s) ==
    /\ triggers[s] = "refetch"
    /\ Goto(s, IF status = "deleted" THEN "done" ELSE "call")
    /\ UNCHANGED <<tables, sidecar, topics, workers, faults>>

(* ... and its goroutine. *)

\* start_ingestion sets the entry and starts run_ingestion in the background.
StartIngestion(s) == /\ entry' = "running"
                     /\ ingestions' = [ingestions EXCEPT ![s] = "running"]
                     /\ UNCHANGED schema

CallSidecar(s) ==
    /\ triggers[s] = "call"
    /\ StartIngestion(s)
    /\ Goto(s, "done")
    /\ UNCHANGED <<tables, topics, workers, faults>>

\* The sidecar cannot be reached, or answers 400 or more.
CallRefused(s) ==
    /\ triggers[s] = "call"
    /\ Goto(s, "settle")
    /\ UNCHANGED <<tables, sidecar, topics, workers, faults>>

\* The sidecar starts the ingestion and its answer is lost or late.
CallUnanswered(s) ==
    /\ triggers[s] = "call"
    /\ Fault("unanswered")
    /\ StartIngestion(s)
    /\ Goto(s, "settle")
    /\ UNCHANGED <<tables, topics, workers>>

\* The source goes to error. The scan log does not go to failed: the ScanLog
\* written has an empty datasource_id, which is not a UUID, so that PostgreSQL
\* refuses the UPDATE; the error is dropped.
SettleError(s) ==
    /\ triggers[s] = "settle"
    /\ SetStatus("error")
    /\ Goto(s, "done")
    /\ UNCHANGED <<logs, classified, sidecar, topics, workers, faults>>

-----------------------------------------------------------------------------
(* The ingestion sidecar. *)

\* The datahub command ends. A failed one may have emitted some datasets.
Ingest(s) ==
    /\ ingestions[s] = "running"
    /\ \E result \in {"completed", "failed"} :
         /\ entry' = result
         /\ ingestions' = [ingestions EXCEPT ![s] = result]
         /\ schema' \in IF result = "completed" THEN {TRUE} ELSE {schema, TRUE}
    /\ UNCHANGED <<tables, gateway, topics, workers, faults>>

Ingested(s) == ingestions[s] \in {"completed", "failed"} /\ callbacks[s] = "none"

Post(s, c) == /\ callbacks' = [callbacks EXCEPT ![s] = c]
              /\ UNCHANGED <<triggers, requests>>

\* Mutant: the callback names no status, or the handler does not look at it.
ReportAlways(s) ==
    /\ Ingested(s)
    /\ Post(s, "completed")
    /\ UNCHANGED <<tables, sidecar, topics, workers, faults>>

\* The final callback sends what the shared entry says by now; scanCallback
\* takes every status but "completed" for a failure.
Report(s) ==
    /\ Ingested(s)
    /\ Post(s, IF entry = "completed" THEN "completed" ELSE "failed")
    /\ UNCHANGED <<tables, sidecar, topics, workers, faults>>

\* The callback does not arrive; the sidecar prints the error and does not retry.
ReportLost(s) ==
    /\ Ingested(s)
    /\ Drop("callback")
    /\ Post(s, "done")
    /\ UNCHANGED <<status, logs, classified, sidecar, topics, workers>>

\* The entry and the background tasks are in memory only.
SidecarCrash ==
    /\ Drop("sidecar")
    /\ entry' = "none"
    /\ ingestions' = [s \in Scans |-> IF ingestions[s] = "running" THEN "lost" ELSE ingestions[s]]
    /\ callbacks' = [s \in Scans |-> IF Ingested(s) THEN "done" ELSE callbacks[s]]
    /\ UNCHANGED <<schema, status, logs, classified, triggers, requests, topics, workers>>

-----------------------------------------------------------------------------
(* scanCallback *)

CallbackRead(s) ==
    /\ callbacks[s] \in {"completed", "failed"}
    /\ Post(s, CASE status = "deleted" -> "done"
                 [] status # "deleted" /\ callbacks[s] = "completed" -> "queue"
                 [] OTHER -> "error")
    /\ UNCHANGED <<tables, sidecar, topics, workers, faults>>

CallbackQueue(s) ==
    /\ callbacks[s] = "queue"
    /\ executions' = executions \cup {s}
    /\ Post(s, "done")
    /\ UNCHANGED <<tables, sidecar, queue, workers, faults>>

\* "ambiguous": the broker kept the message but the answer was lost.
CallbackQueueFails(s) ==
    /\ callbacks[s] = "queue"
    /\ \/ Fault("produce") /\ UNCHANGED executions
       \/ Fault("ambiguous") /\ executions' = executions \cup {s}
    /\ Post(s, "error")
    /\ UNCHANGED <<tables, sidecar, queue, workers>>

\* Mutant: only the scan log is marked failed.
CallbackErrorKept(s) ==
    /\ callbacks[s] = "error"
    /\ Post(s, "log")
    /\ UNCHANGED <<tables, sidecar, topics, workers, faults>>

CallbackError(s) ==
    /\ callbacks[s] = "error"
    /\ SetStatus("error")
    /\ Post(s, "log")
    /\ UNCHANGED <<logs, classified, sidecar, topics, workers, faults>>

CallbackLog(s) ==
    /\ callbacks[s] = "log"
    /\ SetLog(s, "failed")
    /\ Post(s, "done")
    /\ UNCHANGED <<source, classified, sidecar, topics, workers, faults>>

\* The read fails (404), or the client leaves: the error's UPDATE then fails as
\* the Produce did. The sidecar waits 30 seconds and does not look at the answer.
CallbackGivesUp(s) ==
    /\ callbacks[s] \in {"completed", "failed", "queue", "error"}
    /\ Drop("statement")
    /\ Post(s, "done")
    /\ UNCHANGED <<status, logs, classified, sidecar, topics, workers>>

\* The error's UPDATE of the source fails alone, or that of the log fails.
CallbackFails(s) ==
    /\ \/ callbacks[s] = "error" /\ Drop("statement") /\ Post(s, "log")
       \/ callbacks[s] = "log" /\ Fault("statement") /\ UNCHANGED stranded /\ Post(s, "done")
    /\ UNCHANGED <<status, logs, classified, sidecar, topics, workers>>

\* The process dies: its handlers and goroutines stop where they are.
GatewayCrash ==
    /\ Drop("gateway")
    /\ triggers' = [s \in Scans |-> IF triggers[s] = "new" THEN "new" ELSE "done"]
    /\ callbacks' = [s \in Scans |-> IF callbacks[s] = "none" THEN "none" ELSE "done"]
    /\ requests' = [r \in Requests |-> IF requests[r] = "new" THEN "new" ELSE "done"]
    /\ UNCHANGED <<status, logs, classified, sidecar, topics, workers>>

-----------------------------------------------------------------------------
(* The workers: executeClassificationJob relays a scan from one topic to the *)
(* other; processClassificationJob classifies.                               *)

Relay(s) ==
    /\ s \in executions
    /\ executions' = executions \ {s}
    /\ queue' = queue \cup {s}
    /\ UNCHANGED <<tables, gateway, sidecar, workers, faults>>

\* The error of this Produce is ignored: the execution is reported completed.
RelayFails(s) ==
    /\ s \in executions
    /\ Drop("relay")
    /\ executions' = executions \ {s}
    /\ UNCHANGED <<status, logs, classified, gateway, sidecar, queue, workers>>

\* A worker dies after the Produce and before its offset is committed.
RelayRepeats(s) ==
    /\ s \in executions
    /\ Fault("worker")
    /\ queue' = queue \cup {s}
    /\ UNCHANGED <<tables, gateway, sidecar, executions, workers>>

Work(w, pc, todo) == workers' = [workers EXCEPT ![w] = [@ EXCEPT !.pc = pc, !.todo = todo]]

Receive(w) ==
    /\ workers[w].pc = "idle"
    /\ \E m \in queue :
         /\ queue' = queue \ {m}
         /\ workers' = [workers EXCEPT ![w] = [pc |-> "load", msg |-> m, todo |-> {}]]
    /\ UNCHANGED <<tables, gateway, sidecar, executions, faults>>

\* "Datasource not found", whatever the error of the SELECT was: only the scan
\* log is marked, if that UPDATE does not fail too.
NotFound(w) ==
    /\ workers[w].pc = "load"
    /\ \/ status = "deleted" /\ UNCHANGED <<stranded, faults>>
       \/ Drop("statement")
    /\ UNCHANGED logs \/ SetLog(workers[w].msg, "failed")
    /\ workers' = [workers EXCEPT ![w] = Idle]
    /\ UNCHANGED <<status, classified, gateway, sidecar, topics>>

Load(w) ==
    /\ workers[w].pc = "load"
    /\ status # "deleted" /\ schema
    /\ Work(w, "clear", Columns)
    /\ UNCHANGED <<tables, gateway, sidecar, topics, faults>>

\* DataHub cannot be reached, or has no dataset or no column of the source.
LoadFails(w) ==
    /\ workers[w].pc = "load"
    /\ status # "deleted"
    /\ Work(w, "failLog", {})
    /\ UNCHANGED <<tables, gateway, sidecar, topics, faults>>

\* Mutant: the source is not marked.
FailLogOnly(w) ==
    /\ workers[w].pc = "failLog"
    /\ SetLog(workers[w].msg, "failed")
    /\ workers' = [workers EXCEPT ![w] = Idle]
    /\ UNCHANGED <<source, classified, gateway, sidecar, topics, faults>>

FailLog(w) ==
    /\ workers[w].pc = "failLog"
    /\ SetLog(workers[w].msg, "failed")
    /\ Work(w, "failSource", {})
    /\ UNCHANGED <<source, classified, gateway, sidecar, topics, faults>>

\* Mutant: the message stays in hand.
FailSourceKept(w) ==
    /\ workers[w].pc = "failSource"
    /\ SetStatus("error")
    /\ Work(w, "idle", {})
    /\ UNCHANGED <<logs, classified, gateway, sidecar, topics, faults>>

FailSource(w) ==
    /\ workers[w].pc = "failSource"
    /\ SetStatus("error")
    /\ workers' = [workers EXCEPT ![w] = Idle]
    /\ UNCHANGED <<logs, classified, gateway, sidecar, topics, faults>>

\* Mutant: the old rows are not deleted.
ClearNothing(w) ==
    /\ workers[w].pc = "clear"
    /\ Work(w, "classify", workers[w].todo)
    /\ UNCHANGED <<tables, gateway, sidecar, topics, faults>>

\* DELETE FROM classifications WHERE dataset_id = ...
Clear(w) ==
    /\ workers[w].pc = "clear"
    /\ rows' = [c \in Columns |-> 0] /\ uncleared' = 0
    /\ Work(w, "classify", workers[w].todo)
    /\ UNCHANGED <<source, logs, gateway, sidecar, topics, faults>>

\* The DELETE fails: the old rows stay, and the new ones are added.
ClearFails(w) ==
    /\ workers[w].pc = "clear"
    /\ Fault("statement")
    /\ uncleared' = uncleared + 1
    /\ Work(w, "classify", workers[w].todo)
    /\ UNCHANGED <<source, logs, rows, gateway, sidecar, topics>>

\* One column: whitelisted, without an entity, or its row is inserted. No
\* unique constraint makes ON CONFLICT DO NOTHING apply; the INSERT fails when
\* the source is gone (a foreign key), and the loop goes on.
Classify(w) ==
    /\ workers[w].pc = "classify"
    /\ \E c \in workers[w].todo :
         /\ \/ status # "deleted" /\ rows' = [rows EXCEPT ![c] = @ + 1]
            \/ UNCHANGED rows
         /\ Work(w, "classify", workers[w].todo \ {c})
    /\ UNCHANGED <<source, logs, uncleared, gateway, sidecar, topics, faults>>

CompleteLog(w) ==
    /\ workers[w].pc = "classify" /\ workers[w].todo = {}
    /\ SetLog(workers[w].msg, "completed")
    /\ Work(w, "activate", {})
    /\ UNCHANGED <<source, classified, gateway, sidecar, topics, faults>>

Activate(w) ==
    /\ workers[w].pc = "activate"
    /\ SetStatus("active")
    /\ workers' = [workers EXCEPT ![w] = Idle]
    /\ UNCHANGED <<logs, classified, gateway, sidecar, topics, faults>>

\* The errors of these UPDATEs are dropped.
WorkerFails(w) ==
    /\ \/ workers[w].pc = "failLog" /\ Work(w, "failSource", {})
          /\ Fault("statement") /\ UNCHANGED stranded
       \/ workers[w].pc = "classify" /\ workers[w].todo = {} /\ Work(w, "activate", {})
          /\ Fault("statement") /\ UNCHANGED stranded
       \/ workers[w].pc \in {"failSource", "activate"} /\ Drop("statement")
          /\ workers' = [workers EXCEPT ![w] = Idle]
    /\ UNCHANGED <<status, logs, classified, gateway, sidecar, topics>>

\* The message is delivered again unless its offset was committed.
WorkerCrash(w) ==
    /\ workers[w].pc # "idle"
    /\ \/ Fault("worker") /\ queue' = queue \cup {workers[w].msg} /\ UNCHANGED stranded
       \/ Drop("worker") /\ UNCHANGED queue
    /\ workers' = [workers EXCEPT ![w] = Idle]
    /\ UNCHANGED <<status, logs, classified, gateway, sidecar, executions>>

-----------------------------------------------------------------------------
(* Other requests, and the watchdog.                                        *)

Answer(r, copy) == /\ requests' = [requests EXCEPT ![r] = copy]
                   /\ UNCHANGED <<triggers, callbacks>>

\* updateDataSource, and what sets a region (createDataSource's goroutine,
\* tagDatasourceRegion, detectRegionsHandler): they read the row, take their
\* time, and write every column of it back, the status too.
UpdateRead(r) ==
    /\ "update" \in Kinds
    /\ requests[r] = "new" /\ status # "deleted"
    /\ Answer(r, status)
    /\ UNCHANGED <<tables, sidecar, topics, workers, faults>>

UpdateWrite(r) ==
    /\ requests[r] \in SourceStatus
    /\ status' = IF status = "deleted" THEN status ELSE requests[r]
    /\ stranded' = (requests[r] = "scanning" /\ (stranded \/ status # "scanning"))
    /\ Answer(r, "done")
    /\ UNCHANGED <<logs, classified, sidecar, topics, workers, faults>>

UpdateFails(r) ==
    /\ requests[r] \in SourceStatus
    /\ Fault("statement")
    /\ Answer(r, "done")
    /\ UNCHANGED <<tables, sidecar, topics, workers>>

\* The scan logs are cascaded; a classification only loses its source_id.
DeleteSource(r) ==
    /\ "delete" \in Kinds
    /\ requests[r] = "new"
    /\ status' = "deleted"
    /\ logs' = [s \in Scans |-> IF logs[s] = "none" THEN "none" ELSE "deleted"]
    /\ Answer(r, "done")
    /\ UNCHANGED <<stranded, classified, sidecar, topics, workers, faults>>

\* reclassifyDataset and classifyDataset: no scan log; the error of the Produce
\* is ignored.
Reclassify(r) ==
    /\ "reclassify" \in Kinds
    /\ requests[r] = "new"
    /\ queue' = queue \cup {r}
    /\ Answer(r, "done")
    /\ UNCHANGED <<tables, sidecar, executions, workers, faults>>

\* Mutant: only the scans of a source that is still scanning.
WatchdogScanning(s) ==
    /\ "slow" \in Faults
    /\ logs[s] = "running" /\ status = "scanning"
    /\ logs' = [logs EXCEPT ![s] = "failed"]
    /\ UNCHANGED <<source, classified, gateway, sidecar, topics, workers, faults>>

\* Mutant: without "WHERE status = 'running'".
WatchdogAny(s) ==
    /\ "slow" \in Faults
    /\ logs[s] \in {"running", "completed"}
    /\ logs' = [logs EXCEPT ![s] = "failed"]
    /\ UNCHANGED <<source, classified, gateway, sidecar, topics, workers, faults>>

\* The scan has been running for 30 minutes.
Watchdog(s) ==
    /\ "slow" \in Faults
    /\ logs[s] = "running"
    /\ logs' = [logs EXCEPT ![s] = "failed"]
    /\ UNCHANGED <<source, classified, gateway, sidecar, topics, workers, faults>>

-----------------------------------------------------------------------------
Init ==
    /\ status = "pending" /\ stranded = FALSE
    /\ logs = [s \in Scans |-> "none"]
    /\ triggers = [s \in Scans |-> "new"]
    /\ entry = "none"
    /\ ingestions = [s \in Scans |-> "none"]
    /\ schema = FALSE
    /\ callbacks = [s \in Scans |-> "none"]
    /\ executions = {} /\ queue = {}
    /\ workers = [w \in Workers |-> Idle]
    /\ rows = [c \in Columns |-> 0] /\ uncleared = 0
    /\ requests = [r \in Requests |-> "new"]
    /\ faults = 0

TriggerScan(s) == \/ TriggerRead(s) \/ TriggerRefused(s)
                  \/ TriggerWrite(s) \/ TriggerLog(s) \/ TriggerRefetch(s)
                  \/ CallSidecar(s) \/ CallRefused(s) \/ CallUnanswered(s)
                  \/ SettleError(s) \/ TriggerFails(s) \/ TriggerGivesUp(s)

RunIngestion(s) == Ingest(s) \/ Report(s) \/ ReportLost(s)

ScanCallback(s) == \/ CallbackRead(s) \/ CallbackQueue(s) \/ CallbackQueueFails(s)
                   \/ CallbackError(s) \/ CallbackLog(s)
                   \/ CallbackFails(s) \/ CallbackGivesUp(s)

ExecuteClassificationJob(s) == Relay(s) \/ RelayFails(s) \/ RelayRepeats(s)

ProcessClassificationJob(w) ==
    \/ Receive(w) \/ NotFound(w) \/ Load(w) \/ LoadFails(w)
    \/ FailLog(w) \/ FailSource(w)
    \/ Clear(w) \/ ClearFails(w) \/ Classify(w) \/ CompleteLog(w) \/ Activate(w)
    \/ WorkerFails(w)

Handle(r) == \/ UpdateRead(r) \/ UpdateWrite(r) \/ UpdateFails(r)
             \/ DeleteSource(r) \/ Reclassify(r)

Next == \/ \E s \in Scans : \/ TriggerScan(s) \/ RunIngestion(s) \/ ScanCallback(s)
                            \/ ExecuteClassificationJob(s) \/ Watchdog(s)
        \/ \E w \in Workers : ProcessClassificationJob(w) \/ WorkerCrash(w)
        \/ \E r \in Requests : Handle(r)
        \/ SidecarCrash \/ GatewayCrash

Spec == Init /\ [][Next]_vars

\* Handlers, goroutines and consumers that started go on; the watchdog ticks.
\* Nobody has to ask for a scan.
Fairness ==
    /\ \A s \in Scans : /\ WF_vars(TriggerScan(s) /\ triggers[s] # "new")
                        /\ WF_vars(RunIngestion(s)) /\ WF_vars(ScanCallback(s))
                        /\ WF_vars(ExecuteClassificationJob(s)) /\ WF_vars(Watchdog(s))
    /\ \A w \in Workers : WF_vars(ProcessClassificationJob(w))

FairSpec == Spec /\ Fairness

-----------------------------------------------------------------------------
(* Properties. *)

\* Every variable stays within its type, and a consumer has a message exactly
\* while it is busy.
TypeOK ==
    /\ status \in SourceStatus \cup {"deleted"} /\ stranded \in BOOLEAN
    /\ logs \in [Scans -> LogStatus]
    /\ triggers \in [Scans -> Trigger]
    /\ entry \in EntryStatus
    /\ ingestions \in [Scans -> Ingestion]
    /\ schema \in BOOLEAN
    /\ callbacks \in [Scans -> Callback]
    /\ executions \subseteq Scans
    /\ queue \subseteq Message
    /\ workers \in [Workers -> Consumer]
    /\ \A w \in Workers : workers[w].msg = NoMessage <=> workers[w].pc = "idle"
    /\ rows \in [Columns -> Nat] /\ uncleared \in Nat
    /\ requests \in [Requests -> SourceStatus \cup {"new", "done"}]
    /\ faults \in Nat

Processed(s, w) == workers[w].msg = s
Queued(s)       == s \in executions \cup queue \/ \E w \in Workers : Processed(s, w)

\* Some process or topic still has scan s, and will settle the source.
InFlight(s) == \/ triggers[s] \in {"log", "refetch", "call", "settle"}
               \/ ingestions[s] = "running" \/ Ingested(s)
               \/ callbacks[s] \in {"completed", "failed", "queue", "error"}
               \/ Queued(s)

\* A source is "scanning" only while some scan is in flight: otherwise every
\* later request is answered 409 for ever. With concurrent scans the status is
\* written by several of them, and the one that writes "scanning" last must
\* still have its end before it. Excused is a source stranded by a fault (a
\* process died, a message or callback was lost, a statement that would have
\* settled it failed or was cancelled) or by an update that wrote an old
\* "scanning" back.
ScanningHasScan == status = "scanning" /\ ~stranded => \E s \in Scans : InFlight(s)

\* The classification of a scan is queued only after an ingestion filled
\* DataHub (kafka.go:253, "The ingestion sidecar should have populated DataHub
\* before classification runs"): the scan's own has ended, and if it failed the
\* shared entry said "completed" because another scan of the source had.
ClassifiedAfterIngest ==
    \A s \in Scans : Queued(s) =>
        /\ ingestions[s] \in {"completed", "failed"}
        /\ \E t \in Scans : ingestions[t] = "completed"

\* A column has at most one classification row per worker (kafka.go:330, "Use
\* table.column as the unique value to avoid duplicates"; workers that classify
\* the source at once see no rows of each other to delete), and one more per
\* DELETE that failed since the last that did not, redelivered messages included.
RowsBounded == \A c \in Columns : rows[c] <= Cardinality(Workers) + uncleared

\* A scan log that says "completed" is final: neither the watchdog, nor a late
\* callback, nor another scan of the source turns it into a failure.
StaysCompleted ==
    \A s \in Scans : logs[s] = "completed" => logs'[s] \in {"completed", "deleted"}
CompletedStays == [][StaysCompleted]_vars

\* A scan log does not stay "running" for ever, whoever crashes and whatever is
\* lost: the watchdog closes what nobody else does.
LogEnds == \A s \in Scans : logs[s] = "running" ~> logs[s] # "running"

\* A source does not stay "scanning" for ever, unless it is stranded.
ScanEnds == status = "scanning" /\ ~stranded ~> status # "scanning" \/ stranded
=============================================================================
