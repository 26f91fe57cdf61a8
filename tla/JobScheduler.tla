---------------------------- MODULE JobScheduler ----------------------------
(***************************************************************************)
(* The distributed job scheduler: the jobs table, the job_executions table, *)
(* the Kafka topic "job-executions", the scheduler loop and the execution   *)
(* consumer that every worker process runs (internal/scheduler/scheduler.go,*)
(* internal/external/kafka.go), and the gateway's job handlers              *)
(* (internal/api/observability_jobs.go).                                    *)
(*                                                                          *)
(* One action is one SQL statement or one Kafka call: PostgreSQL runs each  *)
(* statement in its own transaction, so anything may happen between two.    *)
(* Clocks are abstracted to flags of the row that a later action raises:    *)
(* "due" (next_run is NULL or past), "stale" (locked_at is more than ten    *)
(* minutes old) and "cooled" (updated_at is older than the retry backoff).  *)
(***************************************************************************)
EXTENDS Integers, Sequences, FiniteSets

CONSTANTS
    Jobs,         \* the job ids
    Workers,      \* the worker processes; each runs a scheduler and a consumer
    Requests,     \* gateway requests; each one is served once
    NoWorker,     \* locked_by IS NULL
    NoJob,        \* no job in hand
    Recurrence,   \* whether created jobs have a schedule: a subset of BOOLEAN
    MaxRetries,   \* jobs.max_retries of each job
    DueLimit,     \* LIMIT of the query for due jobs (10 in the code)
    RetryLimit,   \* LIMIT of the query for failed jobs (5 in the code)
    Faults,       \* the kinds of fault that may happen
    MaxFaults,    \* bound: how many of the budgeted faults may happen
    MaxExecs      \* bound: how many execution rows may be created

FaultKinds == {"insert", "update", "produce", "ambiguous", "leave", "crash", "age",
               "timeout"}

ASSUME ConstantsAssumption ==
    /\ NoWorker \notin Workers
    /\ NoJob \notin Jobs
    /\ Recurrence \subseteq BOOLEAN
    /\ MaxRetries \in [Jobs -> Nat]
    /\ DueLimit \in Nat /\ RetryLimit \in Nat
    /\ Faults \subseteq FaultKinds
    /\ MaxFaults \in Nat /\ MaxExecs \in Nat

VARIABLES
    jobs,      \* the rows of table jobs
    execs,     \* the rows of table job_executions, in order of created_at
    topic,     \* executions whose message is in "job-executions", unread
    sched,     \* each worker's scheduler goroutine
    cons,      \* each worker's execution consumer
    requests,  \* each gateway request's handler
    faults     \* budgeted faults so far

vars == <<jobs, execs, topic, sched, cons, requests, faults>>

-----------------------------------------------------------------------------
(* Rows and control states. *)

LiveStatus == {"scheduled", "pending", "running", "completed", "failed", "paused"}

\* "none": never created; "deleted": the row is gone.
Row == [status    : LiveStatus \cup {"none", "deleted"},
        recurring : BOOLEAN,
        due       : BOOLEAN,
        lock      : Workers \cup {NoWorker},
        stale     : BOOLEAN,
        cooled    : BOOLEAN]

NoRow == [status |-> "none", recurring |-> FALSE, due |-> FALSE,
          lock |-> NoWorker, stale |-> FALSE, cooled |-> FALSE]

Execution == [job : Jobs, attempt : Nat,
              status : {"pending", "running", "completed", "failed", "deleted"}]

Task == [job : Jobs, attempt : Nat]

Scheduler == [pc    : {"release", "due", "queue", "insert", "produce", "fail", "unlock"},
              phase : {"due", "retry"},
              todo  : SUBSET Task,
              job   : Jobs \cup {NoJob},
              attempt : Nat,
              exec  : Nat]

Consumer == [pc : {"idle", "startJob", "startExec", "execute", "record", "schedule", "finish"},
             exec    : Nat,
             outcome : {"none", "completed", "failed"},
             raced   : BOOLEAN,
             final   : {"none", "scheduled", "completed", "failed"}]

\* "left": the client of run-now left and its execution was abandoned.
Request == [pc   : {"new", "insert", "pend", "produce", "revert", "fail", "write", "left",
                    "done"},
            job  : Jobs \cup {NoJob},
            row  : Row,
            exec : Nat]

IdleScheduler == [pc |-> "release", phase |-> "due", todo |-> {},
                  job |-> NoJob, attempt |-> 0, exec |-> 0]
IdleConsumer  == [pc |-> "idle", exec |-> 0, outcome |-> "none",
                  raced |-> FALSE, final |-> "none"]
NewRequest    == [pc |-> "new", job |-> NoJob, row |-> NoRow, exec |-> 0]
DoneRequest   == [NewRequest EXCEPT !.pc = "done"]

Exists(j)    == jobs[j].status \in LiveStatus
Locked(j)    == jobs[j].lock # NoWorker
Unlocked(row) == [row EXCEPT !.lock = NoWorker, !.stale = FALSE]

\* UPDATE jobs ... WHERE id = j: no row, no effect.
WithRow(j, row) == IF Exists(j) THEN [jobs EXCEPT ![j] = row] ELSE jobs

\* UPDATE job_executions SET status ... WHERE id = e.
WithStatus(e, s) == IF execs[e].status # "deleted"
                    THEN [execs EXCEPT ![e].status = s] ELSE execs

ExecsOf(j) == {e \in DOMAIN execs : execs[e].job = j}
Latest(j)  == CHOOSE e \in ExecsOf(j) : \A f \in ExecsOf(j) : f <= e
\* COALESCE(e.attempt, 0) of the lateral join on the newest execution.
LastAttempt(j) == IF ExecsOf(j) = {} THEN 0 ELSE execs[Latest(j)].attempt

Pending(j, n) == [job |-> j, attempt |-> n, status |-> "pending"]

\* Bound: an execution row may still be created, counting the ones under way.
Room == Len(execs) + Cardinality({w \in Workers : sched[w].pc = "insert"})
                   + Cardinality({r \in Requests : requests[r].pc = "insert"})
            < MaxExecs

Fault(kind) == /\ kind \in Faults
               /\ faults < MaxFaults
               /\ faults' = faults + 1
NoFault == UNCHANGED faults

-----------------------------------------------------------------------------
(* The scheduler goroutine: tick = releaseStaleJobs; processDueJobs;        *)
(* retryFailedJobs.                                                         *)

Released(row) == [Unlocked(row) EXCEPT
                    !.status = IF @ = "running" THEN "failed" ELSE @,
                    !.cooled = FALSE]

\* Mutant: only running jobs are released.
ReleaseStaleRunning(w) ==
    /\ sched[w].pc = "release"
    /\ jobs' = [j \in Jobs |-> IF jobs[j].status = "running" /\ Locked(j) /\ jobs[j].stale
                               THEN Released(jobs[j]) ELSE jobs[j]]
    /\ sched' = [sched EXCEPT ![w].pc = "due"]
    /\ UNCHANGED <<execs, topic, cons, requests, faults>>

ReleaseStaleJobs(w) ==
    /\ sched[w].pc = "release"
    /\ jobs' = [j \in Jobs |-> IF Exists(j) /\ Locked(j) /\ jobs[j].stale
                               THEN Released(jobs[j]) ELSE jobs[j]]
    /\ sched' = [sched EXCEPT ![w].pc = "due"]
    /\ UNCHANGED <<execs, topic, cons, requests, faults>>

\* The answers a query with a LIMIT may give.
Selections(S, limit) ==
    {T \in SUBSET S : Cardinality(T) = IF Cardinality(S) <= limit
                                       THEN Cardinality(S) ELSE limit}

DueJobs == {j \in Jobs : /\ jobs[j].status = "scheduled"
                         /\ jobs[j].due
                         /\ ~Locked(j)}

\* Mutant: attempt <= max_retries.
RetryJobsInclusive == {j \in Jobs : /\ jobs[j].status = "failed"
                                    /\ ~Locked(j)
                                    /\ LastAttempt(j) <= MaxRetries[j]
                                    /\ jobs[j].cooled}

RetryJobs == {j \in Jobs : /\ jobs[j].status = "failed"
                           /\ ~Locked(j)
                           /\ LastAttempt(j) < MaxRetries[j]
                           /\ jobs[j].cooled}

Retries(S) == {[job |-> j, attempt |-> LastAttempt(j) + 1] : j \in S}

\* The row locks of FOR UPDATE end with the statement: nothing is left of
\* the selection but the list in the worker's memory.
SelectDueJobs(w) ==
    /\ sched[w].pc = "due"
    /\ \E S \in Selections(DueJobs, DueLimit) :
         sched' = [sched EXCEPT ![w] = [@ EXCEPT !.pc = "queue", !.phase = "due",
                                                 !.todo = [job : S, attempt : {1}]]]
    /\ UNCHANGED <<jobs, execs, topic, cons, requests, faults>>

SelectFailedJobs(w) ==
    /\ sched[w].pc = "queue" /\ sched[w].phase = "due" /\ sched[w].todo = {}
    /\ \E S \in Selections(RetryJobs, RetryLimit) :
         sched' = [sched EXCEPT ![w] = [@ EXCEPT !.phase = "retry", !.todo = Retries(S)]]
    /\ UNCHANGED <<jobs, execs, topic, cons, requests, faults>>

EndTick(w) ==
    /\ sched[w].pc = "queue" /\ sched[w].phase = "retry" /\ sched[w].todo = {}
    /\ sched' = [sched EXCEPT ![w] = IdleScheduler]
    /\ UNCHANGED <<jobs, execs, topic, cons, requests, faults>>

(* queueJob *)

\* Mutant: the UPDATE without "AND locked_by IS NULL".
LockableAnyway(j) == Exists(j) /\ Room

Lockable(j) == Exists(j) /\ ~Locked(j) /\ Room

LockedRow(row, w) == [row EXCEPT !.lock = w, !.stale = FALSE,
                                 !.status = "pending", !.cooled = FALSE]

LockJob(w) ==
    /\ sched[w].pc = "queue"
    /\ \E t \in sched[w].todo :
         /\ Lockable(t.job)
         /\ jobs' = [jobs EXCEPT ![t.job] = LockedRow(@, w)]
         /\ sched' = [sched EXCEPT ![w] = [@ EXCEPT !.pc = "insert", !.job = t.job, !.attempt = t.attempt,
                                                    !.todo = sched[w].todo \ {t}]]
    /\ UNCHANGED <<execs, topic, cons, requests, faults>>

\* The UPDATE changed no row: another worker grabbed the job (or the bound on
\* execution rows is reached).
LoseJob(w) ==
    /\ sched[w].pc = "queue"
    /\ \E t \in sched[w].todo :
         /\ ~Lockable(t.job)
         /\ sched' = [sched EXCEPT ![w] = [@ EXCEPT !.todo = sched[w].todo \ {t}]]
    /\ UNCHANGED <<jobs, execs, topic, cons, requests, faults>>

NextTask(w) == [sched EXCEPT ![w] = [@ EXCEPT !.pc = "queue", !.job = NoJob,
                                              !.attempt = 0, !.exec = 0]]

InsertExecution(w) ==
    /\ sched[w].pc = "insert"
    /\ Exists(sched[w].job)
    /\ execs' = Append(execs, Pending(sched[w].job, sched[w].attempt))
    /\ sched' = [sched EXCEPT ![w] = [@ EXCEPT !.pc = "produce", !.exec = Len(execs) + 1]]
    /\ UNCHANGED <<jobs, topic, cons, requests, faults>>

\* The INSERT fails (always when the job is gone: job_id is a foreign key).
InsertFails(w) ==
    /\ sched[w].pc = "insert"
    /\ \/ ~Exists(sched[w].job) /\ NoFault
       \/ Fault("insert")
    /\ jobs' = LET j == sched[w].job
               IN  WithRow(j, [Unlocked(jobs[j]) EXCEPT !.status = "scheduled"])
    /\ sched' = NextTask(w)
    /\ UNCHANGED <<execs, topic, cons, requests>>

ProduceExecution(w) ==
    /\ sched[w].pc = "produce"
    /\ topic' = topic \cup {sched[w].exec}
    /\ sched' = NextTask(w)
    /\ UNCHANGED <<jobs, execs, cons, requests, faults>>

\* Mutant: the execution is not marked failed.
ProduceFailsUnmarked(w) ==
    /\ sched[w].pc = "produce"
    /\ \/ Fault("produce") /\ UNCHANGED topic
       \/ Fault("ambiguous") /\ topic' = topic \cup {sched[w].exec}
    /\ sched' = [sched EXCEPT ![w].pc = "unlock"]
    /\ UNCHANGED <<jobs, execs, cons, requests>>

\* "ambiguous": the broker kept the message but the answer was lost.
ProduceFails(w) ==
    /\ sched[w].pc = "produce"
    /\ \/ Fault("produce") /\ UNCHANGED topic
       \/ Fault("ambiguous") /\ topic' = topic \cup {sched[w].exec}
    /\ sched' = [sched EXCEPT ![w].pc = "fail"]
    /\ UNCHANGED <<jobs, execs, cons, requests>>

FailExecution(w) ==
    /\ sched[w].pc = "fail"
    /\ execs' = WithStatus(sched[w].exec, "failed")
    /\ sched' = [sched EXCEPT ![w].pc = "unlock"]
    /\ UNCHANGED <<jobs, topic, cons, requests, faults>>

UnlockFailedJob(w) ==
    /\ sched[w].pc = "unlock"
    /\ jobs' = LET j == sched[w].job
               IN  WithRow(j, [Unlocked(jobs[j]) EXCEPT !.status = "failed"])
    /\ sched' = NextTask(w)
    /\ UNCHANGED <<execs, topic, cons, requests, faults>>

-----------------------------------------------------------------------------
(* The execution consumer: ConsumeJobExecutions and processJobExecution.    *)

JobOf(w) == execs[cons[w].exec].job

\* A finished consumer keeps the execution it read last: its offset may not
\* be committed yet (CommitInterval is one second).
ReceiveExecution(w) ==
    /\ cons[w].pc = "idle"
    /\ \E e \in topic :
         /\ topic' = topic \ {e}
         /\ cons' = [cons EXCEPT ![w] = [IdleConsumer EXCEPT !.pc = "startJob", !.exec = e]]
    /\ UNCHANGED <<jobs, execs, sched, requests, faults>>

StartJob(w) ==
    /\ cons[w].pc = "startJob"
    /\ jobs' = LET j == JobOf(w)
               IN  WithRow(j, [jobs[j] EXCEPT !.status = "running", !.cooled = FALSE])
    /\ cons' = [cons EXCEPT ![w].pc = "startExec"]
    /\ UNCHANGED <<execs, topic, sched, requests, faults>>

\* Mutant: the execution is not marked running.
StartSilently(w) ==
    /\ cons[w].pc = "startExec"
    /\ cons' = [cons EXCEPT ![w].pc = "execute"]
    /\ UNCHANGED <<jobs, execs, topic, sched, requests, faults>>

StartExecution(w) ==
    /\ cons[w].pc = "startExec"
    /\ execs' = WithStatus(cons[w].exec, "running")
    /\ cons' = [cons EXCEPT ![w].pc = "execute"]
    /\ UNCHANGED <<jobs, topic, sched, requests, faults>>

\* The job's own code returns, or its time is up while it goes on running.
Execute(w) ==
    /\ cons[w].pc = "execute"
    /\ \E o \in {"completed", "failed"}, late \in BOOLEAN :
         /\ late => o = "failed" /\ "timeout" \in Faults
         /\ cons' = [cons EXCEPT ![w] = [@ EXCEPT !.pc = "record", !.outcome = o,
                                                  !.raced = late]]
    /\ UNCHANGED <<jobs, execs, topic, sched, requests, faults>>

\* After a timeout the abandoned goroutine still assigns "status": each later
\* read may see its value (a data race).
Outcomes(w) == {cons[w].outcome} \cup (IF cons[w].raced THEN {"completed"} ELSE {})

RecordExecution(w) ==
    /\ cons[w].pc = "record"
    /\ \E o \in Outcomes(w) :
         /\ execs' = WithStatus(cons[w].exec, o)
         /\ cons' = [cons EXCEPT ![w] = [@ EXCEPT !.pc = "schedule", !.outcome = o]]
    /\ UNCHANGED <<jobs, topic, sched, requests, faults>>

FinalStatus(outcome, recurring) ==
    CASE outcome = "failed" -> "failed"
      [] outcome # "failed" /\ recurring -> "scheduled"
      [] OTHER -> "completed"

ReadSchedule(w) ==
    /\ cons[w].pc = "schedule"
    /\ \E o \in Outcomes(w) :
         cons' = [cons EXCEPT ![w] = [@ EXCEPT
                    !.pc = "finish", !.final = FinalStatus(o, jobs[JobOf(w)].recurring)]]
    /\ UNCHANGED <<jobs, execs, topic, sched, requests, faults>>

\* Mutant: a failed job keeps its lock.
FinishedLocked(row, final) ==
    [(IF final = "failed" THEN row ELSE Unlocked(row)) EXCEPT
        !.status = final, !.due = final # "scheduled", !.cooled = FALSE]

\* next_run is NULL, which is due at once, unless a next run was computed.
Finished(row, final) == [Unlocked(row) EXCEPT !.status = final,
                                              !.due    = final # "scheduled",
                                              !.cooled = FALSE]

FinishJob(w) ==
    /\ cons[w].pc = "finish"
    /\ jobs' = WithRow(JobOf(w), Finished(jobs[JobOf(w)], cons[w].final))
    /\ cons' = [cons EXCEPT ![w] = [IdleConsumer EXCEPT !.exec = cons[w].exec]]
    /\ UNCHANGED <<execs, topic, sched, requests, faults>>

\* The process dies (or shuts down: every later write fails on its cancelled
\* context) and is started again; Kafka redelivers what was not committed.
Crash(w) ==
    /\ Fault("crash")
    /\ sched' = [sched EXCEPT ![w] = IdleScheduler]
    /\ cons' = [cons EXCEPT ![w] = IdleConsumer]
    /\ \/ UNCHANGED topic
       \/ cons[w].exec # 0 /\ topic' = topic \cup {cons[w].exec}
    /\ UNCHANGED <<jobs, execs, requests>>

-----------------------------------------------------------------------------
(* The gateway's handlers.                                                  *)

\* createJob: next_run is NULL without a schedule, else in the future.
NewRow(b) == [NoRow EXCEPT !.status = "scheduled", !.recurring = b, !.due = ~b]

CreateJob(j) ==
    /\ jobs[j].status = "none"
    /\ \E b \in Recurrence : jobs' = [jobs EXCEPT ![j] = NewRow(b)]
    /\ UNCHANGED <<execs, topic, sched, cons, requests, faults>>

\* ON DELETE CASCADE takes the executions; their messages stay queued.
DeleteJob(r) ==
    /\ requests[r].pc = "new"
    /\ \E j \in Jobs :
         /\ Exists(j)
         /\ jobs' = [jobs EXCEPT ![j] = [NoRow EXCEPT !.status = "deleted"]]
         /\ execs' = [e \in DOMAIN execs |->
                        IF execs[e].job = j THEN [execs[e] EXCEPT !.status = "deleted"]
                                            ELSE execs[e]]
    /\ requests' = [requests EXCEPT ![r] = DoneRequest]
    /\ UNCHANGED <<topic, sched, cons, faults>>

\* A request that read the row of job j and will act on that copy.
Holding(r, pc, j, row) ==
    [requests EXCEPT ![r] = [@ EXCEPT !.pc = pc, !.job = j, !.row = row]]

Busy(j) == jobs[j].status = "running" \/ Locked(j)

RunReadJob(r) ==
    /\ requests[r].pc = "new"
    /\ \E j \in Jobs :
         /\ Exists(j) /\ ~Busy(j) /\ Room
         /\ requests' = Holding(r, "insert", j, jobs[j])
    /\ UNCHANGED <<jobs, execs, topic, sched, cons, faults>>

\* 409: already running
RunRefused(r) ==
    /\ requests[r].pc = "new"
    /\ \E j \in Jobs : Exists(j) /\ Busy(j)
    /\ requests' = [requests EXCEPT ![r] = DoneRequest]
    /\ UNCHANGED <<jobs, execs, topic, sched, cons, faults>>

RunInsert(r) ==
    /\ requests[r].pc = "insert"
    /\ Exists(requests[r].job)
    /\ execs' = Append(execs, Pending(requests[r].job, 1))
    /\ requests' = [requests EXCEPT ![r] = [@ EXCEPT !.pc = "pend", !.exec = Len(execs) + 1]]
    /\ UNCHANGED <<jobs, topic, sched, cons, faults>>

\* Mutant: the error of the INSERT is ignored.
RunInsertIgnored(r) ==
    /\ requests[r].pc = "insert"
    /\ \/ ~Exists(requests[r].job) /\ NoFault
       \/ Fault("insert")
    /\ requests' = [requests EXCEPT ![r].pc = "pend"]
    /\ UNCHANGED <<jobs, execs, topic, sched, cons>>

RunInsertFails(r) ==
    /\ requests[r].pc = "insert"
    /\ \/ ~Exists(requests[r].job) /\ NoFault
       \/ Fault("insert")
    /\ requests' = [requests EXCEPT ![r] = DoneRequest]
    /\ UNCHANGED <<jobs, execs, topic, sched, cons>>

\* Repository.Update writes every column of the copy read earlier.
UpdateRow(r, status) ==
    jobs' = WithRow(requests[r].job,
                    [requests[r].row EXCEPT !.status = status, !.cooled = FALSE])

RunPend(r) ==
    /\ requests[r].pc = "pend"
    /\ UpdateRow(r, "pending")
    /\ requests' = [requests EXCEPT ![r].pc = "produce"]
    /\ UNCHANGED <<execs, topic, sched, cons, faults>>

RunProduce(r) ==
    /\ requests[r].pc = "produce"
    /\ topic' = topic \cup {requests[r].exec}
    /\ requests' = [requests EXCEPT ![r] = DoneRequest]
    /\ UNCHANGED <<jobs, execs, sched, cons, faults>>

RunProduceFails(r) ==
    /\ requests[r].pc = "produce"
    /\ \/ Fault("produce") /\ UNCHANGED topic
       \/ Fault("ambiguous") /\ topic' = topic \cup {requests[r].exec}
    /\ requests' = [requests EXCEPT ![r].pc = "revert"]
    /\ UNCHANGED <<jobs, execs, sched, cons>>

\* Mutant: the job is reverted and the execution forgotten.
RunRevertOnly(r) ==
    /\ requests[r].pc = "revert"
    /\ UpdateRow(r, "scheduled")
    /\ requests' = [requests EXCEPT ![r] = DoneRequest]
    /\ UNCHANGED <<execs, topic, sched, cons, faults>>

RunRevert(r) ==
    /\ requests[r].pc = "revert"
    /\ UpdateRow(r, "scheduled")
    /\ requests' = [requests EXCEPT ![r].pc = "fail"]
    /\ UNCHANGED <<execs, topic, sched, cons, faults>>

RunFailExecution(r) ==
    /\ requests[r].pc = "fail"
    /\ execs' = WithStatus(requests[r].exec, "failed")
    /\ requests' = [requests EXCEPT ![r] = DoneRequest]
    /\ UNCHANGED <<jobs, topic, sched, cons, faults>>

\* The error of an Update by run-now is dropped.
RunUpdateFails(r) ==
    /\ Fault("update")
    /\ \/ requests[r].pc = "pend" /\ requests' = [requests EXCEPT ![r].pc = "produce"]
       \/ requests[r].pc = "revert" /\ requests' = [requests EXCEPT ![r].pc = "fail"]
    /\ UNCHANGED <<jobs, execs, topic, sched, cons>>

\* The client leaves, or the request's time is up: every later statement and
\* the Produce fail on the cancelled context, those that would clean up too.
ClientLeaves(r) ==
    /\ requests[r].pc \notin {"new", "left", "done"}
    /\ Fault("leave")
    /\ requests' = [requests EXCEPT ![r] = IF @.pc \in {"insert", "write"} THEN DoneRequest
                                           ELSE [@ EXCEPT !.pc = "left"]]
    /\ UNCHANGED <<jobs, execs, topic, sched, cons>>

\* updateJob: a new status, or a new schedule (next_run is then in the future).
Edits(row) == {[row EXCEPT !.status = s] : s \in {"scheduled", "paused"}}
              \cup {[row EXCEPT !.recurring = b, !.due = FALSE] : b \in Recurrence}

UpdateReadJob(r) ==
    /\ requests[r].pc = "new"
    /\ \E j \in Jobs : \E row \in Edits(jobs[j]) :
         /\ Exists(j)
         /\ requests' = Holding(r, "write", j, row)
    /\ UNCHANGED <<jobs, execs, topic, sched, cons, faults>>

UpdateWriteJob(r) ==
    /\ requests[r].pc = "write"
    /\ UpdateRow(r, requests[r].row.status)
    /\ requests' = [requests EXCEPT ![r] = DoneRequest]
    /\ UNCHANGED <<execs, topic, sched, cons, faults>>

-----------------------------------------------------------------------------
(* Time. *)

LockAges(j) ==
    /\ "age" \in Faults
    /\ Exists(j) /\ Locked(j) /\ ~jobs[j].stale
    /\ jobs' = [jobs EXCEPT ![j].stale = TRUE]
    /\ UNCHANGED <<execs, topic, sched, cons, requests, faults>>

BecomesDue(j) ==
    /\ jobs[j].status = "scheduled" /\ ~jobs[j].due
    /\ jobs' = [jobs EXCEPT ![j].due = TRUE]
    /\ UNCHANGED <<execs, topic, sched, cons, requests, faults>>

Cools(j) ==
    /\ jobs[j].status = "failed" /\ ~jobs[j].cooled
    /\ jobs' = [jobs EXCEPT ![j].cooled = TRUE]
    /\ UNCHANGED <<execs, topic, sched, cons, requests, faults>>

-----------------------------------------------------------------------------
Init ==
    /\ jobs = [j \in Jobs |-> NoRow]
    /\ execs = <<>>
    /\ topic = {}
    /\ sched = [w \in Workers |-> IdleScheduler]
    /\ cons = [w \in Workers |-> IdleConsumer]
    /\ requests = [r \in Requests |-> NewRequest]
    /\ faults = 0

Queueing(w) == \/ LockJob(w) \/ LoseJob(w)
               \/ InsertExecution(w) \/ InsertFails(w)
               \/ ProduceExecution(w) \/ ProduceFails(w)
               \/ FailExecution(w) \/ UnlockFailedJob(w)

Tick(w) == \/ ReleaseStaleJobs(w) \/ SelectDueJobs(w) \/ SelectFailedJobs(w)
           \/ EndTick(w) \/ Queueing(w)

Consume(w) == \/ ReceiveExecution(w) \/ StartJob(w) \/ StartExecution(w)
              \/ Execute(w) \/ RecordExecution(w) \/ ReadSchedule(w) \/ FinishJob(w)

RunJobNow(r) == \/ RunReadJob(r) \/ RunRefused(r) \/ RunInsert(r) \/ RunInsertFails(r)
                \/ RunPend(r) \/ RunProduce(r) \/ RunProduceFails(r)
                \/ RunRevert(r) \/ RunFailExecution(r) \/ RunUpdateFails(r)

UpdateJob(r) == UpdateReadJob(r) \/ UpdateWriteJob(r)

Handle(r) == RunJobNow(r) \/ UpdateJob(r) \/ DeleteJob(r)

Time(j) == LockAges(j) \/ BecomesDue(j) \/ Cools(j)

Next == \/ \E w \in Workers : Tick(w) \/ Consume(w) \/ Crash(w)
        \/ \E r \in Requests : Handle(r) \/ ClientLeaves(r)
        \/ \E j \in Jobs : CreateJob(j) \/ Time(j)

Spec == Init /\ [][Next]_vars

\* The ticker fires every 30 seconds, a consumer that read a message works it
\* off, and time passes; nobody has to create a job or send a request, and a
\* started request is served to its end.
Fairness ==
    /\ \A w \in Workers : WF_vars(Tick(w)) /\ WF_vars(Consume(w))
    /\ \A r \in Requests : WF_vars(Handle(r) /\ requests[r].pc # "new")
    /\ \A j \in Jobs : WF_vars(LockAges(j)) /\ WF_vars(BecomesDue(j)) /\ WF_vars(Cools(j))

FairSpec == Spec /\ Fairness

-----------------------------------------------------------------------------
(* Properties. *)

SchedulersOK ==
    /\ sched \in [Workers -> Scheduler]
    /\ \A w \in Workers :
         /\ sched[w].pc \in {"insert", "produce", "fail", "unlock"} <=> sched[w].job \in Jobs
         /\ sched[w].pc \in {"produce", "fail"} => sched[w].exec \in DOMAIN execs

ConsumersOK ==
    /\ cons \in [Workers -> Consumer]
    /\ \A w \in Workers :
         /\ cons[w].exec \in DOMAIN execs \cup {0}
         /\ cons[w].pc # "idle" => cons[w].exec # 0
         /\ cons[w].pc \in {"record", "schedule", "finish"} => cons[w].outcome # "none"
         /\ cons[w].pc = "finish" => cons[w].final # "none"

RequestsOK ==
    /\ requests \in [Requests -> Request]
    /\ \A r \in Requests :
         /\ requests[r].pc \notin {"new", "done"} => requests[r].job \in Jobs
         /\ requests[r].pc \in {"pend", "produce", "revert", "fail", "left"}
              => requests[r].exec \in DOMAIN execs

\* Every variable stays within its type, and executions named by a message or
\* a goroutine have a row (kept here, with status "deleted", when cascaded).
TypeOK ==
    /\ jobs \in [Jobs -> Row]
    /\ execs \in Seq(Execution)
    /\ topic \subseteq DOMAIN execs
    /\ faults \in Nat
    /\ SchedulersOK
    /\ ConsumersOK
    /\ RequestsOK

\* No execution is an attempt beyond the job's max_retries (a first attempt is
\* always allowed): the bound that retryFailedJobs checks when it reads the
\* list still holds when queueJob inserts the row, whatever happened between.
AttemptsBounded ==
    \A e \in DOMAIN execs :
        execs[e].attempt <= 1 \/ execs[e].attempt <= MaxRetries[execs[e].job]

\* A retry never skips an attempt: attempt n > 1 of a job was preceded by an
\* attempt n - 1 of the same job, even when the list it was taken from is old.
RetryChain ==
    \A e \in DOMAIN execs :
        execs[e].attempt > 1 =>
            \E f \in 1 .. e - 1 : /\ execs[f].job = execs[e].job
                                  /\ execs[f].attempt = execs[e].attempt - 1

\* Worker w's scheduler is queueing job j; execution e of j waits in the
\* topic; worker w's consumer is working on j.
Queues(w, j)  == sched[w].job = j
Waits(e, j)   == e \in topic /\ execs[e].job = j
Works(w, j)   == cons[w].pc # "idle" /\ JobOf(w) = j

\* The lock of a job covers its whole way from queueJob to FinishJob: at most
\* one scheduler, one message or one consumer has the job, and the row is
\* locked for as long. (Needs locks that nobody takes away: no stale release,
\* no crash, no lost answer from the broker, no gateway update.)
SingleFlight ==
    \A j \in Jobs :
        /\ \A v, w \in Workers : /\ Queues(v, j) /\ Queues(w, j) => v = w
                                 /\ Works(v, j) /\ Works(w, j) => v = w
                                 /\ ~(Queues(v, j) /\ Works(w, j))
        /\ \A e, f \in topic : Waits(e, j) /\ Waits(f, j) => e = f
        /\ \A e \in topic, w \in Workers :
             Waits(e, j) => ~Queues(w, j) /\ ~Works(w, j)
        /\ ((\E w \in Workers : Queues(w, j) \/ Works(w, j)) \/ (\E e \in topic : Waits(e, j)))
             => Locked(j)

\* An execution row left pending or running is always in somebody's hands: the
\* scheduler or the request that inserted it, the topic, or the consumer that
\* works on it. Besides a crash only a run-now whose client left between its
\* INSERT and its last statement orphans one; a failed INSERT, Update or
\* Produce, a lost answer of the broker, a delete or a stale release must not.
NoneForgotten ==
    "crash" \notin Faults =>
        \A e \in DOMAIN execs : execs[e].status \in {"pending", "running"} =>
            \/ e \in topic
            \/ \E w \in Workers : sched[w].pc \in {"produce", "fail"} /\ sched[w].exec = e
            \/ \E w \in Workers : cons[w].pc # "idle" /\ cons[w].exec = e
            \/ \E r \in Requests : /\ requests[r].pc \in {"pend", "produce", "revert", "fail", "left"}
                                   /\ requests[r].exec = e

\* A job at rest agrees with its newest execution: a completed job's newest
\* execution completed, an unlocked failed job's newest execution failed, and
\* an unlocked job never has an execution row left pending or running.
SettledAgrees ==
    \A j \in Jobs :
        /\ jobs[j].status = "completed" =>
             ExecsOf(j) # {} /\ execs[Latest(j)].status = "completed"
        /\ jobs[j].status = "failed" /\ ~Locked(j) =>
             ExecsOf(j) # {} /\ execs[Latest(j)].status = "failed"
        /\ ~Locked(j) =>
             \A e \in ExecsOf(j) : execs[e].status \notin {"pending", "running"}

\* No lock outlives its holder for ever: releaseStaleJobs frees what a dead
\* worker, a lost message or an endless execution left locked.
LockReleased == \A j \in Jobs : Locked(j) ~> ~Locked(j)

\* A one-time job that is scheduled ends: completed, or failed with its
\* retries used up.
Exhausted(j) == jobs[j].status = "failed" /\ LastAttempt(j) >= MaxRetries[j]
OneTimeSettles ==
    \A j \in Jobs : (jobs[j].status = "scheduled" /\ ~jobs[j].recurring)
                       ~> (jobs[j].status = "completed" \/ Exhausted(j))

\* Every execution row lives the life of JobLifecycle: it runs once, and its
\* outcome is final. (Needs a broker that loses no answer and workers that do
\* not crash: both deliver an execution that was already failed or done.)
Lifecycle == INSTANCE JobLifecycle
                 WITH life <- [e \in DOMAIN execs |-> [job    |-> execs[e].job,
                                                       status |-> execs[e].status]]
RunsOnce == Lifecycle!Spec

=============================================================================
