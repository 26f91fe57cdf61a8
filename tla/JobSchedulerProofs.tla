------------------------ MODULE JobSchedulerProofs ------------------------
(***************************************************************************)
(* Theorems about JobScheduler, for any number of jobs, workers, requests   *)
(* and executions. No property but the type is inductive by itself:         *)
(*                                                                          *)
(* AttemptsBounded and RetryChain: the attempt number is computed by one    *)
(* statement, kept in a worker's memory, and inserted by another one later. *)
(* AttemptInv adds that every attempt in a worker's memory is justified by  *)
(* the executions that are there, and Justified survives every step because *)
(* executions are only appended.                                            *)
(*                                                                          *)
(* SingleFlight, for undisturbed locks: a job is locked while it is in      *)
(* somebody's hands, and only an unlocked job can be taken. FlightInv adds  *)
(* that no lock is stale and that a scheduler's execution belongs to the    *)
(* job it locked.                                                           *)
(*                                                                          *)
(* NoneForgotten and RunsOnce: an execution passes from the scheduler or a  *)
(* request over the topic to a consumer. CustodyInv says that one party at  *)
(* a time has it and that its status says which one.                        *)
(*                                                                          *)
(* SettledAgrees, for undisturbed locks and executions that end in time: a  *)
(* job is settled by whoever has its newest execution. SettleInv adds that  *)
(* the holder's execution is the newest one of the job, and that its status *)
(* is what the holder is about to write into the job's row.                 *)
(***************************************************************************)
EXTENDS JobScheduler, SequenceTheorems, WellFoundedInduction, TLAPS

\* A nonempty set of positions in the history has a newest one: what the
\* LIMIT 1 of the lateral join in retryFailedJobs relies on.
LEMMA NewestExists ==
    ASSUME NEW n \in Nat, NEW S \in SUBSET (1 .. n), S # {}
    PROVE  \E e \in S : \A f \in S : f <= e
<1> DEFINE T == {n - e : e \in S}
<1>0. S \subseteq Int /\ \A e \in S : n - e \in Nat
  OBVIOUS
<1>1. T \subseteq Nat /\ T # {}
  BY <1>0, Zenon
<1>2. \E x \in T : \A y \in T : ~ (<<y, x>> \in OpToRel(<, Nat))
  BY <1>1, NatLessThanWellFounded, WFMin, Zenon
<1>3. PICK x \in T : \A y \in T : x <= y
  <2>1. PICK x \in T : \A y \in T : ~ (<<y, x>> \in OpToRel(<, Nat))
    BY <1>2
  <2>2. \A y \in T : ~ (y < x)
    BY <1>1, <2>1, Zenon DEF OpToRel
  <2> HIDE DEF T
  <2>3. \A y \in T : x <= y
    BY <1>1, <2>2
  <2> QED BY <2>3, Zenon
<1>4. PICK e \in S : x = n - e
  BY Zenon
<1>5. \A f \in S : f <= e
  <2> TAKE f \in S
  <2>1. n - f \in T
    OBVIOUS
  <2> HIDE DEF T
  <2> QED BY <1>3, <1>4, <2>1
<1> QED BY <1>5

\* An UPDATE of one row of jobs leaves a table of rows.
LEMMA RowUpdates ==
    ASSUME TypeOK, NEW j \in Jobs, NEW row \in Row
    PROVE  WithRow(j, row) \in [Jobs -> Row]
BY DEF TypeOK, WithRow

\* An UPDATE of an execution's status changes neither how many executions
\* there are nor whose they are nor which attempt.
LEMMA StatusUpdates ==
    ASSUME execs \in Seq(Execution), NEW e \in DOMAIN execs,
           NEW s \in {"pending", "running", "completed", "failed", "deleted"}
    PROVE  /\ WithStatus(e, s) \in Seq(Execution)
           /\ DOMAIN WithStatus(e, s) = DOMAIN execs
           /\ Len(WithStatus(e, s)) = Len(execs)
           /\ \A f \in DOMAIN execs : /\ WithStatus(e, s)[f].job = execs[f].job
                                      /\ WithStatus(e, s)[f].attempt = execs[f].attempt
<1>1. DOMAIN execs = 1 .. Len(execs) /\ \A f \in DOMAIN execs : execs[f] \in Execution
  OBVIOUS
<1>2. [execs[e] EXCEPT !.status = s] \in Execution
  BY <1>1 DEF Execution
<1>4. /\ [execs EXCEPT ![e].status = s] \in Seq(Execution)
      /\ Len([execs EXCEPT ![e].status = s]) = Len(execs)
  BY <1>2
<1> QED BY <1>4 DEF WithStatus

\* An INSERT adds one execution at the end and keeps the others.
LEMMA Appends ==
    ASSUME execs \in Seq(Execution), NEW j \in Jobs, NEW n \in Nat
    PROVE  /\ Append(execs, Pending(j, n)) \in Seq(Execution)
           /\ Len(execs) \in Nat
           /\ DOMAIN execs = 1 .. Len(execs)
           /\ DOMAIN Append(execs, Pending(j, n)) = 1 .. Len(execs) + 1
           /\ Append(execs, Pending(j, n))[Len(execs) + 1] = Pending(j, n)
           /\ \A f \in DOMAIN execs : Append(execs, Pending(j, n))[f] = execs[f]
BY DEF Pending, Execution

\* A job with executions has a newest one, and LastAttempt is its attempt.
LEMMA NewestExecution ==
    ASSUME execs \in Seq(Execution), NEW j \in Jobs, ExecsOf(j) # {}
    PROVE  Latest(j) \in ExecsOf(j) /\ LastAttempt(j) = execs[Latest(j)].attempt
<1>1. ExecsOf(j) \subseteq 1 .. Len(execs) /\ Len(execs) \in Nat
  BY DEF ExecsOf
<1>2. \E e \in ExecsOf(j) : \A f \in ExecsOf(j) : f <= e
  BY <1>1, NewestExists
<1> QED BY <1>2 DEF Latest, LastAttempt

\* COALESCE(e.attempt, 0) is a natural number.
LEMMA LastAttemptType ==
    ASSUME execs \in Seq(Execution), NEW j \in Jobs
    PROVE  LastAttempt(j) \in Nat
<1>1. CASE ExecsOf(j) = {}
  BY <1>1 DEF LastAttempt
<1>2. CASE ExecsOf(j) # {}
  <2>1. Latest(j) \in 1 .. Len(execs)
    BY <1>2, NewestExecution DEF ExecsOf
  <2>2. execs[Latest(j)] \in Execution
    BY <2>1
  <2> QED BY <1>2, <2>2, NewestExecution DEF Execution
<1> QED BY <1>1, <1>2

\* The empty tables and idle goroutines have their types.
LEMMA TypeInit == Init => TypeOK
<1> SUFFICES ASSUME Init PROVE TypeOK
  OBVIOUS
<1>1. jobs \in [Jobs -> Row]
  BY DEF Init, NoRow, Row
<1>2. execs \in Seq(Execution) /\ topic \subseteq DOMAIN execs
  BY DEF Init
<1>3. sched \in [Workers -> Scheduler]
  BY DEF Init, IdleScheduler, Scheduler
<1>4. cons \in [Workers -> Consumer]
  BY DEF Init, IdleConsumer, Consumer
<1>5. requests \in [Requests -> Request]
  BY DEF Init, NewRequest, Request, NoRow, Row
<1> QED
  BY <1>1, <1>2, <1>3, <1>4, <1>5, ConstantsAssumption DEF Init, TypeOK, SchedulersOK,
     ConsumersOK, RequestsOK, IdleScheduler, IdleConsumer, NewRequest

\* Releasing a lock and changing a status keep a row a row.
LEMMA RowTypes ==
    ASSUME NEW row \in Row
    PROVE  /\ Unlocked(row) \in Row
           /\ Released(row) \in Row
           /\ \A s \in LiveStatus : /\ [row EXCEPT !.status = s] \in Row
                                    /\ [row EXCEPT !.status = s, !.cooled = FALSE] \in Row
           /\ NoRow \in Row
<1>1. Unlocked(row) \in Row
  BY DEF Unlocked, Row
<1>3. Released(row) \in Row
  BY <1>1 DEF Released, Row, LiveStatus
<1>4. \A s \in LiveStatus : /\ [row EXCEPT !.status = s] \in Row
                            /\ [row EXCEPT !.status = s, !.cooled = FALSE] \in Row
  BY DEF Row
<1>5. NoRow \in Row
  BY DEF NoRow, Row
<1> QED BY <1>1, <1>3, <1>4, <1>5

\* Goroutines and requests that a step leaves alone keep their types when the
\* executions only grow.
LEMMA TypeFrame ==
    ASSUME TypeOK, DOMAIN execs \subseteq DOMAIN execs'
    PROVE  /\ UNCHANGED sched => SchedulersOK'
           /\ UNCHANGED cons => ConsumersOK'
           /\ UNCHANGED requests => RequestsOK'
BY DEF TypeOK, SchedulersOK, ConsumersOK, RequestsOK

\* A busy consumer's execution belongs to a job.
LEMMA JobOfType ==
    ASSUME TypeOK, NEW w \in Workers, cons[w].pc # "idle"
    PROVE  JobOf(w) \in Jobs
<1>1. cons[w].exec \in 1 .. Len(execs)
  BY DEF TypeOK, ConsumersOK
<1>2. execs[cons[w].exec] \in Execution
  BY <1>1 DEF TypeOK
<1> QED BY <1>2 DEF JobOf, Execution

\* ON DELETE CASCADE leaves a table of executions.
LEMMA Cascade ==
    ASSUME execs \in Seq(Execution), NEW j \in Jobs
    PROVE  [e \in DOMAIN execs |->
              IF execs[e].job = j THEN [execs[e] EXCEPT !.status = "deleted"]
                                  ELSE execs[e]] \in Seq(Execution)
<1>1. /\ DOMAIN execs = 1 .. Len(execs) /\ Len(execs) \in Nat
      /\ \A e \in DOMAIN execs : execs[e] \in Execution
  OBVIOUS
<1>2. \A e \in DOMAIN execs : [execs[e] EXCEPT !.status = "deleted"] \in Execution
  BY <1>1 DEF Execution
<1> QED BY <1>2

\* One scheduler goroutine moves to a well-typed state.
LEMMA SchedulerStep ==
    ASSUME TypeOK, NEW w \in Workers, NEW s \in Scheduler,
           DOMAIN execs \subseteq DOMAIN execs',
           sched' = [sched EXCEPT ![w] = s],
           s.pc \in {"insert", "produce", "fail", "unlock"} <=> s.job \in Jobs,
           s.pc \in {"produce", "fail"} => s.exec \in DOMAIN execs'
    PROVE  SchedulersOK'
<1> QED BY DEF TypeOK, SchedulersOK

\* One consumer moves to a well-typed state.
LEMMA ConsumerStep ==
    ASSUME TypeOK, NEW w \in Workers, NEW c \in Consumer,
           DOMAIN execs \subseteq DOMAIN execs',
           cons' = [cons EXCEPT ![w] = c],
           c.exec \in DOMAIN execs' \cup {0},
           c.pc # "idle" => c.exec # 0,
           c.pc \in {"record", "schedule", "finish"} => c.outcome # "none",
           c.pc = "finish" => c.final # "none"
    PROVE  ConsumersOK'
<1> QED BY DEF TypeOK, ConsumersOK

\* One gateway request moves to a well-typed state.
LEMMA RequestStep ==
    ASSUME TypeOK, NEW r \in Requests, NEW q \in Request,
           DOMAIN execs \subseteq DOMAIN execs',
           requests' = [requests EXCEPT ![r] = q],
           q.pc \notin {"new", "done"} => q.job \in Jobs,
           q.pc \in {"pend", "produce", "revert", "fail", "left"} => q.exec \in DOMAIN execs'
    PROVE  RequestsOK'
<1> QED BY DEF TypeOK, RequestsOK

\* The initial states of the goroutines and requests have their types.
LEMMA IdleTypes ==
    /\ IdleScheduler \in Scheduler
    /\ IdleConsumer \in Consumer
    /\ DoneRequest \in Request
    /\ NewRequest \in Request
<1>1. NoRow \in Row
  BY DEF NoRow, Row
<1> QED BY <1>1 DEF IdleScheduler, Scheduler, IdleConsumer, Consumer, DoneRequest, NewRequest,
   Request

\* The type invariant, member by member.
LEMMA Members ==
    ASSUME TypeOK
    PROVE  /\ execs \in Seq(Execution) /\ topic \subseteq DOMAIN execs /\ faults \in Nat
           /\ jobs \in [Jobs -> Row] /\ \A j \in Jobs : jobs[j] \in Row
           /\ \A w \in Workers :
                /\ sched[w] \in Scheduler
                /\ sched[w].pc \in {"insert", "produce", "fail", "unlock"} <=> sched[w].job \in Jobs
                /\ sched[w].pc \in {"produce", "fail"} => sched[w].exec \in DOMAIN execs
                /\ cons[w] \in Consumer
                /\ cons[w].exec \in DOMAIN execs \cup {0}
                /\ cons[w].pc # "idle" => cons[w].exec \in DOMAIN execs
                /\ cons[w].pc \in {"record", "schedule", "finish"} => cons[w].outcome # "none"
                /\ cons[w].pc = "finish" => cons[w].final # "none"
           /\ \A r \in Requests :
                /\ requests[r] \in Request
                /\ requests[r].pc \notin {"new", "done"} => requests[r].job \in Jobs
                /\ requests[r].pc \in {"pend", "produce", "revert", "fail", "left"}
                     => requests[r].exec \in DOMAIN execs
BY DEF TypeOK, SchedulersOK, ConsumersOK, RequestsOK

\* What the handlers, the consumer and time write into a row has its type.
LEMMA RowEdits ==
    ASSUME NEW row \in Row
    PROVE  /\ \A s \in {"scheduled", "paused"} : [row EXCEPT !.status = s] \in Row
           /\ \A b \in BOOLEAN : [row EXCEPT !.recurring = b, !.due = FALSE] \in Row
           /\ \A s \in LiveStatus, b \in BOOLEAN :
                [row EXCEPT !.status = s, !.due = b, !.cooled = FALSE] \in Row
           /\ \A w \in Workers : [row EXCEPT !.lock = w, !.stale = FALSE,
                                             !.status = "pending", !.cooled = FALSE] \in Row
           /\ [row EXCEPT !.stale = TRUE] \in Row
           /\ [row EXCEPT !.due = TRUE] \in Row
           /\ [row EXCEPT !.cooled = TRUE] \in Row
BY DEF Row, LiveStatus

\* What a consumer's own steps change in its memory keeps the type.
LEMMA ConsumerEdits ==
    ASSUME NEW c \in Consumer
    PROVE  /\ \A pc \in {"startExec", "execute"} : [c EXCEPT !.pc = pc] \in Consumer
           /\ \A o \in {"completed", "failed"}, b \in BOOLEAN :
                [c EXCEPT !.pc = "record", !.outcome = o, !.raced = b] \in Consumer
           /\ \A o \in {"completed", "failed"} :
                [c EXCEPT !.pc = "schedule", !.outcome = o] \in Consumer
           /\ \A f \in {"scheduled", "completed", "failed"} :
                [c EXCEPT !.pc = "finish", !.final = f] \in Consumer
BY DEF Consumer

\* Every step keeps the types: one case per action.
LEMMA TypeStep ==
    ASSUME TypeOK, [Next]_vars
    PROVE  TypeOK'
<1> USE ConstantsAssumption
<1>1. ASSUME NEW w \in Workers, ReleaseStaleJobs(w) PROVE TypeOK'
  <2>1. jobs' \in [Jobs -> Row]
    BY <1>1, RowTypes DEF TypeOK, ReleaseStaleJobs
  <2>3. SchedulersOK'
    BY <1>1, Members, SchedulerStep DEF ReleaseStaleJobs, Scheduler
  <2> QED BY <1>1, <2>1, <2>3, TypeFrame DEF TypeOK, ReleaseStaleJobs
<1>2. ASSUME NEW w \in Workers, SelectDueJobs(w) PROVE TypeOK'
  <2>1. PICK T \in SUBSET Jobs :
           sched' = [sched EXCEPT ![w] = [sched[w] EXCEPT !.pc = "queue", !.phase = "due",
                                                          !.todo = [job : T, attempt : {1}]]]
    BY <1>2 DEF SelectDueJobs, Selections, DueJobs
  <2>2. [job : T, attempt : {1}] \in SUBSET Task
    BY DEF Task
  <2>4. SchedulersOK'
    BY <1>2, <2>1, <2>2, Members, SchedulerStep DEF SelectDueJobs, Scheduler
  <2> QED BY <1>2, <2>4, TypeFrame DEF TypeOK, SelectDueJobs
<1>3. ASSUME NEW w \in Workers, SelectFailedJobs(w) PROVE TypeOK'
  <2>1. PICK T \in SUBSET Jobs :
           sched' = [sched EXCEPT ![w] = [sched[w] EXCEPT !.phase = "retry", !.todo = Retries(T)]]
    BY <1>3 DEF SelectFailedJobs, Selections, RetryJobs
  <2>2. Retries(T) \in SUBSET Task
    BY Members, LastAttemptType DEF Task, Retries
  <2>4. SchedulersOK'
    BY <1>3, <2>1, <2>2, Members, SchedulerStep DEF SelectFailedJobs, Scheduler
  <2> QED BY <1>3, <2>4, TypeFrame DEF TypeOK, SelectFailedJobs
<1>4. ASSUME NEW w \in Workers, EndTick(w) PROVE TypeOK'
  <2>2. SchedulersOK'
    BY <1>4, SchedulerStep DEF EndTick, Scheduler, IdleScheduler
  <2> QED BY <1>4, <2>2, TypeFrame DEF TypeOK, EndTick
<1>5. ASSUME NEW w \in Workers, LockJob(w) PROVE TypeOK'
  <2>1. PICK t \in sched[w].todo :
           /\ Lockable(t.job)
           /\ jobs' = [jobs EXCEPT ![t.job] = LockedRow(jobs[t.job], w)]
           /\ sched' = [sched EXCEPT ![w] = [sched[w] EXCEPT !.pc = "insert", !.job = t.job,
                                                             !.attempt = t.attempt, !.todo = sched[w].todo \ {t}]]
    BY <1>5 DEF LockJob
  <2>2. t.job \in Jobs /\ t.attempt \in Nat
    BY Members DEF Scheduler, Task
  <2>3. jobs[t.job] \in Row
    BY <2>2, Members
  <2>4. LockedRow(jobs[t.job], w) \in Row
    BY <2>3, RowEdits DEF LockedRow
  <2>5. jobs' \in [Jobs -> Row]
    BY <2>1, <2>4, Members
  <2>7. SchedulersOK'
    BY <1>5, <2>1, <2>2, Members, SchedulerStep DEF LockJob, Scheduler
  <2> QED BY <1>5, <2>5, <2>7, TypeFrame DEF TypeOK, LockJob
<1>6. ASSUME NEW w \in Workers, LoseJob(w) PROVE TypeOK'
  <2>1. PICK t \in sched[w].todo :
           sched' = [sched EXCEPT ![w] = [sched[w] EXCEPT !.todo = sched[w].todo \ {t}]]
    BY <1>6 DEF LoseJob
  <2>3. SchedulersOK'
    BY <1>6, <2>1, Members, SchedulerStep DEF LoseJob, Scheduler
  <2> QED BY <1>6, <2>3, TypeFrame DEF TypeOK, LoseJob
<1>7. ASSUME NEW w \in Workers, InsertExecution(w) PROVE TypeOK'
  <2>1. sched[w].job \in Jobs /\ sched[w].attempt \in Nat
    BY <1>7, Members DEF Scheduler, InsertExecution
  <2>2. execs' \in Seq(Execution) /\ DOMAIN execs \subseteq DOMAIN execs'
    BY <1>7, <2>1, Appends, Members DEF InsertExecution
  <2>3. Len(execs) + 1 \in DOMAIN execs' /\ Len(execs) + 1 \in Nat
    BY <1>7 DEF InsertExecution
  <2>5. DOMAIN execs \subseteq DOMAIN execs'
    BY <1>7 DEF InsertExecution
  <2>6. SchedulersOK'
    BY <1>7, <2>3, <2>5, Members, SchedulerStep DEF InsertExecution, Scheduler
  <2> QED BY <1>7, <2>2, <2>6, TypeFrame DEF TypeOK, InsertExecution
<1>8. ASSUME NEW w \in Workers, InsertFails(w) PROVE TypeOK'
  <2>1. jobs' \in [Jobs -> Row]
    BY <1>8, RowUpdates, RowTypes DEF TypeOK, SchedulersOK, InsertFails, LiveStatus
  <2>3. SchedulersOK'
    BY <1>8, Members, SchedulerStep DEF InsertFails, Scheduler, NextTask
  <2>4. faults' \in Nat
    BY <1>8, Members DEF InsertFails, Fault, NoFault
  <2> QED BY <1>8, <2>1, <2>3, <2>4, TypeFrame DEF TypeOK, InsertFails
<1>9. ASSUME NEW w \in Workers, ProduceExecution(w) PROVE TypeOK'
  <2>1. topic' \subseteq DOMAIN execs'
    BY <1>9 DEF TypeOK, SchedulersOK, ProduceExecution
  <2>3. SchedulersOK'
    BY <1>9, Members, SchedulerStep DEF ProduceExecution, Scheduler, NextTask
  <2> QED BY <1>9, <2>1, <2>3, TypeFrame DEF TypeOK, ProduceExecution
<1>10. ASSUME NEW w \in Workers, ProduceFails(w) PROVE TypeOK'
  <2>1. topic' \subseteq DOMAIN execs'
    BY <1>10 DEF TypeOK, SchedulersOK, ProduceFails
  <2>3. SchedulersOK'
    BY <1>10, Members, SchedulerStep DEF ProduceFails, Scheduler
  <2> QED BY <1>10, <2>1, <2>3, TypeFrame DEF TypeOK, ProduceFails, Fault
<1>11. ASSUME NEW w \in Workers, FailExecution(w) PROVE TypeOK'
  <2>1. execs' \in Seq(Execution) /\ DOMAIN execs \subseteq DOMAIN execs'
    BY <1>11, StatusUpdates DEF TypeOK, SchedulersOK, FailExecution
  <2>3. DOMAIN execs \subseteq DOMAIN execs'
    BY <2>1
  <2>4. SchedulersOK'
    BY <1>11, <2>3, Members, SchedulerStep DEF FailExecution, Scheduler
  <2> QED BY <1>11, <2>1, <2>4, TypeFrame DEF TypeOK, FailExecution
<1>12. ASSUME NEW w \in Workers, UnlockFailedJob(w) PROVE TypeOK'
  <2>1. jobs' \in [Jobs -> Row]
    BY <1>12, RowUpdates, RowTypes DEF TypeOK, SchedulersOK, UnlockFailedJob, LiveStatus
  <2>3. SchedulersOK'
    BY <1>12, Members, SchedulerStep DEF UnlockFailedJob, Scheduler, NextTask
  <2> QED BY <1>12, <2>1, <2>3, TypeFrame DEF TypeOK, UnlockFailedJob
<1>13. ASSUME NEW w \in Workers, ReceiveExecution(w) PROVE TypeOK'
  <2>2. PICK e \in topic :
           cons' = [cons EXCEPT ![w] = [IdleConsumer EXCEPT !.pc = "startJob", !.exec = e]]
    BY <1>13 DEF ReceiveExecution
  <2>3. e \in DOMAIN execs /\ e \in Nat /\ e # 0
    BY DEF TypeOK
  <2>5. ConsumersOK'
    BY <1>13, <2>2, <2>3, ConsumerStep DEF ReceiveExecution, Consumer, IdleConsumer
  <2> QED BY <1>13, <2>5, TypeFrame DEF TypeOK, ReceiveExecution
<1>14. ASSUME NEW w \in Workers, StartJob(w) PROVE TypeOK'
  <2>1. JobOf(w) \in Jobs
    BY <1>14, JobOfType DEF StartJob
  <2>2. jobs' \in [Jobs -> Row]
    BY <1>14, <2>1, RowUpdates, RowTypes DEF TypeOK, StartJob, LiveStatus
  <2>3. DOMAIN execs \subseteq DOMAIN execs'
    BY <1>14 DEF StartJob
  <2>4. ConsumersOK'
    <3> DEFINE rec == [cons[w] EXCEPT !.pc = "startExec"]
    <3>1. rec \in Consumer
      BY Members, ConsumerEdits
    <3>2. cons' = [cons EXCEPT ![w] = rec]
      BY <1>14 DEF StartJob
    <3>3. /\ rec.exec \in DOMAIN execs' \cup {0}
          /\ rec.pc # "idle" => rec.exec # 0
          /\ rec.pc \in {"record", "schedule", "finish"} => rec.outcome # "none"
          /\ rec.pc = "finish" => rec.final # "none"
      BY <1>14, Members DEF StartJob
    <3> HIDE DEF rec
    <3> QED BY <2>3, <3>1, <3>2, <3>3, ConsumerStep
  <2> QED BY <1>14, <2>2, <2>4, TypeFrame DEF TypeOK, StartJob
<1>15. ASSUME NEW w \in Workers, StartExecution(w) PROVE TypeOK'
  <2>1. cons[w].exec \in DOMAIN execs
    BY <1>15 DEF TypeOK, ConsumersOK, StartExecution
  <2>2. execs' \in Seq(Execution) /\ DOMAIN execs \subseteq DOMAIN execs'
    BY <1>15, <2>1, StatusUpdates DEF TypeOK, StartExecution
  <2>3. DOMAIN execs \subseteq DOMAIN execs'
    BY <2>2
  <2>4. ConsumersOK'
    <3> DEFINE rec == [cons[w] EXCEPT !.pc = "execute"]
    <3>1. rec \in Consumer
      BY Members, ConsumerEdits
    <3>2. cons' = [cons EXCEPT ![w] = rec]
      BY <1>15 DEF StartExecution
    <3>3. /\ rec.exec \in DOMAIN execs' \cup {0}
          /\ rec.pc # "idle" => rec.exec # 0
          /\ rec.pc \in {"record", "schedule", "finish"} => rec.outcome # "none"
          /\ rec.pc = "finish" => rec.final # "none"
      BY <1>15, <2>3, Members DEF StartExecution
    <3> HIDE DEF rec
    <3> QED BY <2>3, <3>1, <3>2, <3>3, ConsumerStep
  <2> QED BY <1>15, <2>2, <2>4, TypeFrame DEF TypeOK, StartExecution
<1>16. ASSUME NEW w \in Workers, Execute(w) PROVE TypeOK'
  <2>1. PICK o \in {"completed", "failed"}, b \in BOOLEAN :
           cons' = [cons EXCEPT ![w] = [cons[w] EXCEPT !.pc = "record", !.outcome = o,
                                                       !.raced = b]]
    BY <1>16 DEF Execute
  <2>2. DOMAIN execs \subseteq DOMAIN execs'
    BY <1>16 DEF Execute
  <2>3. ConsumersOK'
    <3> DEFINE rec == [cons[w] EXCEPT !.pc = "record", !.outcome = o, !.raced = b]
    <3>1. rec \in Consumer
      BY Members, ConsumerEdits
    <3>2. cons' = [cons EXCEPT ![w] = rec]
      BY <2>1
    <3>3. /\ rec.exec \in DOMAIN execs' \cup {0}
          /\ rec.pc # "idle" => rec.exec # 0
          /\ rec.pc \in {"record", "schedule", "finish"} => rec.outcome # "none"
          /\ rec.pc = "finish" => rec.final # "none"
      BY <1>16, Members DEF Execute
    <3> HIDE DEF rec
    <3> QED BY <2>2, <3>1, <3>2, <3>3, ConsumerStep
  <2> QED BY <1>16, <2>3, TypeFrame DEF TypeOK, Execute
<1>17. ASSUME NEW w \in Workers, RecordExecution(w) PROVE TypeOK'
  <2>1. PICK o \in Outcomes(w) :
           /\ execs' = WithStatus(cons[w].exec, o)
           /\ cons' = [cons EXCEPT ![w] = [cons[w] EXCEPT !.pc = "schedule", !.outcome = o]]
    BY <1>17 DEF RecordExecution
  <2>2. o \in {"completed", "failed"} /\ cons[w].exec \in DOMAIN execs
    BY <1>17, Members DEF Consumer, Outcomes, RecordExecution
  <2>3. execs' \in Seq(Execution) /\ DOMAIN execs \subseteq DOMAIN execs'
    BY <2>1, <2>2, StatusUpdates, Members
  <2>4. DOMAIN execs \subseteq DOMAIN execs'
    BY <2>3
  <2>5. ConsumersOK'
    <3> DEFINE rec == [cons[w] EXCEPT !.pc = "schedule", !.outcome = o]
    <3>1. rec \in Consumer
      BY <2>2, Members, ConsumerEdits
    <3>2. cons' = [cons EXCEPT ![w] = rec]
      BY <2>1
    <3>3. /\ rec.exec \in DOMAIN execs' \cup {0}
          /\ rec.pc # "idle" => rec.exec # 0
          /\ rec.pc \in {"record", "schedule", "finish"} => rec.outcome # "none"
          /\ rec.pc = "finish" => rec.final # "none"
      BY <2>2, <2>4, Members
    <3> HIDE DEF rec
    <3> QED BY <2>4, <3>1, <3>2, <3>3, ConsumerStep
  <2> QED BY <1>17, <2>3, <2>5, TypeFrame DEF TypeOK, RecordExecution
<1>18. ASSUME NEW w \in Workers, ReadSchedule(w) PROVE TypeOK'
  <2>1. PICK f \in {"scheduled", "completed", "failed"} :
           cons' = [cons EXCEPT ![w] = [cons[w] EXCEPT !.pc = "finish", !.final = f]]
    BY <1>18 DEF FinalStatus, ReadSchedule
  <2>2. DOMAIN execs \subseteq DOMAIN execs'
    BY <1>18 DEF ReadSchedule
  <2>3. ConsumersOK'
    <3> DEFINE rec == [cons[w] EXCEPT !.pc = "finish", !.final = f]
    <3>1. rec \in Consumer
      BY Members, ConsumerEdits
    <3>2. cons' = [cons EXCEPT ![w] = rec]
      BY <2>1
    <3>3. /\ rec.exec \in DOMAIN execs' \cup {0}
          /\ rec.pc # "idle" => rec.exec # 0
          /\ rec.pc \in {"record", "schedule", "finish"} => rec.outcome # "none"
          /\ rec.pc = "finish" => rec.final # "none"
      BY <1>18, Members DEF ReadSchedule
    <3> HIDE DEF rec
    <3> QED BY <2>2, <3>1, <3>2, <3>3, ConsumerStep
  <2> QED BY <1>18, <2>3, TypeFrame DEF TypeOK, ReadSchedule
<1>19. ASSUME NEW w \in Workers, FinishJob(w) PROVE TypeOK'
  <2>1. JobOf(w) \in Jobs
    BY <1>19, JobOfType DEF FinishJob
  <2>2. cons[w].final \in LiveStatus /\ jobs[JobOf(w)] \in Row
    BY <1>19, <2>1, Members DEF Consumer, LiveStatus, FinishJob
  <2>3. Unlocked(jobs[JobOf(w)]) \in Row
    BY <2>2, RowTypes
  <2>4. Finished(jobs[JobOf(w)], cons[w].final) \in Row
    BY <2>2, <2>3, RowEdits DEF Finished
  <2>5. jobs' \in [Jobs -> Row]
    BY <1>19, <2>1, <2>4, RowUpdates DEF FinishJob
  <2>7. ConsumersOK'
    BY <1>19, Members, ConsumerStep DEF FinishJob, Consumer, IdleConsumer
  <2> QED BY <1>19, <2>5, <2>7, TypeFrame DEF TypeOK, FinishJob
<1>20. ASSUME NEW w \in Workers, Crash(w) PROVE TypeOK'
  <2>1. topic' \subseteq DOMAIN execs'
    BY <1>20 DEF TypeOK, ConsumersOK, Crash
  <2>3. SchedulersOK'
    BY <1>20, SchedulerStep DEF Crash, Scheduler, IdleScheduler
  <2>5. ConsumersOK'
    BY <1>20, ConsumerStep DEF Crash, Consumer, IdleConsumer
  <2> QED BY <1>20, <2>1, <2>3, <2>5, TypeFrame DEF TypeOK, Crash, Fault
<1>21. ASSUME NEW j \in Jobs, CreateJob(j) PROVE TypeOK'
  <2>1. \A b \in BOOLEAN : NewRow(b) \in Row
    BY DEF NewRow, NoRow, Row, LiveStatus
  <2>2. jobs' \in [Jobs -> Row]
    BY <1>21, <2>1, Members DEF CreateJob
  <2> QED BY <1>21, <2>2, TypeFrame DEF TypeOK, CreateJob
<1>22. ASSUME NEW r \in Requests, DeleteJob(r) PROVE TypeOK'
  <2>1. [NoRow EXCEPT !.status = "deleted"] \in Row
    BY DEF NoRow, Row
  <2>2. jobs' \in [Jobs -> Row]
    BY <1>22, <2>1 DEF TypeOK, DeleteJob
  <2>3. execs' \in Seq(Execution) /\ DOMAIN execs \subseteq DOMAIN execs'
    BY <1>22, Cascade DEF TypeOK, DeleteJob
  <2>5. RequestsOK'
    BY <1>22, IdleTypes, RequestStep DEF DeleteJob, DoneRequest, NewRequest
  <2> QED BY <1>22, <2>2, <2>3, <2>5, TypeFrame DEF TypeOK, DeleteJob
<1>23. ASSUME NEW r \in Requests, RunReadJob(r) PROVE TypeOK'
  <2>1. PICK j \in Jobs :
           requests' = [requests EXCEPT ![r] = [requests[r] EXCEPT !.pc = "insert",
                                                                   !.job = j, !.row = jobs[j]]]
    BY <1>23 DEF Holding, RunReadJob
  <2>2. jobs[j] \in Row
    BY Members
  <2>3. DOMAIN execs \subseteq DOMAIN execs'
    BY <1>23 DEF RunReadJob
  <2>4. RequestsOK'
    <3>0. PICK row \in Row : row = jobs[j]
      BY <2>2
    <3> DEFINE q == [requests[r] EXCEPT !.pc = "insert", !.job = j, !.row = row]
    <3>1. requests[r] \in Request
      BY Members
    <3>2. q \in Request /\ q.pc = "insert" /\ q.job = j
      BY <3>1 DEF Request
    <3>3. requests' = [requests EXCEPT ![r] = q]
      BY <2>1, <3>0
    <3> HIDE DEF q
    <3> QED BY <2>3, <3>2, <3>3, RequestStep
  <2> QED BY <1>23, <2>4, TypeFrame DEF TypeOK, RunReadJob
<1>24. ASSUME NEW r \in Requests, RunRefused(r) PROVE TypeOK'
  <2>2. RequestsOK'
    BY <1>24, IdleTypes, RequestStep DEF RunRefused, DoneRequest, NewRequest
  <2> QED BY <1>24, <2>2, TypeFrame DEF TypeOK, RunRefused
<1>25. ASSUME NEW r \in Requests, RunInsert(r) PROVE TypeOK'
  <2>1. requests[r].job \in Jobs
    BY <1>25, Members DEF RunInsert
  <2>2. execs' \in Seq(Execution) /\ DOMAIN execs \subseteq DOMAIN execs'
    BY <1>25, <2>1, Appends, Members DEF RunInsert
  <2>3. Len(execs) + 1 \in DOMAIN execs' /\ Len(execs) + 1 \in Nat
    BY <1>25 DEF RunInsert
  <2>5. DOMAIN execs \subseteq DOMAIN execs'
    BY <1>25 DEF RunInsert
  <2>6. RequestsOK'
    BY <1>25, <2>3, <2>5, Members, RequestStep DEF RunInsert, Request
  <2> QED BY <1>25, <2>2, <2>6, TypeFrame DEF TypeOK, RunInsert
<1>26. ASSUME NEW r \in Requests, RunInsertFails(r) PROVE TypeOK'
  <2>2. RequestsOK'
    BY <1>26, IdleTypes, RequestStep DEF RunInsertFails, DoneRequest, NewRequest
  <2> QED BY <1>26, <2>2, TypeFrame DEF TypeOK, RunInsertFails, Fault, NoFault
<1>27. ASSUME NEW r \in Requests, RunPend(r) PROVE TypeOK'
  <2>1. requests[r].job \in Jobs /\ requests[r].row \in Row
    BY <1>27 DEF TypeOK, RequestsOK, Request, RunPend
  <2>2. jobs' \in [Jobs -> Row]
    BY <1>27, <2>1, RowUpdates, RowTypes DEF RunPend, UpdateRow, LiveStatus
  <2>4. RequestsOK'
    BY <1>27, Members, RequestStep DEF RunPend, Request
  <2> QED BY <1>27, <2>2, <2>4, TypeFrame DEF TypeOK, RunPend
<1>28. ASSUME NEW r \in Requests, RunProduce(r) PROVE TypeOK'
  <2>1. topic' \subseteq DOMAIN execs'
    BY <1>28 DEF TypeOK, RequestsOK, RunProduce
  <2>3. RequestsOK'
    BY <1>28, IdleTypes, RequestStep DEF RunProduce, DoneRequest, NewRequest
  <2> QED BY <1>28, <2>1, <2>3, TypeFrame DEF TypeOK, RunProduce
<1>29. ASSUME NEW r \in Requests, RunProduceFails(r) PROVE TypeOK'
  <2>1. topic' \subseteq DOMAIN execs'
    BY <1>29 DEF TypeOK, RequestsOK, RunProduceFails
  <2>3. RequestsOK'
    BY <1>29, Members, RequestStep DEF RunProduceFails, Request
  <2> QED BY <1>29, <2>1, <2>3, TypeFrame DEF TypeOK, RunProduceFails, Fault
<1>30. ASSUME NEW r \in Requests, RunRevert(r) PROVE TypeOK'
  <2>1. requests[r].job \in Jobs /\ requests[r].row \in Row
    BY <1>30 DEF TypeOK, RequestsOK, Request, RunRevert
  <2>2. jobs' \in [Jobs -> Row]
    BY <1>30, <2>1, RowUpdates, RowTypes DEF RunRevert, UpdateRow, LiveStatus
  <2>4. RequestsOK'
    BY <1>30, Members, RequestStep DEF RunRevert, Request
  <2> QED BY <1>30, <2>2, <2>4, TypeFrame DEF TypeOK, RunRevert
<1>31. ASSUME NEW r \in Requests, RunFailExecution(r) PROVE TypeOK'
  <2>1. execs' \in Seq(Execution) /\ DOMAIN execs \subseteq DOMAIN execs'
    BY <1>31, StatusUpdates DEF TypeOK, RequestsOK, RunFailExecution
  <2>2. DOMAIN execs \subseteq DOMAIN execs'
    BY <2>1
  <2>3. RequestsOK'
    BY <1>31, <2>2, IdleTypes, RequestStep DEF RunFailExecution, DoneRequest, NewRequest
  <2> QED BY <1>31, <2>1, <2>3, TypeFrame DEF TypeOK, RunFailExecution
<1>32. ASSUME NEW r \in Requests, UpdateReadJob(r) PROVE TypeOK'
  <2>1. PICK j \in Jobs :
         \E row \in Edits(jobs[j]) :
           requests' = [requests EXCEPT ![r] = [requests[r] EXCEPT !.pc = "write", !.job = j,
                                                    !.row = row]]
    BY <1>32 DEF Holding, UpdateReadJob
  <2>2. PICK row \in Edits(jobs[j]) :
           requests' = [requests EXCEPT ![r] = [requests[r] EXCEPT !.pc = "write", !.job = j,
                                                                   !.row = row]]
    BY <2>1
  <2>3. jobs[j] \in Row /\ Recurrence \subseteq BOOLEAN
    BY Members
  <2>4. row \in Row
    <3>1. CASE row \in {[jobs[j] EXCEPT !.status = s] : s \in {"scheduled", "paused"}}
      BY <2>3, <3>1, RowEdits, Zenon
    <3>2. CASE row \in {[jobs[j] EXCEPT !.recurring = b, !.due = FALSE] : b \in Recurrence}
      BY <2>3, <3>2, RowEdits, Zenon
    <3> QED BY <3>1, <3>2, Zenon DEF Edits
  <2>5. DOMAIN execs \subseteq DOMAIN execs'
    BY <1>32 DEF UpdateReadJob
  <2>6. RequestsOK'
    <3> DEFINE q == [requests[r] EXCEPT !.pc = "write", !.job = j, !.row = row]
    <3>1. requests[r] \in Request
      BY Members
    <3>2. q \in Request /\ q.pc = "write" /\ q.job = j
      BY <2>4, <3>1 DEF Request
    <3>3. requests' = [requests EXCEPT ![r] = q]
      BY <2>2
    <3> HIDE DEF q
    <3> QED BY <2>5, <3>2, <3>3, RequestStep
  <2> QED BY <1>32, <2>6, TypeFrame DEF TypeOK, UpdateReadJob
<1>33. ASSUME NEW r \in Requests, UpdateWriteJob(r) PROVE TypeOK'
  <2>1. requests[r].job \in Jobs /\ requests[r].row \in Row
    BY <1>33 DEF TypeOK, RequestsOK, Request, UpdateWriteJob
  <2>2. [requests[r].row EXCEPT !.status = requests[r].row.status, !.cooled = FALSE] \in Row
    BY <2>1 DEF Row
  <2>3. jobs' \in [Jobs -> Row]
    BY <1>33, <2>1, <2>2, RowUpdates DEF UpdateWriteJob, UpdateRow
  <2>5. RequestsOK'
    BY <1>33, IdleTypes, RequestStep DEF UpdateWriteJob, DoneRequest, NewRequest
  <2> QED BY <1>33, <2>3, <2>5, TypeFrame DEF TypeOK, UpdateWriteJob
<1>34. ASSUME NEW j \in Jobs, Time(j) PROVE TypeOK'
  <2>1. CASE LockAges(j)
    BY <2>1, RowEdits, TypeFrame DEF LockAges, TypeOK
  <2>2. CASE BecomesDue(j)
    BY <2>2, RowEdits, TypeFrame DEF BecomesDue, TypeOK
  <2>3. CASE Cools(j)
    BY <2>3, RowEdits, TypeFrame DEF Cools, TypeOK
  <2> QED BY <1>34, <2>1, <2>2, <2>3 DEF Time
<1>35. ASSUME NEW r \in Requests, RunUpdateFails(r) PROVE TypeOK'
  <2>1. PICK pc \in {"produce", "fail"} : requests' = [requests EXCEPT ![r].pc = pc]
    BY <1>35 DEF RunUpdateFails
  <2>2. requests[r].job \in Jobs /\ requests[r].exec \in DOMAIN execs
    BY <1>35, Members DEF RunUpdateFails
  <2>3. RequestsOK'
    BY <1>35, <2>1, <2>2, Members, RequestStep DEF RunUpdateFails, Request
  <2> QED BY <1>35, <2>3, TypeFrame DEF TypeOK, RunUpdateFails, Fault
<1>36. ASSUME NEW r \in Requests, ClientLeaves(r) PROVE TypeOK'
  <2>1. RequestsOK'
    <3>1. CASE requests[r].pc \in {"insert", "write"}
      BY <1>36, <3>1, IdleTypes, RequestStep DEF ClientLeaves, DoneRequest, NewRequest
    <3>2. CASE requests[r].pc \in {"pend", "produce", "revert", "fail"}
      <4>1. requests[r].job \in Jobs /\ requests[r].exec \in DOMAIN execs
        BY <3>2, Members
      <4> QED BY <1>36, <3>2, <4>1, Members, RequestStep DEF ClientLeaves, Request
    <3> QED BY <1>36, <3>1, <3>2, Members DEF ClientLeaves, Request
  <2> QED BY <1>36, <2>1, TypeFrame DEF TypeOK, ClientLeaves, Fault
<1>37. CASE UNCHANGED vars
  BY <1>37 DEF TypeOK, SchedulersOK, ConsumersOK, RequestsOK, vars
<1> QED
  BY <1>1, <1>2, <1>3, <1>4, <1>5, <1>6, <1>7, <1>8, <1>9, <1>10, <1>11, <1>12, <1>13, <1>14,
     <1>15, <1>16, <1>17, <1>18, <1>19, <1>20, <1>21, <1>22, <1>23, <1>24, <1>25, <1>26, <1>27,
     <1>28, <1>29, <1>30, <1>31, <1>32, <1>33, <1>34, <1>35, <1>36, <1>37 DEF Next, Tick, Queueing, Consume,
     Handle, RunJobNow, UpdateJob

\* The type invariant holds for every set of jobs, workers and requests, every
\* fault and every bound: no handler of the scheduler, the consumer or the
\* gateway leaves a row, a message or its own memory ill-formed.
THEOREM TypeCorrect == Spec => []TypeOK
BY TypeInit, TypeStep, PTL DEF Spec

-----------------------------------------------------------------------------
\* What makes attempt n of job j legitimate.
Justified(j, n) ==
    \/ n <= 1
    \/ /\ n <= MaxRetries[j]
       /\ \E f \in DOMAIN execs : execs[f].job = j /\ execs[f].attempt = n - 1

\* The strengthening: a listed retry is as legitimate as an inserted one.
AttemptInv ==
    /\ AttemptsBounded
    /\ RetryChain
    /\ \A w \in Workers : \A t \in sched[w].todo : Justified(t.job, t.attempt)
    /\ \A w \in Workers : sched[w].pc = "insert" => Justified(sched[w].job, sched[w].attempt)

\* A step that leaves the history of executions alone.
KeepsExecs ==
    /\ DOMAIN execs' = DOMAIN execs
    /\ \A e \in DOMAIN execs : /\ execs'[e].job = execs[e].job
                               /\ execs'[e].attempt = execs[e].attempt

\* A step that gives no scheduler a new task.
KeepsTasks ==
    \A w \in Workers :
        /\ sched'[w].todo \subseteq sched[w].todo
        /\ sched'[w].pc = "insert" => /\ sched[w].pc = "insert"
                                      /\ sched'[w].job = sched[w].job
                                      /\ sched'[w].attempt = sched[w].attempt

\* Only the two INSERTs (queueJob's and runJobNow's) change the history of
\* executions: their order, their jobs and their attempts.
LEMMA ExecsKept ==
    ASSUME TypeOK, [Next]_vars,
           \A w \in Workers : ~ InsertExecution(w), \A r \in Requests : ~ RunInsert(r)
    PROVE  KeepsExecs
<1>1. ASSUME NEW w \in Workers, FailExecution(w) PROVE KeepsExecs
  BY <1>1, StatusUpdates, Members DEF FailExecution, KeepsExecs
<1>2. ASSUME NEW w \in Workers, StartExecution(w) PROVE KeepsExecs
  BY <1>2, StatusUpdates, Members DEF StartExecution, KeepsExecs
<1>3. ASSUME NEW w \in Workers, RecordExecution(w) PROVE KeepsExecs
  <2>1. PICK o \in Outcomes(w) : execs' = WithStatus(cons[w].exec, o)
    BY <1>3 DEF RecordExecution
  <2>2. o \in {"completed", "failed"} /\ cons[w].exec \in DOMAIN execs
    BY <1>3, Members DEF RecordExecution, Outcomes, Consumer
  <2> QED BY <2>1, <2>2, StatusUpdates, Members DEF KeepsExecs
<1>4. ASSUME NEW r \in Requests, RunFailExecution(r) PROVE KeepsExecs
  BY <1>4, StatusUpdates, Members DEF RunFailExecution, KeepsExecs
<1>5. ASSUME NEW r \in Requests, DeleteJob(r) PROVE KeepsExecs
  <2>1. \A e \in DOMAIN execs : execs[e] \in Execution
    BY Members
  <2>2. PICK j \in Jobs :
           execs' = [e \in DOMAIN execs |-> IF execs[e].job = j
                                            THEN [execs[e] EXCEPT !.status = "deleted"]
                                            ELSE execs[e]]
    BY <1>5 DEF DeleteJob
  <2> QED BY <2>1, <2>2, Zenon DEF KeepsExecs, Execution
<1>6. CASE UNCHANGED execs
  BY <1>6 DEF KeepsExecs
<1> QED
  BY <1>1, <1>2, <1>3, <1>4, <1>5, <1>6 DEF Next, Tick, Queueing, Consume, Handle, RunJobNow,
     UpdateJob, Time, vars, ReleaseStaleJobs, SelectDueJobs, SelectFailedJobs, EndTick, LockJob,
     LoseJob, InsertFails, ProduceExecution, ProduceFails, UnlockFailedJob, ReceiveExecution,
     StartJob, Execute, ReadSchedule, FinishJob, Crash, CreateJob, RunReadJob, RunRefused,
     RunInsertFails, RunPend, RunProduce, RunProduceFails, RunRevert, RunUpdateFails,
     ClientLeaves, UpdateReadJob, UpdateWriteJob, LockAges, BecomesDue, Cools

\* Only the two queries and LockJob give a scheduler a task.
LEMMA TasksKept ==
    ASSUME TypeOK, [Next]_vars,
           \A w \in Workers : /\ ~ SelectDueJobs(w)
                              /\ ~ SelectFailedJobs(w)
                              /\ ~ LockJob(w)
    PROVE  KeepsTasks
<1>1. ASSUME NEW w \in Workers, ReleaseStaleJobs(w) PROVE KeepsTasks
  BY <1>1 DEF ReleaseStaleJobs, KeepsTasks
<1>2. ASSUME NEW w \in Workers, EndTick(w) PROVE KeepsTasks
  BY <1>2 DEF EndTick, IdleScheduler, KeepsTasks
<1>3. ASSUME NEW w \in Workers, LoseJob(w) PROVE KeepsTasks
  BY <1>3 DEF LoseJob, KeepsTasks
<1>4. ASSUME NEW w \in Workers, InsertExecution(w) PROVE KeepsTasks
  BY <1>4 DEF InsertExecution, KeepsTasks
<1>5. ASSUME NEW w \in Workers, sched' = NextTask(w) PROVE KeepsTasks
  BY <1>5 DEF NextTask, KeepsTasks
<1>6. ASSUME NEW w \in Workers, ProduceFails(w) PROVE KeepsTasks
  BY <1>6 DEF ProduceFails, KeepsTasks
<1>7. ASSUME NEW w \in Workers, FailExecution(w) PROVE KeepsTasks
  BY <1>7 DEF FailExecution, KeepsTasks
<1>8. ASSUME NEW w \in Workers, Crash(w) PROVE KeepsTasks
  BY <1>8 DEF Crash, IdleScheduler, KeepsTasks
<1>9. CASE UNCHANGED sched
  BY <1>9 DEF KeepsTasks
<1> QED
  BY <1>1, <1>2, <1>3, <1>4, <1>5, <1>6, <1>7, <1>8, <1>9 DEF Next, Tick, Queueing, Consume,
     Handle, RunJobNow, UpdateJob, Time, vars, InsertFails, ProduceExecution, UnlockFailedJob,
     ReceiveExecution, StartJob, StartExecution, Execute, RecordExecution, ReadSchedule,
     FinishJob, CreateJob, DeleteJob, RunReadJob, RunRefused, RunInsert, RunInsertFails,
     RunPend, RunProduce, RunProduceFails, RunRevert, RunFailExecution, RunUpdateFails,
     ClientLeaves, UpdateReadJob, UpdateWriteJob, LockAges, BecomesDue, Cools

\* No execution and no task to justify.
LEMMA AttemptInit == Init => AttemptInv
BY DEF Init, AttemptInv, AttemptsBounded, RetryChain, IdleScheduler

\* Justification survives a step that keeps or extends the executions.
LEMMA JustifiedKept ==
    ASSUME NEW j \in Jobs, NEW n \in Nat, Justified(j, n),
           DOMAIN execs \subseteq DOMAIN execs',
           \A e \in DOMAIN execs : /\ execs'[e].job = execs[e].job
                                   /\ execs'[e].attempt = execs[e].attempt
    PROVE  Justified(j, n)'
BY DEF Justified

\* An appended execution that is justified keeps both properties of the table.
LEMMA AttemptAppend ==
    ASSUME TypeOK, AttemptInv, NEW j \in Jobs, NEW n \in Nat, Justified(j, n),
           execs' = Append(execs, Pending(j, n))
    PROVE  /\ AttemptsBounded'
           /\ RetryChain'
           /\ \A i \in Jobs, m \in Nat : Justified(i, m) => Justified(i, m)'
<1>1. /\ Len(execs) \in Nat
      /\ DOMAIN execs = 1 .. Len(execs)
      /\ DOMAIN execs' = 1 .. Len(execs) + 1
      /\ execs'[Len(execs) + 1] = [job |-> j, attempt |-> n, status |-> "pending"]
      /\ \A f \in DOMAIN execs : execs'[f] = execs[f]
  BY DEF Pending
<1>3. AttemptsBounded'
  BY <1>1 DEF AttemptInv, AttemptsBounded, Justified
<1>4. RetryChain'
  <2> SUFFICES ASSUME NEW e \in DOMAIN execs', execs'[e].attempt > 1
               PROVE  \E f \in 1 .. e - 1 : /\ execs'[f].job = execs'[e].job
                                            /\ execs'[f].attempt = execs'[e].attempt - 1
    BY DEF RetryChain
  <2>1. CASE e \in DOMAIN execs
    <3>1. PICK f \in 1 .. e - 1 : /\ execs[f].job = execs[e].job
                                  /\ execs[f].attempt = execs[e].attempt - 1
      BY <2>1 DEF AttemptInv, RetryChain
    <3> QED BY <2>1, <3>1
  <2>2. CASE e = Len(execs) + 1
    <3>1. PICK f \in DOMAIN execs : execs[f].job = j /\ execs[f].attempt = n - 1
      BY <1>1, <2>2 DEF Justified
    <3> QED BY <1>1, <2>2, <3>1
  <2> QED BY <2>1, <2>2
<1>5. \A i \in Jobs, m \in Nat : Justified(i, m) => Justified(i, m)'
  BY DEF Justified
<1> QED BY <1>3, <1>4, <1>5

\* Every step keeps the strengthened invariant: the queries, queueJob's UPDATE
\* and the two INSERTs by themselves, every other step by ExecsKept and
\* TasksKept.
LEMMA AttemptStep ==
    ASSUME TypeOK, AttemptInv, [Next]_vars
    PROVE  AttemptInv'
<1>0. /\ \A w \in Workers : \A t \in sched[w].todo : t.job \in Jobs /\ t.attempt \in Nat
      /\ \A w \in Workers : sched[w].pc = "insert" =>
                              sched[w].job \in Jobs /\ sched[w].attempt \in Nat
      /\ sched \in [Workers -> Scheduler] /\ requests \in [Requests -> Request]
      /\ DOMAIN execs = 1 .. Len(execs) /\ Len(execs) \in Nat
  BY DEF Scheduler, Task, TypeOK, SchedulersOK, RequestsOK
<1>1. ASSUME KeepsExecs
      PROVE  /\ AttemptsBounded' /\ RetryChain'
             /\ \A i \in Jobs, m \in Nat : Justified(i, m) => Justified(i, m)'
  <2>1. AttemptsBounded'
    BY <1>1 DEF AttemptInv, AttemptsBounded, KeepsExecs
  <2>2. \A e \in DOMAIN execs : \A f \in 1 .. e - 1 : f \in DOMAIN execs
    BY <1>0
  <2>3. RetryChain'
    BY <1>1, <2>2 DEF AttemptInv, RetryChain, KeepsExecs
  <2>4. \A i \in Jobs, m \in Nat : Justified(i, m) => Justified(i, m)'
    BY <1>1, JustifiedKept DEF KeepsExecs
  <2> QED BY <2>1, <2>3, <2>4
<1>2. ASSUME KeepsTasks, \A i \in Jobs, m \in Nat : Justified(i, m) => Justified(i, m)'
      PROVE  /\ \A w \in Workers : \A t \in sched'[w].todo : Justified(t.job, t.attempt)'
             /\ \A w \in Workers : sched'[w].pc = "insert" =>
                                     Justified(sched[w].job, sched[w].attempt)'
  BY <1>0, <1>2 DEF AttemptInv, KeepsTasks
<1>3. ASSUME NEW w \in Workers, InsertExecution(w) PROVE AttemptInv'
  <2>1. Justified(sched[w].job, sched[w].attempt)
    BY <1>3 DEF InsertExecution, AttemptInv
  <2>2. /\ AttemptsBounded' /\ RetryChain'
        /\ \A i \in Jobs, m \in Nat : Justified(i, m) => Justified(i, m)'
    BY <1>0, <1>3, <2>1, AttemptAppend DEF InsertExecution
  <2>3. KeepsTasks
    BY <1>3 DEF InsertExecution, KeepsTasks
  <2> QED BY <1>2, <2>2, <2>3 DEF AttemptInv
<1>4. ASSUME NEW r \in Requests, RunInsert(r) PROVE AttemptInv'
  <2>1. Justified(requests[r].job, 1) /\ requests[r].job \in Jobs
    BY <1>4, Members DEF Justified, RunInsert
  <2>2. /\ AttemptsBounded' /\ RetryChain'
        /\ \A i \in Jobs, m \in Nat : Justified(i, m) => Justified(i, m)'
    BY <1>4, <2>1, AttemptAppend DEF RunInsert
  <2>3. KeepsTasks
    BY <1>4 DEF RunInsert, KeepsTasks
  <2> QED BY <1>2, <2>2, <2>3 DEF AttemptInv
<1>5. ASSUME NEW w \in Workers, SelectDueJobs(w) PROVE AttemptInv'
  <2>1. KeepsExecs
    BY <1>5 DEF SelectDueJobs, KeepsExecs
  <2>2. PICK S \in SUBSET Jobs :
           sched' = [sched EXCEPT ![w] = [@ EXCEPT !.pc = "queue", !.phase = "due",
                                                   !.todo = [job : S, attempt : {1}]]]
    BY <1>5 DEF SelectDueJobs, Selections, DueJobs
  <2>3. \A v \in Workers : \A t \in sched'[v].todo :
           t \in sched[v].todo \/ (t.job \in Jobs /\ t.attempt = 1)
    BY <2>2
  <2>4. \A v \in Workers : sched'[v].pc = "insert" => sched'[v] = sched[v]
    BY <2>2
  <2>5. \A v \in Workers : \A t \in sched'[v].todo : Justified(t.job, t.attempt)'
    BY <1>0, <1>1, <2>1, <2>3 DEF AttemptInv, Justified
  <2> QED BY <1>0, <1>1, <2>1, <2>4, <2>5 DEF AttemptInv
<1>6. ASSUME NEW w \in Workers, SelectFailedJobs(w) PROVE AttemptInv'
  <2>1. KeepsExecs
    BY <1>6 DEF SelectFailedJobs, KeepsExecs
  <2>2. PICK S \in SUBSET RetryJobs :
           sched' = [sched EXCEPT ![w] = [@ EXCEPT !.phase = "retry", !.todo = Retries(S)]]
    BY <1>6 DEF SelectFailedJobs, Selections
  <2>3. \A v \in Workers : \A t \in sched'[v].todo :
           t \in sched[v].todo \/ (\E j \in RetryJobs : t = [job |-> j, attempt |-> LastAttempt(j) + 1])
    BY <2>2 DEF Retries
  <2>4. \A v \in Workers : sched'[v].pc = "insert" => sched'[v] = sched[v]
    BY <1>6 DEF SelectFailedJobs
  <2>5. ASSUME NEW j \in RetryJobs
        PROVE  /\ j \in Jobs /\ LastAttempt(j) + 1 \in Nat
               /\ Justified(j, LastAttempt(j) + 1)
    <3>1. j \in Jobs /\ LastAttempt(j) \in Nat /\ MaxRetries[j] \in Nat
      BY Members, LastAttemptType, ConstantsAssumption DEF RetryJobs
    <3>2. LastAttempt(j) + 1 <= MaxRetries[j]
      BY <3>1 DEF RetryJobs
    <3>3. CASE ExecsOf(j) = {}
      BY <3>1, <3>3 DEF LastAttempt, Justified
    <3>4. CASE ExecsOf(j) # {}
      <4>1. Latest(j) \in DOMAIN execs /\ execs[Latest(j)].job = j
            /\ execs[Latest(j)].attempt = LastAttempt(j)
        BY <3>1, <3>4, Members, NewestExecution DEF ExecsOf
      <4> QED BY <3>1, <3>2, <4>1 DEF Justified
    <3> QED BY <3>3, <3>4
  <2>6. \A v \in Workers : \A t \in sched'[v].todo : Justified(t.job, t.attempt)'
    BY <1>0, <1>1, <2>1, <2>3, <2>5 DEF AttemptInv
  <2> QED BY <1>0, <1>1, <2>1, <2>4, <2>6 DEF AttemptInv
<1>7. ASSUME NEW w \in Workers, LockJob(w) PROVE AttemptInv'
  <2>1. KeepsExecs
    BY <1>7 DEF LockJob, KeepsExecs
  <2>2. PICK t \in sched[w].todo :
           sched' = [sched EXCEPT ![w] =
                       [@ EXCEPT !.pc = "insert", !.job = t.job, !.attempt = t.attempt,
                                 !.todo = sched[w].todo \ {t}]]
    BY <1>7 DEF LockJob
  <2>3. \A v \in Workers : sched'[v].todo \subseteq sched[v].todo
    BY <2>2
  <2>4. \A v \in Workers : sched'[v].pc = "insert" =>
           \/ sched'[v] = sched[v]
           \/ v = w /\ sched'[v].job = t.job /\ sched'[v].attempt = t.attempt
    BY <2>2
  <2>5. \A v \in Workers : \A u \in sched'[v].todo : Justified(u.job, u.attempt)'
    BY <1>0, <1>1, <2>1, <2>3 DEF AttemptInv
  <2> QED BY <1>0, <1>1, <2>1, <2>4, <2>5 DEF AttemptInv
<1> QED
  BY <1>1, <1>2, <1>3, <1>4, <1>5, <1>6, <1>7, ExecsKept, TasksKept DEF AttemptInv

\* retryFailedJobs never runs a job beyond its max_retries and never skips an
\* attempt, for any number of workers, crashes, stale releases and lost
\* messages: the list in a worker's memory may be old, but the history it was
\* computed from only grows.
THEOREM AttemptsCorrect == Spec => [](AttemptsBounded /\ RetryChain)
<1>1. Init => TypeOK /\ AttemptInv
  BY TypeInit, AttemptInit
<1>2. TypeOK /\ AttemptInv /\ [Next]_vars => (TypeOK /\ AttemptInv)'
  BY TypeStep, AttemptStep
<1>3. TypeOK /\ AttemptInv => AttemptsBounded /\ RetryChain
  BY DEF AttemptInv
<1> QED BY <1>1, <1>2, <1>3, PTL DEF Spec

-----------------------------------------------------------------------------
(* Who has a job in hand. *)

\* Nothing takes a lock away from its holder: no stale release, no crash, no
\* lost answer of the broker, no gateway request.
Undisturbed == Requests = {} /\ Faults \cap {"age", "crash", "ambiguous"} = {}

\* The strengthening of SingleFlight.
FlightInv ==
    /\ SingleFlight
    /\ \A j \in Jobs : ~ jobs[j].stale /\ (jobs[j].status = "none" => ~ Locked(j))
    /\ \A w \in Workers : sched[w].pc \in {"produce", "fail"}
                            => execs[sched[w].exec].job = sched[w].job

\* Who has which job, and whether it is locked, stays as it is.
SameHolders ==
    /\ \A w \in Workers : sched'[w].job = sched[w].job
    /\ \A w \in Workers : /\ cons'[w].exec = cons[w].exec
                          /\ cons'[w].pc = "idle" <=> cons[w].pc = "idle"
    /\ topic' = topic
    /\ \A e \in DOMAIN execs : execs'[e].job = execs[e].job
    /\ \A j \in Jobs : jobs'[j].lock = jobs[j].lock

\* A step that leaves the holders alone keeps SingleFlight.
LEMMA FlightFrame ==
    ASSUME TypeOK, SingleFlight, SameHolders
    PROVE  SingleFlight'
<1>1. \A w \in Workers, j \in Jobs : Queues(w, j)' <=> Queues(w, j)
  BY DEF SameHolders, Queues
<1>2. \A w \in Workers, j \in Jobs : Works(w, j)' <=> Works(w, j)
  BY Members DEF SameHolders, Works, JobOf
<1>3. \A e \in topic, j \in Jobs : Waits(e, j)' <=> Waits(e, j)
  BY Members DEF SameHolders, Waits
<1>4. \A j \in Jobs : Locked(j)' <=> Locked(j)
  BY DEF SameHolders, Locked
<1>5. topic' = topic
  BY DEF SameHolders
<1> QED BY <1>1, <1>2, <1>3, <1>4, <1>5 DEF SingleFlight

\* No worker and no message has job j.
Free(j) == /\ \A w \in Workers : ~ Queues(w, j) /\ ~ Works(w, j)
           /\ \A e \in topic : ~ Waits(e, j)

\* An unlocked job is in nobody's hands: what queueJob's "AND locked_by IS NULL"
\* relies on.
LEMMA UnlockedIsFree ==
    ASSUME SingleFlight, NEW j \in Jobs, ~ Locked(j)
    PROVE  Free(j)
BY DEF SingleFlight, Free

\* The holder that lets go of its job leaves it free.
LEMMA SoleHolder ==
    ASSUME SingleFlight, NEW j \in Jobs, NEW w \in Workers
    PROVE  /\ Queues(w, j) => /\ \A v \in Workers : v # w => ~ Queues(v, j)
                              /\ \A v \in Workers : ~ Works(v, j)
                              /\ \A e \in topic : ~ Waits(e, j)
           /\ Works(w, j) => /\ \A v \in Workers : v # w => ~ Works(v, j)
                             /\ \A v \in Workers : ~ Queues(v, j)
                             /\ \A e \in topic : ~ Waits(e, j)
BY DEF SingleFlight

\* A holder that lets go of job j, whatever happens to the row of j.
LEMMA LetGo ==
    ASSUME SingleFlight, NEW j \in Jobs, NEW w \in Workers,
           Queues(w, j) \/ Works(w, j),
           ~ Queues(w, j)', ~ Works(w, j)', topic' = topic,
           \A v \in Workers, i \in Jobs : /\ Queues(v, i)' => Queues(v, i)
                                          /\ Works(v, i)' => Works(v, i),
           \A e \in topic, i \in Jobs : Waits(e, i)' => Waits(e, i),
           \A i \in Jobs : i # j => (Locked(i) => Locked(i)')
    PROVE  SingleFlight'
<1> QED BY DEF SingleFlight

\* Initially nobody has a job.
LEMMA FlightInit == Init => FlightInv
<1> SUFFICES ASSUME Init PROVE FlightInv
  OBVIOUS
<1>1. /\ \A w \in Workers, j \in Jobs : ~ Queues(w, j) /\ ~ Works(w, j)
      /\ topic = {}
  BY ConstantsAssumption DEF Init, Queues, Works, IdleScheduler, IdleConsumer
<1>2. SingleFlight
  BY <1>1 DEF SingleFlight
<1>3. \A j \in Jobs : ~ jobs[j].stale /\ ~ Locked(j)
  BY DEF Init, NoRow, Locked
<1>4. \A w \in Workers : sched[w].pc = "release"
  BY DEF Init, IdleScheduler
<1> QED BY <1>2, <1>3, <1>4 DEF FlightInv

\* Every step keeps the strengthened invariant.
LEMMA FlightStep ==
    ASSUME Undisturbed, TypeOK, FlightInv, [Next]_vars
    PROVE  FlightInv'
<1>0. /\ SingleFlight
      /\ \A j \in Jobs : ~ jobs[j].stale /\ (jobs[j].status = "none" => ~ Locked(j))
      /\ \A w \in Workers : sched[w].pc \in {"produce", "fail"}
                              => execs[sched[w].exec].job = sched[w].job
      /\ jobs \in [Jobs -> Row] /\ sched \in [Workers -> Scheduler]
      /\ cons \in [Workers -> Consumer]
  BY DEF FlightInv, TypeOK, SchedulersOK, ConsumersOK
<1>1. ASSUME NEW w \in Workers, ReleaseStaleJobs(w) PROVE FlightInv'
  <2>1. jobs' = jobs
    BY <1>0, <1>1 DEF ReleaseStaleJobs
  <2>3. SameHolders
    BY <1>1, <2>1 DEF ReleaseStaleJobs, SameHolders
  <2> QED BY <1>1, <2>3, FlightFrame DEF FlightInv, Locked, ReleaseStaleJobs
<1>2. ASSUME NEW w \in Workers, SelectDueJobs(w) \/ SelectFailedJobs(w) \/ EndTick(w) \/ LoseJob(w)
      PROVE FlightInv'
  <2>2. \A v \in Workers : \/ sched'[v] = sched[v]
                           \/ /\ sched'[v].job = sched[v].job
                              /\ sched'[v].pc \notin {"produce", "fail"}
    <3>1. CASE SelectDueJobs(w)
      BY <3>1 DEF SelectDueJobs
    <3>2. CASE SelectFailedJobs(w)
      BY <3>2 DEF SelectFailedJobs
    <3>3. CASE EndTick(w)
      <4>1. sched[w].job = NoJob
        BY <3>3, Members DEF EndTick, Scheduler
      <4> QED BY <3>3, <4>1 DEF EndTick, IdleScheduler
    <3>4. CASE LoseJob(w)
      BY <3>4 DEF LoseJob
    <3> QED BY <1>2, <3>1, <3>2, <3>3, <3>4
  <2>3. SameHolders
    BY <1>2, <2>2 DEF SelectDueJobs, SelectFailedJobs, EndTick, LoseJob, SameHolders
  <2> QED BY <1>2, <2>2, <2>3, FlightFrame DEF FlightInv, Locked, SelectDueJobs,
     SelectFailedJobs, EndTick, LoseJob
<1>3. ASSUME NEW w \in Workers, LockJob(w) PROVE FlightInv'
  <2>1. PICK t \in sched[w].todo :
           /\ ~ Locked(t.job) /\ jobs[t.job].status # "none"
           /\ jobs' = [jobs EXCEPT ![t.job] = LockedRow(jobs[t.job], w)]
           /\ sched' = [sched EXCEPT ![w] =
                          [@ EXCEPT !.pc = "insert", !.job = t.job, !.attempt = t.attempt,
                                    !.todo = sched[w].todo \ {t}]]
    BY <1>3 DEF LockJob, Lockable, Exists, LiveStatus
  <2>2. t.job \in Jobs /\ sched[w].job \notin Jobs
    BY <1>3, Members DEF LockJob, Scheduler, Task
  <2>3. Free(t.job)
    BY <1>0, <2>1, <2>2, UnlockedIsFree
  <2>4. \A v \in Workers : IF v = w THEN sched'[v].job = t.job /\ sched'[v].pc = "insert"
                                    ELSE sched'[v] = sched[v]
    BY <1>0, <2>1
  <2>5. \A j \in Jobs : IF j = t.job
                        THEN jobs'[j].lock = w /\ ~ jobs'[j].stale /\ jobs'[j].status = "pending"
                        ELSE jobs'[j] = jobs[j]
    BY <1>0, <2>1 DEF LockedRow
  <2>6. UNCHANGED <<execs, topic, cons>>
    BY <1>3 DEF LockJob
  <2>7. SingleFlight'
    <3>1. \A v \in Workers, j \in Jobs : /\ Queues(v, j)' <=> (v = w /\ j = t.job) \/ (v # w /\ Queues(v, j))
                                         /\ Works(v, j)' <=> Works(v, j)
      BY <2>4, <2>6 DEF Queues, Works, JobOf
    <3>2. \A e \in topic, j \in Jobs : Waits(e, j)' <=> Waits(e, j)
      BY <2>6 DEF Waits
    <3>3. \A j \in Jobs : Locked(j)' <=> Locked(j) \/ j = t.job
      BY <2>5, ConstantsAssumption DEF Locked
    <3> QED BY <1>0, <2>3, <2>6, <3>1, <3>2, <3>3 DEF SingleFlight, Free
  <2> QED BY <2>4, <2>5, <2>6, <2>7 DEF FlightInv, Locked
<1>4. ASSUME NEW w \in Workers, InsertExecution(w) PROVE FlightInv'
  <2>2. /\ \A e \in DOMAIN execs : execs'[e] = execs[e]
        /\ execs'[Len(execs) + 1].job = sched[w].job
    BY <1>4 DEF InsertExecution, Pending
  <2>4. SameHolders
    BY <1>4 DEF InsertExecution, SameHolders
  <2> QED BY <1>4, <2>2, <2>4, FlightFrame, Members DEF FlightInv, Locked, InsertExecution
<1>5. ASSUME NEW w \in Workers, InsertFails(w) \/ UnlockFailedJob(w) PROVE FlightInv'
  <2>0. PICK j \in Jobs : j = sched[w].job
    BY <1>5, Members DEF InsertFails, UnlockFailedJob
  <2>1. /\ j \in Jobs /\ Queues(w, j)
        /\ sched' = NextTask(w)
        /\ \E s \in {"scheduled", "failed"} : jobs' = WithRow(j, [Unlocked(jobs[j]) EXCEPT !.status = s])
        /\ UNCHANGED <<execs, topic, cons>>
    BY <1>5, <2>0 DEF InsertFails, UnlockFailedJob, Queues
  <2>2. \A v \in Workers : IF v = w THEN sched'[v].job = NoJob /\ sched'[v].pc = "queue"
                                    ELSE sched'[v] = sched[v]
    BY <1>0, <2>1 DEF NextTask
  <2>3. jobs' \in [Jobs -> Row] /\ \A i \in Jobs : i # j => jobs'[i] = jobs[i]
    BY <2>1, TypeStep DEF TypeOK, WithRow
  <2>4. ~ jobs'[j].stale /\ (jobs'[j].status = "none" => jobs'[j].lock = NoWorker)
    <3>1. PICK s \in {"scheduled", "failed"} :
             jobs' = WithRow(j, [Unlocked(jobs[j]) EXCEPT !.status = s])
      BY <2>1
    <3> QED BY <1>0, <3>1 DEF WithRow, Unlocked, Locked
  <2>5. SingleFlight'
    <3>1. \A v \in Workers, i \in Jobs : /\ Queues(v, i)' <=> (v # w /\ Queues(v, i))
                                         /\ Works(v, i)' <=> Works(v, i)
      BY <2>1, <2>2, ConstantsAssumption DEF Queues, Works, JobOf
    <3>2. ~ Works(w, j)' /\ ~ Queues(w, j)'
      BY <1>0, <2>1, <3>1, SoleHolder, Zenon
    <3>3. \A e \in topic, i \in Jobs : Waits(e, i)' <=> Waits(e, i)
      BY <1>5 DEF Waits, InsertFails, UnlockFailedJob
    <3>4. \A i \in Jobs : i # j => (Locked(i) => Locked(i)')
      BY <2>3 DEF Locked
    <3> QED BY <1>0, <2>1, <3>1, <3>2, <3>3, <3>4, LetGo, Zenon
  <2> QED BY <2>1, <2>2, <2>3, <2>4, <2>5 DEF FlightInv, Locked
<1>6. ASSUME NEW w \in Workers, ProduceExecution(w) PROVE FlightInv'
  <2>0. PICK j \in Jobs, x \in DOMAIN execs : j = sched[w].job /\ x = sched[w].exec
    BY <1>6, Members DEF ProduceExecution
  <2>1. /\ j \in Jobs /\ Queues(w, j) /\ execs[x].job = j
        /\ topic' = topic \cup {x} /\ sched' = NextTask(w)
        /\ UNCHANGED <<jobs, execs, cons>>
    BY <1>0, <1>6, <2>0 DEF ProduceExecution, Queues
  <2>2. \A v \in Workers : IF v = w THEN sched'[v].job = NoJob /\ sched'[v].pc = "queue"
                                    ELSE sched'[v] = sched[v]
    BY <1>0, <2>1 DEF NextTask
  <2>3. \A v \in Workers, i \in Jobs : /\ Queues(v, i)' <=> (v # w /\ Queues(v, i))
                                       /\ Works(v, i)' <=> Works(v, i)
    BY <2>1, <2>2, ConstantsAssumption DEF Queues, Works, JobOf
  <2>4. \A e \in topic', i \in Jobs : Waits(e, i)' <=> (IF e = x THEN i = j ELSE Waits(e, i))
    BY <2>1 DEF Waits
  <2>5. \A i \in Jobs : Locked(i)' <=> Locked(i)
    BY <2>1 DEF Locked
  <2>6. /\ \A v \in Workers : v # w => ~ Queues(v, j)
        /\ \A v \in Workers : ~ Works(v, j)
        /\ \A e \in topic : ~ Waits(e, j)
        /\ Locked(j)
    BY <1>0, <2>1 DEF SingleFlight
  <2>7. SingleFlight'
    <3>1. \A i \in Jobs : i # j =>
             \A e \in topic' : Waits(e, i)' => e \in topic /\ Waits(e, i)
      BY <2>1, <2>4
    <3>2. \A e \in topic' : Waits(e, j)' => e = x
      BY <2>1, <2>4, <2>6
    <3> QED BY <1>0, <2>3, <2>5, <2>6, <3>1, <3>2 DEF SingleFlight
  <2> QED BY <2>1, <2>2, <2>5, <2>7 DEF FlightInv
<1>7. ASSUME NEW w \in Workers, ProduceFails(w) \/ FailExecution(w) PROVE FlightInv'
  <2>1. \A v \in Workers : /\ sched'[v].job = sched[v].job /\ sched'[v].exec = sched[v].exec
                           /\ sched'[v].pc \in {"produce", "fail"} =>
                                sched[v].pc \in {"produce", "fail"}
    BY <1>0, <1>7 DEF ProduceFails, FailExecution, Scheduler
  <2>2. /\ DOMAIN execs' = DOMAIN execs
        /\ \A e \in DOMAIN execs : execs'[e].job = execs[e].job
    BY <1>7, Members, StatusUpdates DEF ProduceFails, FailExecution
  <2>3. SameHolders
    BY <1>7, <2>1, <2>2 DEF ProduceFails, FailExecution, SameHolders, Undisturbed, Fault
  <2>4. jobs' = jobs
    BY <1>7 DEF ProduceFails, FailExecution
  <2>5. \A v \in Workers : sched[v].pc \in {"produce", "fail"} => sched[v].exec \in DOMAIN execs
    BY Members
  <2> QED BY <2>1, <2>2, <2>3, <2>4, <2>5, FlightFrame DEF FlightInv, Locked
<1>8. ASSUME NEW w \in Workers, ReceiveExecution(w) PROVE FlightInv'
  <2>1. PICK x \in topic :
           /\ topic' = topic \ {x}
           /\ cons' = [cons EXCEPT ![w] = [IdleConsumer EXCEPT !.pc = "startJob", !.exec = x]]
    BY <1>8 DEF ReceiveExecution
  <2>2. cons[w].pc = "idle" /\ UNCHANGED <<jobs, execs, sched>>
    BY <1>8 DEF ReceiveExecution
  <2>3. \A v \in Workers : IF v = w THEN cons'[v].pc = "startJob" /\ cons'[v].exec = x
                                    ELSE cons'[v] = cons[v]
    BY <1>0, <2>1
  <2>4. \A v \in Workers, i \in Jobs : /\ Queues(v, i)' <=> Queues(v, i)
                                       /\ Works(v, i)' <=> (IF v = w THEN Waits(x, i) ELSE Works(v, i))
    BY <2>2, <2>3 DEF Queues, Works, JobOf, Waits
  <2>5. \A e \in topic', i \in Jobs : Waits(e, i)' <=> e # x /\ Waits(e, i)
    BY <2>1, <2>2 DEF Waits
  <2>6. \A i \in Jobs : Locked(i)' <=> Locked(i)
    BY <2>2 DEF Locked
  <2>7. SingleFlight'
    BY <1>0, <2>1, <2>4, <2>5, <2>6 DEF SingleFlight
  <2> QED BY <2>2, <2>6, <2>7 DEF FlightInv
<1>9. ASSUME NEW w \in Workers,
             StartJob(w) \/ StartExecution(w) \/ Execute(w) \/ RecordExecution(w) \/ ReadSchedule(w)
      PROVE FlightInv'
  <2>1. \A v \in Workers : /\ cons'[v].exec = cons[v].exec
                           /\ cons'[v].pc = "idle" <=> cons[v].pc = "idle"
    <3>1. CASE StartJob(w) \/ StartExecution(w)
      BY <1>0, <3>1 DEF StartJob, StartExecution, Consumer
    <3>2. CASE Execute(w)
      BY <3>2 DEF Execute
    <3>3. CASE RecordExecution(w)
      BY <3>3 DEF RecordExecution
    <3>4. CASE ReadSchedule(w)
      BY <3>4 DEF ReadSchedule
    <3> QED BY <1>9, <3>1, <3>2, <3>3, <3>4
  <2>2. /\ DOMAIN execs' = DOMAIN execs
        /\ \A e \in DOMAIN execs : execs'[e].job = execs[e].job
    <3>2. CASE StartExecution(w)
      BY <3>2, Members, StatusUpdates DEF StartExecution
    <3>3. CASE RecordExecution(w)
      <4>1. PICK o \in Outcomes(w) : execs' = WithStatus(cons[w].exec, o)
        BY <3>3 DEF RecordExecution
      <4>2. o \in {"completed", "failed"} /\ cons[w].exec \in DOMAIN execs
        BY <3>3, Members DEF RecordExecution, Outcomes, Consumer
      <4> QED BY <4>1, <4>2, StatusUpdates, Members
    <3> QED BY <1>9, <3>2, <3>3 DEF StartJob, Execute, ReadSchedule
  <2>3. \A j \in Jobs : /\ jobs'[j].lock = jobs[j].lock
                        /\ jobs'[j].stale = jobs[j].stale
                        /\ jobs'[j].status = "none" => jobs[j].status = "none"
    <3>1. CASE StartJob(w)
      BY <3>1 DEF StartJob, WithRow
    <3> QED BY <1>9, <3>1 DEF StartExecution, Execute, RecordExecution, ReadSchedule
  <2>4. topic' = topic /\ sched' = sched
    BY <1>9 DEF StartJob, StartExecution, Execute, RecordExecution, ReadSchedule
  <2>5. SameHolders
    BY <2>1, <2>2, <2>3, <2>4 DEF SameHolders
  <2>6. \A v \in Workers : sched[v].pc \in {"produce", "fail"} => sched[v].exec \in DOMAIN execs
    BY Members
  <2> QED BY <2>2, <2>3, <2>4, <2>5, <2>6, FlightFrame DEF FlightInv, Locked
<1>10. ASSUME NEW w \in Workers, FinishJob(w) PROVE FlightInv'
  <2>0. PICK j \in Jobs : j = JobOf(w)
    BY <1>10, JobOfType DEF FinishJob
  <2>1. /\ j \in Jobs /\ Works(w, j)
        /\ jobs' = WithRow(j, Finished(jobs[j], cons[w].final))
        /\ cons' = [cons EXCEPT ![w] = [IdleConsumer EXCEPT !.exec = cons[w].exec]]
        /\ UNCHANGED <<execs, topic, sched>>
    BY <1>10, <2>0 DEF FinishJob, Works
  <2>2. \A v \in Workers : IF v = w THEN cons'[v].pc = "idle" ELSE cons'[v] = cons[v]
    BY <1>0, <2>1 DEF IdleConsumer
  <2>3. /\ \A i \in Jobs : i # j => jobs'[i] = jobs[i]
        /\ ~ jobs'[j].stale
        /\ jobs'[j].status = "none" => jobs'[j].lock = NoWorker
    BY <1>0, <2>1 DEF WithRow, Finished, Unlocked, Locked
  <2>4. SingleFlight'
    <3>1. \A v \in Workers, i \in Jobs : /\ Queues(v, i)' <=> Queues(v, i)
                                         /\ Works(v, i)' <=> (v # w /\ Works(v, i))
      BY <2>1, <2>2 DEF Queues, Works, JobOf
    <3>2. ~ Queues(w, j)' /\ ~ Works(w, j)'
      BY <1>0, <2>1, <3>1, SoleHolder, Zenon
    <3>3. \A e \in topic, i \in Jobs : Waits(e, i)' <=> Waits(e, i)
      BY <2>1 DEF Waits
    <3>4. \A i \in Jobs : i # j => (Locked(i) => Locked(i)')
      BY <2>3 DEF Locked
    <3> QED BY <1>0, <2>1, <3>1, <3>2, <3>3, <3>4, LetGo, Zenon
  <2> QED BY <2>1, <2>3, <2>4 DEF FlightInv, Locked
<1>11. ASSUME NEW j \in Jobs, CreateJob(j) \/ BecomesDue(j) \/ Cools(j) PROVE FlightInv'
  <2>1. \A i \in Jobs : /\ jobs'[i].lock = jobs[i].lock
                        /\ jobs'[i].stale = jobs[i].stale
                        /\ jobs'[i].status = "none" => jobs[i].status = "none"
    <3>1. CASE CreateJob(j)
      <4>1. PICK b \in Recurrence : jobs' = [jobs EXCEPT ![j] = NewRow(b)]
        BY <3>1 DEF CreateJob
      <4>2. NewRow(b).lock = NoWorker /\ NewRow(b).stale = FALSE /\ NewRow(b).status = "scheduled"
        BY DEF NewRow, NoRow
      <4>3. jobs[j].lock = NoWorker /\ jobs[j].stale = FALSE
        BY <1>0, <3>1 DEF CreateJob, Locked
      <4> QED BY <1>0, <4>1, <4>2, <4>3
    <3>2. CASE BecomesDue(j) \/ Cools(j)
      BY <1>0, <3>2 DEF BecomesDue, Cools, Row
    <3> QED BY <1>11, <3>1, <3>2
  <2>2. UNCHANGED <<execs, topic, sched, cons>>
    BY <1>11 DEF CreateJob, BecomesDue, Cools
  <2>3. SameHolders
    BY <2>1, <2>2 DEF SameHolders
  <2> QED BY <2>1, <2>2, <2>3, FlightFrame DEF FlightInv, Locked
<1>12. CASE UNCHANGED vars
  <2>1. SameHolders
    BY <1>12 DEF vars, SameHolders
  <2> QED BY <1>12, <2>1, FlightFrame DEF FlightInv, Locked, vars
<1> QED
  BY <1>1, <1>2, <1>3, <1>4, <1>5, <1>6, <1>7, <1>8, <1>9, <1>10, <1>11, <1>12 DEF Undisturbed,
     Next, Tick, Queueing, Consume, Time, LockAges, Crash, Fault

\* As long as nothing takes a lock away from its holder, a job is in one hand at
\* a time from queueJob's UPDATE to the consumer's last one, and locked for as
\* long, whatever INSERTs and Produces fail and whatever executions time out.
THEOREM FlightCorrect ==
    ASSUME Undisturbed
    PROVE  Spec => []SingleFlight
<1>1. Init => TypeOK /\ FlightInv
  BY TypeInit, FlightInit
<1>2. TypeOK /\ FlightInv /\ [Next]_vars => (TypeOK /\ FlightInv)'
  BY TypeStep, FlightStep
<1>3. TypeOK /\ FlightInv => SingleFlight
  BY DEF FlightInv
<1> QED BY <1>1, <1>2, <1>3, PTL DEF Spec

-----------------------------------------------------------------------------
(* Who has an execution in hand. *)

\* A scheduler that has yet to produce execution e, or to mark it failed; a
\* request that has; a consumer before, within and after the execution itself.
Produces(w, e) == sched[w].pc = "produce" /\ sched[w].exec = e
Marks(w, e)    == sched[w].pc = "fail" /\ sched[w].exec = e
Runs(r, e)     == requests[r].pc \in {"pend", "produce"} /\ requests[r].exec = e
Reverts(r, e)  == requests[r].pc \in {"revert", "fail"} /\ requests[r].exec = e
Left(r, e)     == requests[r].pc = "left" /\ requests[r].exec = e
Starts(w, e)   == cons[w].pc \in {"startJob", "startExec"} /\ cons[w].exec = e
Executes(w, e) == cons[w].pc \in {"execute", "record"} /\ cons[w].exec = e
Ends(w, e)     == cons[w].pc \in {"schedule", "finish"} /\ cons[w].exec = e

\* The broker's answers are not lost: who was told that a Produce failed has
\* the execution for itself.
Clear == "ambiguous" \notin Faults

Sends(w, e)    == Produces(w, e) \/ (Clear /\ Marks(w, e))
Submits(r, e)  == Runs(r, e) \/ (Clear /\ Reverts(r, e))
Consumes(w, e) == Starts(w, e) \/ Executes(w, e) \/ Ends(w, e)

\* One party at a time has execution e.
CustodyOf(e) ==
    /\ \A v, w \in Workers : /\ Sends(v, e) /\ Sends(w, e) => v = w
                             /\ Consumes(v, e) /\ Consumes(w, e) => v = w
                             /\ ~ (Sends(v, e) /\ Consumes(w, e))
    /\ \A q, r \in Requests : Submits(q, e) /\ Submits(r, e) => q = r
    /\ \A r \in Requests, w \in Workers :
           Submits(r, e) => ~ Sends(w, e) /\ ~ Consumes(w, e)
    /\ e \in topic => /\ \A w \in Workers : ~ Sends(w, e) /\ ~ Consumes(w, e)
                      /\ \A r \in Requests : ~ Submits(r, e)

Status(e) == execs[e].status

\* The status of an execution says how far its holder is.
ProgressOf(e) ==
    /\ \A w \in Workers :
           /\ Ends(w, e) => Status(e) \in {"completed", "failed", "deleted"}
           /\ Clear /\ Executes(w, e) => Status(e) \in {"running", "deleted"}
           /\ Clear /\ (Starts(w, e) \/ Sends(w, e)) => Status(e) \in {"pending", "deleted"}
    /\ \A r \in Requests : Clear /\ Submits(r, e) => Status(e) \in {"pending", "deleted"}
    /\ Clear /\ e \in topic => Status(e) \in {"pending", "deleted"}

\* Somebody will still settle e, or its client left: NoneForgotten in these terms.
InHand(e) ==
    \/ e \in topic
    \/ \E w \in Workers : Produces(w, e) \/ Marks(w, e) \/ Consumes(w, e)
    \/ \E r \in Requests : Runs(r, e) \/ Reverts(r, e) \/ Left(r, e)

RememberedOf(e) == Status(e) \in {"pending", "running"} => InHand(e)

CustodyInv == \A e \in DOMAIN execs : CustodyOf(e) /\ ProgressOf(e) /\ RememberedOf(e)

\* A step after which the same goroutine or request has execution e.
SchedHands(e) ==
    \A w \in Workers : (Produces(w, e)' <=> Produces(w, e)) /\ (Marks(w, e)' <=> Marks(w, e))
ConsHands(e) ==
    \A w \in Workers : /\ Starts(w, e)' <=> Starts(w, e)
                       /\ Executes(w, e)' <=> Executes(w, e)
                       /\ Ends(w, e)' <=> Ends(w, e)
RequestHands(e) ==
    \A r \in Requests : /\ Runs(r, e)' <=> Runs(r, e)
                        /\ Reverts(r, e)' <=> Reverts(r, e)
                        /\ Left(r, e) => Left(r, e)'

\* Who has an execution is told by three variables.
LEMMA HandsOf ==
    /\ UNCHANGED sched => \A e : SchedHands(e)
    /\ UNCHANGED cons => \A e : ConsHands(e)
    /\ UNCHANGED requests => \A e : RequestHands(e)
BY DEF SchedHands, ConsHands, RequestHands, Produces, Marks, Starts, Executes, Ends, Runs, Reverts,
   Left

\* An execution that the step passes by is as well kept as before.
Same(e) == /\ SchedHands(e) /\ ConsHands(e) /\ RequestHands(e)
           /\ (e \in topic)' <=> e \in topic
           /\ Status(e)' = Status(e) \/ Status(e)' = "deleted"

KeptOf(e) == CustodyOf(e) /\ ProgressOf(e) /\ RememberedOf(e)

\* An execution that a step leaves alone keeps its part of the invariant.
LEMMA PassedBy ==
    ASSUME NEW e \in DOMAIN execs, CustodyInv, Same(e)
    PROVE  KeptOf(e)'
<1>1. CustodyOf(e)'
  BY DEF CustodyInv, CustodyOf, Same, SchedHands, ConsHands, RequestHands, Sends, Submits,
     Consumes, Clear
<1>2. ProgressOf(e)'
  BY DEF CustodyInv, ProgressOf, Same, SchedHands, ConsHands, RequestHands, Sends, Submits, Clear
<1>3. RememberedOf(e)'
  BY DEF CustodyInv, RememberedOf, InHand, Same, SchedHands, ConsHands, RequestHands, Consumes
<1> QED BY <1>1, <1>2, <1>3 DEF KeptOf

\* The steps that move an execution.
Moving == \/ \E w \in Workers : \/ InsertExecution(w) \/ ProduceExecution(w) \/ ProduceFails(w)
                                \/ FailExecution(w) \/ ReceiveExecution(w)
                                \/ StartExecution(w) \/ RecordExecution(w) \/ FinishJob(w)
                                \/ Crash(w)
          \/ \E r \in Requests : \/ RunInsert(r) \/ RunProduce(r) \/ RunProduceFails(r)
                                 \/ RunFailExecution(r) \/ DeleteJob(r) \/ ClientLeaves(r)

\* Every other step leaves the executions where they are.
LEMMA HandsKept ==
    ASSUME TypeOK, [Next]_vars, ~ Moving
    PROVE  UNCHANGED <<execs, topic>> /\ \A e \in DOMAIN execs : Same(e)
<1> DEFINE Scheds == \A e : SchedHands(e)
           Conss  == \A e : ConsHands(e)
           Reqs   == \A e : RequestHands(e)
<1>0. /\ sched \in [Workers -> Scheduler] /\ cons \in [Workers -> Consumer]
      /\ requests \in [Requests -> Request]
  BY DEF TypeOK, SchedulersOK, ConsumersOK, RequestsOK
<1>1. ASSUME NEW w \in Workers,
             \/ ReleaseStaleJobs(w) \/ SelectDueJobs(w) \/ SelectFailedJobs(w) \/ EndTick(w)
             \/ LockJob(w) \/ LoseJob(w) \/ InsertFails(w) \/ UnlockFailedJob(w)
      PROVE  UNCHANGED <<execs, topic, cons, requests>> /\ Scheds
  <2>1. /\ \A v \in Workers \ {w} : sched'[v] = sched[v]
        /\ sched[w].pc \notin {"produce", "fail"} /\ sched'[w].pc \notin {"produce", "fail"}
    <3>1. CASE ReleaseStaleJobs(w)
      BY <1>0, <3>1 DEF ReleaseStaleJobs
    <3>2. CASE SelectDueJobs(w)
      BY <1>0, <3>2 DEF SelectDueJobs
    <3>3. CASE SelectFailedJobs(w)
      BY <1>0, <3>3 DEF SelectFailedJobs
    <3>4. CASE EndTick(w)
      BY <1>0, <3>4 DEF EndTick, IdleScheduler
    <3>5. CASE LockJob(w)
      BY <1>0, <3>5 DEF LockJob
    <3>6. CASE LoseJob(w)
      BY <1>0, <3>6 DEF LoseJob
    <3>7. CASE InsertFails(w) \/ UnlockFailedJob(w)
      <4>1. sched' = NextTask(w) /\ sched[w].pc \in {"insert", "unlock"}
        BY <3>7 DEF InsertFails, UnlockFailedJob
      <4> QED BY <1>0, <4>1 DEF NextTask
    <3> QED BY <1>1, <3>1, <3>2, <3>3, <3>4, <3>5, <3>6, <3>7
  <2>2. Scheds
    BY <2>1 DEF SchedHands, Produces, Marks
  <2> QED
    BY <1>1, <2>2 DEF ReleaseStaleJobs, SelectDueJobs, SelectFailedJobs, EndTick, LockJob,
       LoseJob, InsertFails, UnlockFailedJob
<1>2. ASSUME NEW w \in Workers, StartJob(w) \/ Execute(w) \/ ReadSchedule(w)
      PROVE  UNCHANGED <<execs, topic, sched, requests>> /\ Conss
  <2>1. /\ \A v \in Workers \ {w} : cons'[v] = cons[v]
        /\ cons'[w].exec = cons[w].exec
        /\ cons'[w].pc \in {"startJob", "startExec"} <=> cons[w].pc \in {"startJob", "startExec"}
        /\ cons'[w].pc \in {"execute", "record"} <=> cons[w].pc \in {"execute", "record"}
        /\ cons'[w].pc \in {"schedule", "finish"} <=> cons[w].pc \in {"schedule", "finish"}
    <3>1. CASE StartJob(w)
      BY <1>0, <3>1 DEF StartJob, Consumer
    <3>2. CASE Execute(w)
      BY <1>0, <3>2 DEF Execute
    <3>3. CASE ReadSchedule(w)
      BY <1>0, <3>3 DEF ReadSchedule
    <3> QED BY <1>2, <3>1, <3>2, <3>3
  <2>2. Conss
    BY <2>1 DEF ConsHands, Starts, Executes, Ends
  <2> QED BY <1>2, <2>2 DEF StartJob, Execute, ReadSchedule
<1>3. ASSUME NEW r \in Requests,
             \/ RunReadJob(r) \/ RunRefused(r) \/ RunInsertFails(r) \/ RunPend(r) \/ RunRevert(r)
             \/ RunUpdateFails(r) \/ UpdateReadJob(r) \/ UpdateWriteJob(r)
      PROVE  UNCHANGED <<execs, topic, sched, cons>> /\ Reqs
  <2>1. /\ \A q \in Requests \ {r} : requests'[q] = requests[q]
        /\ \A e : Runs(r, e)' <=> Runs(r, e)
        /\ \A e : Reverts(r, e)' <=> Reverts(r, e)
        /\ requests[r].pc # "left"
    <3>1. CASE RunReadJob(r) \/ UpdateReadJob(r)
      <4>1. PICK pc \in {"insert", "write"}, j \in Jobs :
              \E row : requests' = Holding(r, pc, j, row)
        BY <3>1 DEF RunReadJob, UpdateReadJob
      <4>2. requests'[r].pc = pc /\ requests[r].pc = "new"
        BY <1>0, <3>1, <4>1 DEF RunReadJob, UpdateReadJob, Holding, Request
      <4> QED BY <1>0, <4>1, <4>2 DEF Holding, Runs, Reverts
    <3>2. CASE RunRefused(r) \/ RunInsertFails(r) \/ UpdateWriteJob(r)
      BY <1>0, <3>2 DEF RunRefused, RunInsertFails, UpdateWriteJob, DoneRequest, NewRequest, Runs,
         Reverts
    <3>3. CASE RunPend(r) \/ RunRevert(r) \/ RunUpdateFails(r)
      BY <1>0, <3>3 DEF RunPend, RunRevert, RunUpdateFails, Request, Runs, Reverts
    <3> QED BY <1>3, <3>1, <3>2, <3>3
  <2>2. Reqs
    BY <2>1 DEF RequestHands, Runs, Reverts, Left
  <2> QED
    BY <1>3, <2>2 DEF RunReadJob, RunRefused, RunInsertFails, RunPend, RunRevert, RunUpdateFails,
       UpdateReadJob, UpdateWriteJob
<1>4. ASSUME NEW j \in Jobs, CreateJob(j) \/ Time(j)
      PROVE  UNCHANGED <<execs, topic, sched, cons, requests>>
  BY <1>4 DEF CreateJob, Time, LockAges, BecomesDue, Cools
<1>5. ASSUME UNCHANGED vars
      PROVE  UNCHANGED <<execs, topic, sched, cons, requests>>
  BY <1>5 DEF vars
<1> HIDE DEF Scheds, Conss, Reqs
<1>6. UNCHANGED <<execs, topic>> /\ Scheds /\ Conss /\ Reqs
  <2>1. UNCHANGED <<execs, topic, sched, cons, requests>> => Scheds /\ Conss /\ Reqs
    BY HandsOf DEF Scheds, Conss, Reqs
  <2>2. /\ UNCHANGED sched => Scheds
        /\ UNCHANGED cons => Conss
        /\ UNCHANGED requests => Reqs
    BY HandsOf DEF Scheds, Conss, Reqs
  <2> QED
    BY <1>1, <1>2, <1>3, <1>4, <1>5, <2>1, <2>2 DEF Next, Moving, Tick, Queueing, Consume,
       Handle, RunJobNow, UpdateJob
<1> QED BY <1>6 DEF Same, Status, Scheds, Conss, Reqs

-----------------------------------------------------------------------------
(* The steps that move an execution, one by one. *)

\* Whoever has an execution has a row of job_executions.
LEMMA HeldRows ==
    ASSUME TypeOK, NEW e, InHand(e)
    PROVE  e \in DOMAIN execs
BY DEF TypeOK, SchedulersOK, ConsumersOK, RequestsOK, InHand, Produces, Marks, Runs, Reverts,
   Left, Consumes, Starts, Executes, Ends

\* A row that is inserted was in nobody's hands.
LEMMA NewRows ==
    ASSUME TypeOK, NEW x \in Execution, execs' = Append(execs, x), NEW n, n = Len(execs) + 1
    PROVE  /\ n \notin DOMAIN execs /\ ~ InHand(n) /\ n \notin topic
           /\ (DOMAIN execs)' = DOMAIN execs \cup {n}
           /\ Status(n)' = x.status
           /\ \A e \in DOMAIN execs : Status(e)' = Status(e)
<1>1. execs \in Seq(Execution)
  BY DEF TypeOK
<1>2. /\ n \notin DOMAIN execs
      /\ DOMAIN execs' = DOMAIN execs \cup {n}
      /\ execs'[n] = x
      /\ \A e \in DOMAIN execs : execs'[e] = execs[e]
  BY <1>1
<1> QED BY <1>2, HeldRows DEF InHand, Status

\* An UPDATE of one status, and what it leaves alone.
LEMMA StatusMove ==
    ASSUME NEW e \in DOMAIN execs, NEW s, execs' = WithStatus(e, s)
    PROVE  /\ (DOMAIN execs)' = DOMAIN execs
           /\ Status(e)' = IF Status(e) = "deleted" THEN "deleted" ELSE s
           /\ \A f \in DOMAIN execs \ {e} : Status(f)' = Status(f)
           /\ \A f \in DOMAIN execs : execs'[f].job = execs[f].job
BY DEF WithStatus, Status

\* A step of one goroutine, or of one request, that leaves alone every
\* execution but the one it has, or will have, in hand.
LEMMA SchedMove ==
    ASSUME NEW w \in Workers, NEW e, UNCHANGED <<cons, requests>>,
           \A v \in Workers \ {w} : sched'[v] = sched[v],
           sched[w].pc \in {"produce", "fail"} => sched[w].exec = e,
           sched'[w].pc \in {"produce", "fail"} => sched'[w].exec = e
    PROVE  /\ \A f : f # e => SchedHands(f)
           /\ \A f : ConsHands(f) /\ RequestHands(f)
           /\ \A v \in Workers \ {w} : /\ Produces(v, e)' <=> Produces(v, e)
                                       /\ Marks(v, e)' <=> Marks(v, e)
<1>1. \A f : f # e => SchedHands(f)
  BY DEF SchedHands, Produces, Marks
<1>2. \A f : ConsHands(f) /\ RequestHands(f)
  BY HandsOf
<1> QED BY <1>1, <1>2 DEF Produces, Marks

\* The same for a consumer.
LEMMA ConsMove ==
    ASSUME NEW w \in Workers, NEW e, UNCHANGED <<sched, requests>>,
           \A v \in Workers \ {w} : cons'[v] = cons[v],
           cons[w].pc # "idle" => cons[w].exec = e,
           cons'[w].pc # "idle" => cons'[w].exec = e
    PROVE  /\ \A f : f # e => ConsHands(f)
           /\ \A f : SchedHands(f) /\ RequestHands(f)
           /\ \A v \in Workers \ {w} : /\ Starts(v, e)' <=> Starts(v, e)
                                       /\ Executes(v, e)' <=> Executes(v, e)
                                       /\ Ends(v, e)' <=> Ends(v, e)
<1>1. \A f : f # e => ConsHands(f)
  BY DEF ConsHands, Starts, Executes, Ends
<1>2. \A f : SchedHands(f) /\ RequestHands(f)
  BY HandsOf
<1> QED BY <1>1, <1>2 DEF Starts, Executes, Ends

\* The same for a request.
LEMMA RequestMove ==
    ASSUME NEW r \in Requests, NEW e, UNCHANGED <<sched, cons>>,
           \A q \in Requests \ {r} : requests'[q] = requests[q],
           requests[r].pc \in {"pend", "produce", "revert", "fail"} => requests[r].exec = e,
           requests'[r].pc \in {"pend", "produce", "revert", "fail"} => requests'[r].exec = e,
           requests[r].pc # "left"
    PROVE  /\ \A f : f # e => RequestHands(f)
           /\ \A f : SchedHands(f) /\ ConsHands(f)
           /\ \A q \in Requests \ {r} : /\ Runs(q, e)' <=> Runs(q, e)
                                        /\ Reverts(q, e)' <=> Reverts(q, e)
<1>1. \A f : f # e => RequestHands(f)
  BY DEF RequestHands, Runs, Reverts, Left
<1>2. \A f : SchedHands(f) /\ ConsHands(f)
  BY HandsOf
<1> QED BY <1>1, <1>2 DEF Runs, Reverts

\* A step that keeps the invariant for the execution it is about, and passes by the others.
LEMMA Settled ==
    ASSUME CustodyInv, NEW e, KeptOf(e)',
           \A f \in (DOMAIN execs)' \ {e} : f \in DOMAIN execs /\ Same(f)
    PROVE  CustodyInv'
<1>1. \A f \in (DOMAIN execs)' : KeptOf(f)'
  BY PassedBy
<1> QED BY <1>1 DEF CustodyInv, KeptOf

\* queueJob inserts an execution and has it in hand.
LEMMA InsertCustody ==
    ASSUME TypeOK, TypeOK', CustodyInv, NEW w \in Workers, InsertExecution(w)
    PROVE  CustodyInv'
<1> DEFINE x == Pending(sched[w].job, sched[w].attempt)
<1> PICK n : n = Len(execs) + 1
  OBVIOUS
<1>0. sched \in [Workers -> Scheduler] /\ sched[w].job \in Jobs
  BY DEF TypeOK, SchedulersOK, InsertExecution
<1>1. x \in Execution
  BY <1>0 DEF Pending, Execution, Scheduler
<1>2. /\ n \notin DOMAIN execs /\ ~ InHand(n) /\ n \notin topic
      /\ (DOMAIN execs)' = DOMAIN execs \cup {n}
      /\ Status(n)' = "pending"
      /\ \A e \in DOMAIN execs : Status(e)' = Status(e)
  BY <1>1, NewRows DEF InsertExecution, Pending
<1>3. /\ sched[w].pc = "insert"
      /\ sched'[w].pc = "produce" /\ sched'[w].exec = n
      /\ \A v \in Workers \ {w} : sched'[v] = sched[v]
      /\ UNCHANGED <<cons, requests, topic>>
  BY <1>0 DEF InsertExecution
<1> HIDE DEF x
<1>4. /\ \A f : f # n => SchedHands(f)
      /\ \A f : ConsHands(f) /\ RequestHands(f)
      /\ \A v \in Workers \ {w} : ~ Produces(v, n)' /\ ~ Marks(v, n)'
  BY <1>2, <1>3, SchedMove DEF InHand
<1>5. /\ Produces(w, n)' /\ ~ Marks(w, n)'
      /\ \A v \in Workers : ~ Starts(v, n)' /\ ~ Executes(v, n)' /\ ~ Ends(v, n)'
      /\ \A r \in Requests : ~ Runs(r, n)' /\ ~ Reverts(r, n)'
  BY <1>2, <1>3, <1>4 DEF Produces, Marks, InHand, ConsHands, RequestHands, Consumes
<1>6. CustodyOf(n)'
  BY <1>2, <1>3, <1>4, <1>5 DEF CustodyOf, Sends, Submits, Consumes
<1>7. ProgressOf(n)'
  BY <1>2, <1>4, <1>5 DEF ProgressOf, Sends, Submits
<1>8. RememberedOf(n)'
  BY <1>5 DEF RememberedOf, InHand
<1>9. \A f \in (DOMAIN execs)' \ {n} : f \in DOMAIN execs /\ Same(f)
  BY <1>2, <1>3, <1>4 DEF Same
<1> QED BY <1>6, <1>7, <1>8, <1>9, Settled DEF KeptOf

\* The steps of a scheduler with execution e: it produces e, is told that it
\* could not, and marks it failed.
LEMMA ProduceCustody ==
    ASSUME TypeOK, CustodyInv, NEW w \in Workers, ProduceExecution(w)
    PROVE  CustodyInv'
<1>0. /\ sched \in [Workers -> Scheduler]
      /\ sched[w].pc = "produce" /\ sched[w].exec \in DOMAIN execs
  BY DEF TypeOK, SchedulersOK, ProduceExecution
<1> PICK e \in DOMAIN execs : e = sched[w].exec
  BY <1>0
<1>1. /\ sched'[w].pc = "queue"
      /\ \A v \in Workers \ {w} : sched'[v] = sched[v]
      /\ topic' = topic \cup {e}
      /\ UNCHANGED <<execs, cons, requests>>
  BY <1>0 DEF ProduceExecution, NextTask
<1>2. /\ \A f : f # e => SchedHands(f)
      /\ \A f : ConsHands(f) /\ RequestHands(f)
      /\ \A v \in Workers \ {w} : /\ Produces(v, e)' <=> Produces(v, e)
                                  /\ Marks(v, e)' <=> Marks(v, e)
  BY <1>0, <1>1, SchedMove
<1>3. Produces(w, e) /\ ~ Produces(w, e)' /\ ~ Marks(w, e)'
  BY <1>0, <1>1 DEF Produces, Marks
<1>4. KeptOf(e)
  BY DEF CustodyInv, KeptOf
<1>5. \A v \in Workers : ~ Sends(v, e)' /\ ~ Consumes(v, e)'
  BY <1>2, <1>3, <1>4 DEF KeptOf, CustodyOf, Sends, Consumes, ConsHands, Clear
<1>6. \A r \in Requests : ~ Submits(r, e)'
  BY <1>2, <1>3, <1>4 DEF KeptOf, CustodyOf, Sends, Submits, RequestHands, Clear
<1>7. CustodyOf(e)'
  BY <1>5, <1>6 DEF CustodyOf
<1>8. ProgressOf(e)'
  <2>1. Clear => Status(e) \in {"pending", "deleted"}
    BY <1>3, <1>4 DEF KeptOf, ProgressOf, Sends
  <2> QED BY <1>1, <1>5, <1>6, <2>1 DEF ProgressOf, Consumes, Status, Clear
<1>9. RememberedOf(e)'
  BY <1>1 DEF RememberedOf, InHand
<1>10. \A f \in (DOMAIN execs)' \ {e} : f \in DOMAIN execs /\ Same(f)
  BY <1>1, <1>2 DEF Same, Status
<1> QED BY <1>7, <1>8, <1>9, <1>10, Settled DEF KeptOf

\* Produce fails: the scheduler keeps e, and "ambiguous" puts it into the topic too.
LEMMA ProduceFailsCustody ==
    ASSUME TypeOK, CustodyInv, NEW w \in Workers, ProduceFails(w)
    PROVE  CustodyInv'
<1>0. /\ sched \in [Workers -> Scheduler]
      /\ sched[w].pc = "produce" /\ sched[w].exec \in DOMAIN execs
  BY DEF TypeOK, SchedulersOK, ProduceFails
<1> PICK e \in DOMAIN execs : e = sched[w].exec
  BY <1>0
<1>1. /\ sched'[w].pc = "fail" /\ sched'[w].exec = e
      /\ \A v \in Workers \ {w} : sched'[v] = sched[v]
      /\ UNCHANGED topic \/ (~ Clear /\ topic' = topic \cup {e})
      /\ UNCHANGED <<execs, cons, requests>>
  BY <1>0 DEF ProduceFails, Fault, Clear, Scheduler
<1>2. /\ \A f : f # e => SchedHands(f)
      /\ \A f : ConsHands(f) /\ RequestHands(f)
      /\ \A v \in Workers \ {w} : /\ Produces(v, e)' <=> Produces(v, e)
                                  /\ Marks(v, e)' <=> Marks(v, e)
  BY <1>0, <1>1, SchedMove
<1>3. /\ Produces(w, e) /\ ~ Marks(w, e)
      /\ ~ Produces(w, e)' /\ Marks(w, e)'
  BY <1>0, <1>1 DEF Produces, Marks
<1>4. KeptOf(e)
  BY DEF CustodyInv, KeptOf
<1>5. /\ \A v \in Workers : Sends(v, e)' <=> (Clear /\ v = w)
      /\ \A v \in Workers : ~ Consumes(v, e)'
  BY <1>2, <1>3, <1>4 DEF KeptOf, CustodyOf, Sends, Consumes, ConsHands, Clear
<1>6. \A r \in Requests : ~ Submits(r, e)'
  BY <1>2, <1>3, <1>4 DEF KeptOf, CustodyOf, Sends, Submits, RequestHands, Clear
<1>7. e \notin topic
  BY <1>3, <1>4 DEF KeptOf, CustodyOf, Sends
<1>8. CustodyOf(e)'
  BY <1>1, <1>5, <1>6, <1>7 DEF CustodyOf, Clear
<1>9. ProgressOf(e)'
  <2>1. Clear => Status(e) \in {"pending", "deleted"}
    BY <1>3, <1>4 DEF KeptOf, ProgressOf, Sends
  <2> QED BY <1>1, <1>5, <1>6, <1>7, <2>1 DEF ProgressOf, Consumes, Status, Clear
<1>10. RememberedOf(e)'
  BY <1>3 DEF RememberedOf, InHand
<1>11. \A f \in (DOMAIN execs)' \ {e} : f \in DOMAIN execs /\ Same(f)
  BY <1>1, <1>2 DEF Same, Status
<1> QED BY <1>8, <1>9, <1>10, <1>11, Settled DEF KeptOf

\* The scheduler marks e failed and lets it go.
LEMMA FailCustody ==
    ASSUME TypeOK, CustodyInv, NEW w \in Workers, FailExecution(w)
    PROVE  CustodyInv'
<1>0. /\ sched \in [Workers -> Scheduler]
      /\ sched[w].pc = "fail" /\ sched[w].exec \in DOMAIN execs
  BY DEF TypeOK, SchedulersOK, FailExecution
<1> PICK e \in DOMAIN execs : e = sched[w].exec
  BY <1>0
<1>1. /\ sched'[w].pc = "unlock"
      /\ \A v \in Workers \ {w} : sched'[v] = sched[v]
      /\ execs' = WithStatus(e, "failed")
      /\ UNCHANGED <<topic, cons, requests>>
  BY <1>0 DEF FailExecution
<1>2. /\ \A f : f # e => SchedHands(f)
      /\ \A f : ConsHands(f) /\ RequestHands(f)
      /\ \A v \in Workers \ {w} : /\ Produces(v, e)' <=> Produces(v, e)
                                  /\ Marks(v, e)' <=> Marks(v, e)
  BY <1>0, <1>1, SchedMove
<1>3. Marks(w, e) /\ ~ Produces(w, e) /\ ~ Produces(w, e)' /\ ~ Marks(w, e)'
  BY <1>0, <1>1 DEF Produces, Marks
<1>4. KeptOf(e)
  BY DEF CustodyInv, KeptOf
<1>5. /\ (DOMAIN execs)' = DOMAIN execs
      /\ Status(e)' \in {"failed", "deleted"}
      /\ \A f \in DOMAIN execs \ {e} : Status(f)' = Status(f)
  BY <1>1, StatusMove
<1>6. CustodyOf(e)'
  BY <1>1, <1>2, <1>3, <1>4 DEF KeptOf, CustodyOf, Sends, Submits, Consumes, ConsHands,
     RequestHands, Clear
<1>7. Clear => /\ \A v \in Workers : ~ Sends(v, e)' /\ ~ Consumes(v, e)'
               /\ \A r \in Requests : ~ Submits(r, e)'
               /\ e \notin topic
  BY <1>2, <1>3, <1>4 DEF KeptOf, CustodyOf, Sends, Submits, Consumes, ConsHands, RequestHands, Clear
<1>8. ProgressOf(e)'
  BY <1>1, <1>5, <1>7 DEF ProgressOf, Consumes, Clear
<1>9. RememberedOf(e)'
  BY <1>5 DEF RememberedOf
<1>10. \A f \in (DOMAIN execs)' \ {e} : f \in DOMAIN execs /\ Same(f)
  BY <1>1, <1>2, <1>5 DEF Same
<1> QED BY <1>6, <1>8, <1>9, <1>10, Settled DEF KeptOf

\* The steps of a consumer with execution e.
LEMMA ReceiveCustody ==
    ASSUME TypeOK, CustodyInv, NEW w \in Workers, ReceiveExecution(w)
    PROVE  CustodyInv'
<1>0. cons \in [Workers -> Consumer] /\ topic \subseteq DOMAIN execs
  BY DEF TypeOK, ConsumersOK
<1> PICK e \in topic : /\ topic' = topic \ {e}
                       /\ cons' = [cons EXCEPT ![w] = [IdleConsumer EXCEPT !.pc = "startJob",
                                                                           !.exec = e]]
  BY DEF ReceiveExecution
<1>1. /\ cons[w].pc = "idle"
      /\ cons'[w].pc = "startJob" /\ cons'[w].exec = e
      /\ \A v \in Workers \ {w} : cons'[v] = cons[v]
      /\ e \in DOMAIN execs
      /\ UNCHANGED <<execs, sched, requests>>
  BY <1>0 DEF ReceiveExecution, IdleConsumer
<1>2. /\ \A f : f # e => ConsHands(f)
      /\ \A f : SchedHands(f) /\ RequestHands(f)
      /\ \A v \in Workers \ {w} : /\ Starts(v, e)' <=> Starts(v, e)
                                  /\ Executes(v, e)' <=> Executes(v, e)
                                  /\ Ends(v, e)' <=> Ends(v, e)
  BY <1>1, ConsMove
<1>3. Starts(w, e)' /\ ~ Executes(w, e)' /\ ~ Ends(w, e)'
  BY <1>1 DEF Starts, Executes, Ends
<1>4. KeptOf(e)
  BY <1>1 DEF CustodyInv, KeptOf
<1>5. /\ \A v \in Workers : ~ Sends(v, e)' /\ (Consumes(v, e)' <=> v = w)
      /\ \A r \in Requests : ~ Submits(r, e)'
      /\ e \notin topic'
  BY <1>2, <1>3, <1>4 DEF KeptOf, CustodyOf, Sends, Submits, Consumes, SchedHands, RequestHands,
     Clear
<1>6. CustodyOf(e)'
  BY <1>5 DEF CustodyOf
<1>7. ProgressOf(e)'
  <2>1. Clear => Status(e) \in {"pending", "deleted"}
    BY <1>4 DEF KeptOf, ProgressOf
  <2> QED BY <1>1, <1>3, <1>5, <2>1 DEF ProgressOf, Consumes, Status, Clear
<1>8. RememberedOf(e)'
  BY <1>3 DEF RememberedOf, InHand, Consumes
<1>9. \A f \in (DOMAIN execs)' \ {e} : f \in DOMAIN execs /\ Same(f)
  BY <1>1, <1>2 DEF Same, Status
<1> QED BY <1>6, <1>7, <1>8, <1>9, Settled DEF KeptOf

\* The consumer of e marks it running.
LEMMA StartCustody ==
    ASSUME TypeOK, CustodyInv, NEW w \in Workers, StartExecution(w)
    PROVE  CustodyInv'
<1>0. /\ cons \in [Workers -> Consumer]
      /\ cons[w].pc = "startExec" /\ cons[w].exec \in DOMAIN execs
  BY DEF TypeOK, ConsumersOK, StartExecution
<1> PICK e \in DOMAIN execs : e = cons[w].exec
  BY <1>0
<1>1. /\ cons'[w].pc = "execute" /\ cons'[w].exec = e
      /\ \A v \in Workers \ {w} : cons'[v] = cons[v]
      /\ execs' = WithStatus(e, "running")
      /\ UNCHANGED <<topic, sched, requests>>
  BY <1>0 DEF StartExecution, Consumer
<1>2. /\ \A f : f # e => ConsHands(f)
      /\ \A f : SchedHands(f) /\ RequestHands(f)
      /\ \A v \in Workers \ {w} : /\ Starts(v, e)' <=> Starts(v, e)
                                  /\ Executes(v, e)' <=> Executes(v, e)
                                  /\ Ends(v, e)' <=> Ends(v, e)
  BY <1>0, <1>1, ConsMove
<1>3. Starts(w, e) /\ ~ Starts(w, e)' /\ Executes(w, e)' /\ ~ Ends(w, e)'
  BY <1>0, <1>1 DEF Starts, Executes, Ends
<1>4. KeptOf(e)
  BY DEF CustodyInv, KeptOf
<1>5. /\ (DOMAIN execs)' = DOMAIN execs
      /\ Status(e)' \in {"running", "deleted"}
      /\ \A f \in DOMAIN execs \ {e} : Status(f)' = Status(f)
  BY <1>1, StatusMove
<1>6. /\ \A v \in Workers : ~ Sends(v, e)' /\ (Consumes(v, e)' <=> v = w)
      /\ \A r \in Requests : ~ Submits(r, e)'
      /\ e \notin topic'
  BY <1>1, <1>2, <1>3, <1>4 DEF KeptOf, CustodyOf, Sends, Submits, Consumes, SchedHands,
     RequestHands, Clear
<1>7. CustodyOf(e)'
  BY <1>6 DEF CustodyOf
<1>8. ProgressOf(e)'
  BY <1>3, <1>5, <1>6 DEF ProgressOf, Consumes
<1>9. RememberedOf(e)'
  BY <1>3 DEF RememberedOf, InHand, Consumes
<1>10. \A f \in (DOMAIN execs)' \ {e} : f \in DOMAIN execs /\ Same(f)
  BY <1>1, <1>2, <1>5 DEF Same
<1> QED BY <1>7, <1>8, <1>9, <1>10, Settled DEF KeptOf

\* The consumer of e records how it ended.
LEMMA RecordCustody ==
    ASSUME TypeOK, CustodyInv, NEW w \in Workers, RecordExecution(w)
    PROVE  CustodyInv'
<1>0. /\ cons \in [Workers -> Consumer]
      /\ cons[w].pc = "record" /\ cons[w].exec \in DOMAIN execs
      /\ cons[w].outcome \in {"completed", "failed"}
  BY DEF TypeOK, ConsumersOK, RecordExecution, Consumer
<1> PICK e \in DOMAIN execs : e = cons[w].exec
  BY <1>0
<1> PICK o \in {"completed", "failed"} :
           /\ execs' = WithStatus(e, o)
           /\ cons' = [cons EXCEPT ![w] = [@ EXCEPT !.pc = "schedule", !.outcome = o]]
  BY <1>0 DEF RecordExecution, Outcomes
<1>1. /\ cons'[w].pc = "schedule" /\ cons'[w].exec = e
      /\ \A v \in Workers \ {w} : cons'[v] = cons[v]
      /\ UNCHANGED <<topic, sched, requests>>
  BY <1>0 DEF RecordExecution, Consumer
<1>2. /\ \A f : f # e => ConsHands(f)
      /\ \A f : SchedHands(f) /\ RequestHands(f)
      /\ \A v \in Workers \ {w} : /\ Starts(v, e)' <=> Starts(v, e)
                                  /\ Executes(v, e)' <=> Executes(v, e)
                                  /\ Ends(v, e)' <=> Ends(v, e)
  BY <1>0, <1>1, ConsMove
<1>3. Executes(w, e) /\ ~ Starts(w, e)' /\ ~ Executes(w, e)' /\ Ends(w, e)'
  BY <1>0, <1>1 DEF Starts, Executes, Ends
<1>4. KeptOf(e)
  BY DEF CustodyInv, KeptOf
<1>5. /\ (DOMAIN execs)' = DOMAIN execs
      /\ Status(e)' \in {"completed", "failed", "deleted"}
      /\ \A f \in DOMAIN execs \ {e} : Status(f)' = Status(f)
  BY StatusMove
<1>6. /\ \A v \in Workers : ~ Sends(v, e)' /\ (Consumes(v, e)' <=> v = w)
      /\ \A r \in Requests : ~ Submits(r, e)'
      /\ e \notin topic'
  BY <1>1, <1>2, <1>3, <1>4 DEF KeptOf, CustodyOf, Sends, Submits, Consumes, SchedHands,
     RequestHands, Clear
<1>7. CustodyOf(e)'
  BY <1>6 DEF CustodyOf
<1>8. ProgressOf(e)'
  BY <1>3, <1>5, <1>6 DEF ProgressOf, Consumes
<1>9. RememberedOf(e)'
  BY <1>5 DEF RememberedOf
<1>10. \A f \in (DOMAIN execs)' \ {e} : f \in DOMAIN execs /\ Same(f)
  BY <1>1, <1>2, <1>5 DEF Same
<1> QED BY <1>7, <1>8, <1>9, <1>10, Settled DEF KeptOf

\* The consumer of e finishes the job and lets e go.
LEMMA FinishCustody ==
    ASSUME TypeOK, CustodyInv, NEW w \in Workers, FinishJob(w)
    PROVE  CustodyInv'
<1>0. /\ cons \in [Workers -> Consumer]
      /\ cons[w].pc = "finish" /\ cons[w].exec \in DOMAIN execs
  BY DEF TypeOK, ConsumersOK, FinishJob
<1> PICK e \in DOMAIN execs : e = cons[w].exec
  BY <1>0
<1>1. /\ cons'[w].pc = "idle"
      /\ \A v \in Workers \ {w} : cons'[v] = cons[v]
      /\ UNCHANGED <<execs, topic, sched, requests>>
  BY <1>0 DEF FinishJob, IdleConsumer
<1>2. /\ \A f : f # e => ConsHands(f)
      /\ \A f : SchedHands(f) /\ RequestHands(f)
      /\ \A v \in Workers \ {w} : /\ Starts(v, e)' <=> Starts(v, e)
                                  /\ Executes(v, e)' <=> Executes(v, e)
                                  /\ Ends(v, e)' <=> Ends(v, e)
  BY <1>0, <1>1, ConsMove
<1>3. Ends(w, e) /\ ~ Starts(w, e)' /\ ~ Executes(w, e)' /\ ~ Ends(w, e)'
  BY <1>0, <1>1 DEF Starts, Executes, Ends
<1>4. KeptOf(e)
  BY DEF CustodyInv, KeptOf
<1>5. Status(e)' = Status(e) /\ Status(e) \in {"completed", "failed", "deleted"}
  BY <1>1, <1>3, <1>4 DEF KeptOf, ProgressOf, Status
<1>6. /\ \A v \in Workers : ~ Sends(v, e)' /\ ~ Consumes(v, e)'
      /\ \A r \in Requests : ~ Submits(r, e)'
      /\ e \notin topic'
  BY <1>1, <1>2, <1>3, <1>4 DEF KeptOf, CustodyOf, Sends, Submits, Consumes, SchedHands,
     RequestHands, Clear
<1>7. CustodyOf(e)'
  BY <1>6 DEF CustodyOf
<1>8. ProgressOf(e)'
  BY <1>6 DEF ProgressOf, Consumes
<1>9. RememberedOf(e)'
  BY <1>5 DEF RememberedOf
<1>10. \A f \in (DOMAIN execs)' \ {e} : f \in DOMAIN execs /\ Same(f)
  BY <1>1, <1>2 DEF Same, Status
<1> QED BY <1>7, <1>8, <1>9, <1>10, Settled DEF KeptOf

\* The steps of a run-now request with execution e, and the cascade of a
\* deleted job.
LEMMA RunInsertCustody ==
    ASSUME TypeOK, CustodyInv, NEW r \in Requests, RunInsert(r)
    PROVE  CustodyInv'
<1> DEFINE x == Pending(requests[r].job, 1)
<1> PICK n : n = Len(execs) + 1
  OBVIOUS
<1>0. requests \in [Requests -> Request] /\ requests[r].job \in Jobs
  BY DEF TypeOK, RequestsOK, RunInsert
<1>1. x \in Execution
  BY <1>0 DEF Pending, Execution
<1>2. /\ n \notin DOMAIN execs /\ ~ InHand(n) /\ n \notin topic
      /\ (DOMAIN execs)' = DOMAIN execs \cup {n}
      /\ Status(n)' = "pending"
      /\ \A e \in DOMAIN execs : Status(e)' = Status(e)
  BY <1>1, NewRows DEF RunInsert, Pending
<1>3. /\ requests[r].pc = "insert"
      /\ requests'[r].pc = "pend" /\ requests'[r].exec = n
      /\ \A q \in Requests \ {r} : requests'[q] = requests[q]
      /\ UNCHANGED <<sched, cons, topic>>
  BY <1>0 DEF RunInsert
<1> HIDE DEF x
<1>4. /\ \A f : f # n => RequestHands(f)
      /\ \A f : SchedHands(f) /\ ConsHands(f)
      /\ \A q \in Requests \ {r} : ~ Runs(q, n)' /\ ~ Reverts(q, n)'
  BY <1>2, <1>3, RequestMove DEF InHand
<1>5. /\ Runs(r, n)' /\ ~ Reverts(r, n)'
      /\ \A v \in Workers : ~ Sends(v, n)' /\ ~ Consumes(v, n)'
  BY <1>2, <1>3, <1>4 DEF Runs, Reverts, InHand, SchedHands, ConsHands, Sends, Consumes
<1>6. CustodyOf(n)'
  BY <1>2, <1>3, <1>4, <1>5 DEF CustodyOf, Submits
<1>7. ProgressOf(n)'
  BY <1>2, <1>3, <1>5 DEF ProgressOf, Consumes
<1>8. RememberedOf(n)'
  BY <1>5 DEF RememberedOf, InHand
<1>9. \A f \in (DOMAIN execs)' \ {n} : f \in DOMAIN execs /\ Same(f)
  BY <1>2, <1>3, <1>4 DEF Same
<1> QED BY <1>6, <1>7, <1>8, <1>9, Settled DEF KeptOf

\* The request hands e to the topic.
LEMMA RunProduceCustody ==
    ASSUME TypeOK, CustodyInv, NEW r \in Requests, RunProduce(r)
    PROVE  CustodyInv'
<1>0. /\ requests \in [Requests -> Request]
      /\ requests[r].pc = "produce" /\ requests[r].exec \in DOMAIN execs
  BY DEF TypeOK, RequestsOK, RunProduce
<1> PICK e \in DOMAIN execs : e = requests[r].exec
  BY <1>0
<1>1. /\ requests'[r].pc = "done"
      /\ \A q \in Requests \ {r} : requests'[q] = requests[q]
      /\ topic' = topic \cup {e}
      /\ UNCHANGED <<execs, sched, cons>>
  BY <1>0 DEF RunProduce, DoneRequest, NewRequest
<1>2. /\ \A f : f # e => RequestHands(f)
      /\ \A f : SchedHands(f) /\ ConsHands(f)
      /\ \A q \in Requests \ {r} : /\ Runs(q, e)' <=> Runs(q, e)
                                   /\ Reverts(q, e)' <=> Reverts(q, e)
  BY <1>0, <1>1, RequestMove
<1>3. Runs(r, e) /\ ~ Runs(r, e)' /\ ~ Reverts(r, e)'
  BY <1>0, <1>1 DEF Runs, Reverts
<1>4. KeptOf(e)
  BY DEF CustodyInv, KeptOf
<1>5. \A v \in Workers : ~ Sends(v, e)' /\ ~ Consumes(v, e)'
  BY <1>2, <1>3, <1>4 DEF KeptOf, CustodyOf, Sends, Submits, Consumes, SchedHands, ConsHands, Clear
<1>6. \A q \in Requests : ~ Submits(q, e)'
  BY <1>2, <1>3, <1>4 DEF KeptOf, CustodyOf, Submits, Clear
<1>7. CustodyOf(e)'
  BY <1>5, <1>6 DEF CustodyOf
<1>8. ProgressOf(e)'
  <2>1. Clear => Status(e) \in {"pending", "deleted"}
    BY <1>3, <1>4 DEF KeptOf, ProgressOf, Submits
  <2> QED BY <1>1, <1>5, <1>6, <2>1 DEF ProgressOf, Consumes, Status, Clear
<1>9. RememberedOf(e)'
  BY <1>1 DEF RememberedOf, InHand
<1>10. \A f \in (DOMAIN execs)' \ {e} : f \in DOMAIN execs /\ Same(f)
  BY <1>1, <1>2 DEF Same, Status
<1> QED BY <1>7, <1>8, <1>9, <1>10, Settled DEF KeptOf

\* Produce fails: the request keeps e, to mark it failed.
LEMMA RunProduceFailsCustody ==
    ASSUME TypeOK, CustodyInv, NEW r \in Requests, RunProduceFails(r)
    PROVE  CustodyInv'
<1>0. /\ requests \in [Requests -> Request]
      /\ requests[r].pc = "produce" /\ requests[r].exec \in DOMAIN execs
  BY DEF TypeOK, RequestsOK, RunProduceFails
<1> PICK e \in DOMAIN execs : e = requests[r].exec
  BY <1>0
<1>1. /\ requests'[r].pc = "revert" /\ requests'[r].exec = e
      /\ \A q \in Requests \ {r} : requests'[q] = requests[q]
      /\ UNCHANGED topic \/ (~ Clear /\ topic' = topic \cup {e})
      /\ UNCHANGED <<execs, sched, cons>>
  BY <1>0 DEF RunProduceFails, Fault, Clear, Request
<1>2. /\ \A f : f # e => RequestHands(f)
      /\ \A f : SchedHands(f) /\ ConsHands(f)
      /\ \A q \in Requests \ {r} : /\ Runs(q, e)' <=> Runs(q, e)
                                   /\ Reverts(q, e)' <=> Reverts(q, e)
  BY <1>0, <1>1, RequestMove
<1>3. /\ Runs(r, e) /\ ~ Reverts(r, e)
      /\ ~ Runs(r, e)' /\ Reverts(r, e)'
  BY <1>0, <1>1 DEF Runs, Reverts
<1>4. KeptOf(e)
  BY DEF CustodyInv, KeptOf
<1>5. \A v \in Workers : ~ Sends(v, e)' /\ ~ Consumes(v, e)'
  BY <1>2, <1>3, <1>4 DEF KeptOf, CustodyOf, Sends, Submits, Consumes, SchedHands, ConsHands, Clear
<1>6. \A q \in Requests : Submits(q, e)' <=> (Clear /\ q = r)
  BY <1>2, <1>3, <1>4 DEF KeptOf, CustodyOf, Submits, Clear
<1>7. e \notin topic
  BY <1>3, <1>4 DEF KeptOf, CustodyOf, Submits
<1>8. CustodyOf(e)'
  BY <1>1, <1>5, <1>6, <1>7 DEF CustodyOf, Clear
<1>9. ProgressOf(e)'
  <2>1. Clear => Status(e) \in {"pending", "deleted"}
    BY <1>3, <1>4 DEF KeptOf, ProgressOf, Submits
  <2> QED BY <1>1, <1>5, <1>6, <1>7, <2>1 DEF ProgressOf, Consumes, Status, Clear
<1>10. RememberedOf(e)'
  BY <1>3 DEF RememberedOf, InHand
<1>11. \A f \in (DOMAIN execs)' \ {e} : f \in DOMAIN execs /\ Same(f)
  BY <1>1, <1>2 DEF Same, Status
<1> QED BY <1>8, <1>9, <1>10, <1>11, Settled DEF KeptOf

\* The request marks e failed and lets it go.
LEMMA RunFailCustody ==
    ASSUME TypeOK, CustodyInv, NEW r \in Requests, RunFailExecution(r)
    PROVE  CustodyInv'
<1>0. /\ requests \in [Requests -> Request]
      /\ requests[r].pc = "fail" /\ requests[r].exec \in DOMAIN execs
  BY DEF TypeOK, RequestsOK, RunFailExecution
<1> PICK e \in DOMAIN execs : e = requests[r].exec
  BY <1>0
<1>1. /\ requests'[r].pc = "done"
      /\ \A q \in Requests \ {r} : requests'[q] = requests[q]
      /\ execs' = WithStatus(e, "failed")
      /\ UNCHANGED <<topic, sched, cons>>
  BY <1>0 DEF RunFailExecution, DoneRequest, NewRequest
<1>2. /\ \A f : f # e => RequestHands(f)
      /\ \A f : SchedHands(f) /\ ConsHands(f)
      /\ \A q \in Requests \ {r} : /\ Runs(q, e)' <=> Runs(q, e)
                                   /\ Reverts(q, e)' <=> Reverts(q, e)
  BY <1>0, <1>1, RequestMove
<1>3. Reverts(r, e) /\ ~ Runs(r, e) /\ ~ Runs(r, e)' /\ ~ Reverts(r, e)'
  BY <1>0, <1>1 DEF Runs, Reverts
<1>4. KeptOf(e)
  BY DEF CustodyInv, KeptOf
<1>5. /\ (DOMAIN execs)' = DOMAIN execs
      /\ Status(e)' \in {"failed", "deleted"}
      /\ \A f \in DOMAIN execs \ {e} : Status(f)' = Status(f)
  BY <1>1, StatusMove
<1>6. CustodyOf(e)'
  BY <1>1, <1>2, <1>3, <1>4 DEF KeptOf, CustodyOf, Sends, Submits, Consumes, SchedHands, ConsHands,
     Clear
<1>7. Clear => /\ \A v \in Workers : ~ Sends(v, e)' /\ ~ Consumes(v, e)'
               /\ \A q \in Requests : ~ Submits(q, e)'
               /\ e \notin topic
  BY <1>2, <1>3, <1>4 DEF KeptOf, CustodyOf, Sends, Submits, Consumes, SchedHands, ConsHands, Clear
<1>8. ProgressOf(e)'
  BY <1>1, <1>5, <1>7 DEF ProgressOf, Consumes, Clear
<1>9. RememberedOf(e)'
  BY <1>5 DEF RememberedOf
<1>10. \A f \in (DOMAIN execs)' \ {e} : f \in DOMAIN execs /\ Same(f)
  BY <1>1, <1>2, <1>5 DEF Same
<1> QED BY <1>6, <1>8, <1>9, <1>10, Settled DEF KeptOf

\* A client that leaves lets the request's execution go, if it has one.
LEMMA LeaveCustody ==
    ASSUME TypeOK, CustodyInv, NEW r \in Requests, ClientLeaves(r)
    PROVE  CustodyInv'
<1>0. /\ requests \in [Requests -> Request]
      /\ requests[r].pc \notin {"new", "left", "done"}
      /\ \A q \in Requests \ {r} : requests'[q] = requests[q]
      /\ UNCHANGED <<execs, topic, sched, cons>>
  BY DEF TypeOK, RequestsOK, ClientLeaves
<1>1. CASE requests[r].pc \in {"insert", "write"}
  <2>1. requests'[r].pc = "done"
    BY <1>0, <1>1 DEF ClientLeaves, DoneRequest, NewRequest
  <2>2. \A e : SchedHands(e) /\ ConsHands(e) /\ RequestHands(e)
    BY <1>0, <1>1, <2>1, HandsOf DEF RequestHands, Runs, Reverts, Left
  <2>3. \A e \in DOMAIN execs : Same(e)
    BY <1>0, <2>2 DEF Same, Status
  <2> QED BY <1>0, <2>3, PassedBy DEF CustodyInv, KeptOf
<1>2. CASE requests[r].pc \in {"pend", "produce", "revert", "fail"}
  <2>0. requests[r].exec \in DOMAIN execs
    BY <1>2 DEF TypeOK, RequestsOK
  <2> PICK e \in DOMAIN execs : e = requests[r].exec
    BY <2>0
  <2>1. requests'[r].pc = "left" /\ requests'[r].exec = e
    BY <1>0, <1>2 DEF ClientLeaves, Request
  <2>2. /\ \A f : f # e => RequestHands(f)
        /\ \A f : SchedHands(f) /\ ConsHands(f)
        /\ \A q \in Requests \ {r} : /\ Runs(q, e)' <=> Runs(q, e)
                                     /\ Reverts(q, e)' <=> Reverts(q, e)
    BY <1>0, <1>2, <2>1, RequestMove
  <2>3. ~ Runs(r, e)' /\ ~ Reverts(r, e)' /\ Left(r, e)'
    BY <2>1 DEF Runs, Reverts, Left
  <2>4. KeptOf(e)
    BY DEF CustodyInv, KeptOf
  <2>5. CustodyOf(e)'
    BY <1>0, <2>2, <2>3, <2>4 DEF KeptOf, CustodyOf, Sends, Submits, Consumes, SchedHands, ConsHands,
       Clear
  <2>6. ProgressOf(e)'
    BY <1>0, <2>2, <2>3, <2>4 DEF KeptOf, ProgressOf, Sends, Submits, SchedHands, ConsHands, Status,
       Clear
  <2>7. RememberedOf(e)'
    BY <2>3 DEF RememberedOf, InHand
  <2>8. \A f \in (DOMAIN execs)' \ {e} : f \in DOMAIN execs /\ Same(f)
    BY <1>0, <2>2 DEF Same, Status
  <2> QED BY <2>5, <2>6, <2>7, <2>8, Settled DEF KeptOf
<1>3. requests[r].pc \in {"insert", "write", "pend", "produce", "revert", "fail"}
  BY <1>0 DEF Request
<1> QED BY <1>1, <1>2, <1>3

\* Deleted executions need nobody.
LEMMA DeleteCustody ==
    ASSUME TypeOK, CustodyInv, NEW r \in Requests, DeleteJob(r)
    PROVE  CustodyInv'
<1>0. requests \in [Requests -> Request]
  BY DEF TypeOK, RequestsOK
<1>1. /\ (DOMAIN execs)' = DOMAIN execs
      /\ \A e \in DOMAIN execs : Status(e)' = Status(e) \/ Status(e)' = "deleted"
      /\ UNCHANGED <<topic, sched, cons>>
  BY DEF DeleteJob, Status
<1>2. /\ requests[r].pc = "new" /\ requests'[r].pc = "done"
      /\ \A q \in Requests \ {r} : requests'[q] = requests[q]
  BY <1>0 DEF DeleteJob, DoneRequest, NewRequest
<1>3. \A e : SchedHands(e) /\ ConsHands(e) /\ RequestHands(e)
  BY <1>1, <1>2, HandsOf DEF RequestHands, Runs, Reverts, Left
<1>4. \A e \in DOMAIN execs : Same(e)
  BY <1>1, <1>3 DEF Same
<1> QED BY <1>1, <1>4, PassedBy DEF CustodyInv, KeptOf

-----------------------------------------------------------------------------

\* Initially there is no execution.
LEMMA CustodyInit == Init => CustodyInv
BY DEF Init, CustodyInv

\* Every step but a crash keeps the invariant.
LEMMA CustodyStep ==
    ASSUME "crash" \notin Faults, TypeOK, TypeOK', CustodyInv, [Next]_vars
    PROVE  CustodyInv'
<1>1. CASE ~ Moving
  <2>1. UNCHANGED execs /\ \A e \in DOMAIN execs : Same(e)
    BY <1>1, HandsKept
  <2> QED BY <2>1, PassedBy DEF CustodyInv, KeptOf
<1>2. ASSUME NEW w \in Workers, Crash(w)
      PROVE  FALSE
  BY <1>2 DEF Crash, Fault
<1>3. CASE Moving
  BY <1>2, <1>3, InsertCustody, ProduceCustody, ProduceFailsCustody, FailCustody, ReceiveCustody,
     StartCustody, RecordCustody, FinishCustody, RunInsertCustody, RunProduceCustody,
     RunProduceFailsCustody, RunFailCustody, LeaveCustody, DeleteCustody DEF Moving
<1> QED BY <1>1, <1>3

\* The status of an execution in nobody's hands is final.
LEMMA CustodyImplies ==
    ASSUME TypeOK, CustodyInv
    PROVE  NoneForgotten
BY DEF CustodyInv, RememberedOf, InHand, Status, NoneForgotten, Produces, Marks, Runs, Reverts,
   Left, Consumes, Starts, Executes, Ends

\* An execution left pending or running is in the hands of a scheduler, a
\* request, the topic or a consumer: nothing orphans one but a crash and a
\* run-now whose client left before its last statement.
THEOREM NoneForgottenHolds == Spec => []NoneForgotten
<1>1. CASE "crash" \in Faults
  <2>1. NoneForgotten
    BY <1>1 DEF NoneForgotten
  <2> QED BY <2>1, PTL
<1>2. CASE "crash" \notin Faults
  <2>1. CustodyInv /\ TypeOK /\ TypeOK' /\ [Next]_vars => CustodyInv'
    BY <1>2, CustodyStep
  <2>2. TypeOK /\ CustodyInv => NoneForgotten
    BY CustodyImplies
  <2> QED BY <2>1, <2>2, CustodyInit, TypeCorrect, PTL DEF Spec
<1> QED BY <1>1, <1>2

-----------------------------------------------------------------------------
(* The executions implement JobLifecycle. *)

LifeOf(s) == [e \in DOMAIN s |-> [job |-> s[e].job, status |-> s[e].status]]
Life == LifeOf(execs)

\* The history of the executions has the type JobLifecycle expects.
LEMMA LifeType ==
    ASSUME NEW s \in Seq(Execution)
    PROVE  LifeOf(s) \in Seq(Lifecycle!Entry) /\ Len(LifeOf(s)) = Len(s)
<1>1. Len(s) \in Nat /\ DOMAIN s = 1 .. Len(s) /\ \A e \in DOMAIN s : s[e] \in Execution
  OBVIOUS
<1>2. LifeOf(s) \in [1 .. Len(s) -> Lifecycle!Entry]
  BY <1>1 DEF LifeOf, Lifecycle!Entry, Execution
<1> QED BY <1>1, <1>2, SeqDef, LenProperties

\* An INSERT submits an execution.
LEMMA LifeAppends ==
    ASSUME TypeOK, TypeOK', NEW j \in Jobs, NEW n \in Nat, execs' = Append(execs, Pending(j, n))
    PROVE  Lifecycle!Submit
<1> DEFINE entry == [job |-> j, status |-> "pending"]
<1>1. /\ Life \in Seq(Lifecycle!Entry) /\ Len(Life) = Len(execs)
      /\ Life' \in Seq(Lifecycle!Entry) /\ Len(Life') = Len(execs')
  BY LifeType DEF TypeOK, Life
<1>2. entry \in Lifecycle!Entry
  BY DEF Lifecycle!Entry
<1>3. /\ execs \in Seq(Execution) /\ Len(execs) \in Nat /\ Len(execs') = Len(execs) + 1
      /\ execs'[Len(execs) + 1] = Pending(j, n)
      /\ \A e \in 1 .. Len(execs) : execs'[e] = execs[e]
      /\ DOMAIN execs = 1 .. Len(execs) /\ DOMAIN execs' = 1 .. Len(execs) + 1
  <2>1. execs \in Seq(Execution)
    BY DEF TypeOK
  <2> QED BY <2>1, Appends
<1>4. \A e \in 1 .. Len(Life') : Life'[e] = Append(Life, entry)[e]
  <2> SUFFICES ASSUME NEW e \in 1 .. Len(execs) + 1
               PROVE  Life'[e] = Append(Life, entry)[e]
    BY <1>1, <1>3
  <2>1. CASE e = Len(execs) + 1
    BY <1>1, <1>2, <1>3, <2>1, AppendProperties DEF Life, LifeOf, Pending
  <2>2. CASE e \in 1 .. Len(execs)
    BY <1>1, <1>2, <1>3, <2>2, AppendProperties DEF Life, LifeOf
  <2>3. e = Len(execs) + 1 \/ e \in 1 .. Len(execs)
    BY <1>3
  <2> QED BY <2>1, <2>2, <2>3
<1>5. /\ Append(Life, entry) \in Seq(Lifecycle!Entry)
      /\ Len(Append(Life, entry)) = Len(Life')
  BY <1>1, <1>2, <1>3, AppendProperties
<1>6. Life' = Append(Life, entry)
  <2> HIDE DEF entry, Life
  <2> QED BY <1>1, <1>4, <1>5, SeqEqual
<1> QED BY <1>6 DEF Life, LifeOf, Lifecycle!Submit

\* An UPDATE of a status that is as expected, or of a deleted row, is a step or none.
LEMMA LifeSteps ==
    ASSUME NEW e \in DOMAIN execs, NEW from, NEW to,
           Status(e) \in {from, "deleted"}, from # "deleted", execs' = WithStatus(e, to)
    PROVE  Lifecycle!Step(from, to) \/ Life' = Life
<1>1. CASE Status(e) = "deleted"
  BY <1>1 DEF WithStatus, Status, Life, LifeOf
<1>2. CASE Status(e) # "deleted"
  <2>1. /\ DOMAIN execs' = DOMAIN execs
        /\ \A f \in DOMAIN execs : /\ execs'[f].job = execs[f].job
                                   /\ execs'[f].status = IF f = e THEN to ELSE execs[f].status
    BY <1>2, StatusMove DEF Status
  <2>2. Life' = [Life EXCEPT ![e].status = to]
    BY <2>1 DEF Life, LifeOf
  <2>3. Life[e].status = from /\ e \in DOMAIN Life
    BY <1>2 DEF Life, LifeOf, Status
  <2> QED BY <2>2, <2>3 DEF Life, LifeOf, Lifecycle!Step
<1> QED BY <1>1, <1>2

\* ON DELETE CASCADE purges the executions of a job.
LEMMA LifePurges ==
    ASSUME NEW r \in Requests, DeleteJob(r)
    PROVE  Lifecycle!Purge
<1>1. PICK j \in Jobs :
          execs' = [e \in DOMAIN execs |->
                      IF execs[e].job = j THEN [execs[e] EXCEPT !.status = "deleted"]
                                          ELSE execs[e]]
  BY DEF DeleteJob
<1>2. Life' = [e \in DOMAIN Life |-> IF Life[e].job = j
                                     THEN [Life[e] EXCEPT !.status = "deleted"] ELSE Life[e]]
  BY <1>1 DEF Life, LifeOf
<1> QED BY <1>2 DEF Life, LifeOf, Lifecycle!Purge

\* Every step is one of JobLifecycle, or leaves the history alone.
LEMMA LifeStep ==
    ASSUME Faults \cap {"crash", "ambiguous"} = {}, TypeOK, TypeOK', CustodyInv, [Next]_vars
    PROVE  Lifecycle!Next \/ Life' = Life
<1>0. Clear
  BY DEF Clear
<1>1. CASE UNCHANGED execs
  BY <1>1 DEF Life, LifeOf
<1>2. ASSUME NEW w \in Workers, InsertExecution(w)
      PROVE  Lifecycle!Next
  <2>1. sched[w].job \in Jobs /\ sched[w].attempt \in Nat
    BY <1>2 DEF TypeOK, SchedulersOK, Scheduler, InsertExecution
  <2> QED BY <1>2, <2>1, LifeAppends DEF InsertExecution, Lifecycle!Next
<1>3. ASSUME NEW r \in Requests, RunInsert(r)
      PROVE  Lifecycle!Next
  <2>1. requests[r].job \in Jobs
    BY <1>3 DEF TypeOK, RequestsOK, RunInsert
  <2> QED BY <1>3, <2>1, LifeAppends DEF RunInsert, Lifecycle!Next
<1>4. ASSUME NEW w \in Workers, FailExecution(w)
      PROVE  Lifecycle!Next \/ Life' = Life
  <2>1. PICK e \in DOMAIN execs : e = sched[w].exec /\ Marks(w, e)
    BY <1>4 DEF TypeOK, SchedulersOK, FailExecution, Marks
  <2>2. Status(e) \in {"pending", "deleted"}
    BY <1>0, <2>1 DEF CustodyInv, ProgressOf, Sends
  <2> QED BY <1>4, <2>1, <2>2, LifeSteps DEF FailExecution, Lifecycle!Next, Lifecycle!Drop
<1>5. ASSUME NEW r \in Requests, RunFailExecution(r)
      PROVE  Lifecycle!Next \/ Life' = Life
  <2>1. PICK e \in DOMAIN execs : e = requests[r].exec /\ Reverts(r, e)
    BY <1>5 DEF TypeOK, RequestsOK, RunFailExecution, Reverts
  <2>2. Status(e) \in {"pending", "deleted"}
    BY <1>0, <2>1 DEF CustodyInv, ProgressOf, Submits
  <2> QED BY <1>5, <2>1, <2>2, LifeSteps DEF RunFailExecution, Lifecycle!Next, Lifecycle!Drop
<1>6. ASSUME NEW w \in Workers, StartExecution(w)
      PROVE  Lifecycle!Next \/ Life' = Life
  <2>1. PICK e \in DOMAIN execs : e = cons[w].exec /\ Starts(w, e)
    BY <1>6 DEF TypeOK, ConsumersOK, StartExecution, Starts
  <2>2. Status(e) \in {"pending", "deleted"}
    BY <1>0, <2>1 DEF CustodyInv, ProgressOf
  <2> QED BY <1>6, <2>1, <2>2, LifeSteps DEF StartExecution, Lifecycle!Next, Lifecycle!Begin
<1>7. ASSUME NEW w \in Workers, RecordExecution(w)
      PROVE  Lifecycle!Next \/ Life' = Life
  <2>1. PICK e \in DOMAIN execs : e = cons[w].exec /\ Executes(w, e)
    BY <1>7 DEF TypeOK, ConsumersOK, RecordExecution, Executes
  <2>2. Status(e) \in {"running", "deleted"}
    BY <1>0, <2>1 DEF CustodyInv, ProgressOf
  <2>3. PICK o \in {"completed", "failed"} : execs' = WithStatus(e, o)
    BY <1>7, <2>1 DEF TypeOK, ConsumersOK, Consumer, RecordExecution, Outcomes
  <2> QED BY <2>1, <2>2, <2>3, LifeSteps DEF Lifecycle!Next, Lifecycle!End
<1>8. ASSUME NEW w \in Workers,
             \/ ProduceExecution(w) \/ ProduceFails(w) \/ ReceiveExecution(w) \/ FinishJob(w)
             \/ Crash(w)
      PROVE  UNCHANGED execs
  BY <1>8 DEF ProduceExecution, ProduceFails, ReceiveExecution, FinishJob, Crash
<1>9. ASSUME NEW r \in Requests, RunProduce(r) \/ RunProduceFails(r) \/ ClientLeaves(r)
      PROVE  UNCHANGED execs
  BY <1>9 DEF RunProduce, RunProduceFails, ClientLeaves
<1>10. ASSUME NEW r \in Requests, DeleteJob(r)
       PROVE  Lifecycle!Next
  BY <1>10, LifePurges DEF Lifecycle!Next
<1>11. CASE ~ Moving
  BY <1>1, <1>11, HandsKept
<1> QED
  BY <1>1, <1>2, <1>3, <1>4, <1>5, <1>6, <1>7, <1>8, <1>9, <1>10, <1>11 DEF Moving

\* Every execution row lives the life of JobLifecycle, as long as no worker
\* crashes and the broker loses no answer.
THEOREM RunsOnceHolds ==
    ASSUME Faults \cap {"crash", "ambiguous"} = {}
    PROVE  Spec => RunsOnce
<1>1. Init => Lifecycle!Init
  BY DEF Init, Lifecycle!Init
<1>2. CustodyInv /\ TypeOK /\ TypeOK' /\ [Next]_vars => [Lifecycle!Next]_Life
  BY LifeStep
<1>3. CustodyInv /\ TypeOK /\ TypeOK' /\ [Next]_vars => CustodyInv'
  BY CustodyStep
<1> QED
  BY <1>1, <1>2, <1>3, CustodyInit, TypeCorrect, PTL DEF Spec, RunsOnce, Lifecycle!Spec, Life, LifeOf

-----------------------------------------------------------------------------
(* What a job at rest says of its executions. *)

\* Execution e is the newest of its job; job j's newest execution is in status s.
Newest(e) == \A f \in DOMAIN execs : execs[f].job = execs[e].job => f <= e
Ended(j, s) == \E e \in DOMAIN execs : execs[e].job = j /\ Newest(e) /\ execs[e].status = s

\* A scheduler has the newest execution of the job it queues, and has marked it
\* failed before it unlocks the job.
SchedulerSettles(w) ==
    /\ sched[w].pc \in {"produce", "fail"} => Newest(sched[w].exec)
    /\ sched[w].pc = "unlock" => Ended(sched[w].job, "failed")

\* A consumer works on the newest execution of its job, has recorded its
\* outcome before it finishes the job, and finishes it accordingly.
ConsumerSettles(w) ==
    /\ cons[w].pc # "idle" => Newest(cons[w].exec)
    /\ ~ cons[w].raced
    /\ cons[w].pc \in {"schedule", "finish"} => execs[cons[w].exec].status = cons[w].outcome
    /\ cons[w].pc = "finish" /\ cons[w].final # "scheduled" => cons[w].final = cons[w].outcome

\* A job that has ended is unlocked, and as its newest execution is.
RowSettles(j) ==
    jobs[j].status \in {"completed", "failed"} => ~ Locked(j) /\ Ended(j, jobs[j].status)

SettleInv ==
    /\ \A e \in DOMAIN execs : execs[e].status # "deleted"
    /\ \A e \in topic : Newest(e)
    /\ \A w \in Workers : SchedulerSettles(w) /\ ConsumerSettles(w)
    /\ \A j \in Jobs : RowSettles(j)

\* Initially no job has ended.
LEMMA SettleInit == Init => SettleInv
<1> SUFFICES ASSUME Init
             PROVE  SettleInv
  OBVIOUS
<1>1. DOMAIN execs = {} /\ topic = {}
  BY DEF Init
<1>2. \A w \in Workers : SchedulerSettles(w) /\ ConsumerSettles(w)
  BY DEF Init, SchedulerSettles, ConsumerSettles, IdleScheduler, IdleConsumer
<1>3. \A j \in Jobs : RowSettles(j)
  BY DEF Init, RowSettles, NoRow
<1> QED BY <1>1, <1>2, <1>3 DEF SettleInv

\* A step that changes no execution, for each goroutine and row it changes.
LEMMA SettleFrame ==
    ASSUME SettleInv, UNCHANGED execs, \A e \in topic' : Newest(e),
           \A w \in Workers : \/ /\ sched'[w].pc = sched[w].pc /\ sched'[w].exec = sched[w].exec
                                 /\ sched'[w].job = sched[w].job
                              \/ SchedulerSettles(w)',
           \A w \in Workers : cons'[w] = cons[w] \/ ConsumerSettles(w)',
           \A j \in Jobs : \/ jobs'[j].status = jobs[j].status /\ jobs'[j].lock = jobs[j].lock
                           \/ RowSettles(j)'
    PROVE  SettleInv'
<1>1. \A e : Newest(e)' <=> Newest(e)
  BY DEF Newest
<1>2. \A j, s : Ended(j, s)' <=> Ended(j, s)
  BY <1>1 DEF Ended
<1>3. \A e \in topic' : Newest(e)'
  BY <1>1
<1>4. \A w \in Workers : SchedulerSettles(w)'
  BY <1>1, <1>2 DEF SettleInv, SchedulerSettles
<1>5. \A w \in Workers : ConsumerSettles(w)'
  BY <1>1 DEF SettleInv, ConsumerSettles
<1>6. \A j \in Jobs : RowSettles(j)'
  BY <1>2 DEF SettleInv, RowSettles, Locked
<1>7. \A e \in DOMAIN execs' : execs'[e].status # "deleted"
  BY DEF SettleInv
<1> QED BY <1>3, <1>4, <1>5, <1>6, <1>7 DEF SettleInv

\* The holder of job j changes executions of j only: nobody else has one, and j
\* has not ended.
LEMMA OthersSettle ==
    ASSUME TypeOK, FlightInv, SettleInv, NEW w \in Workers, NEW j \in Jobs,
           Queues(w, j) \/ Works(w, j),
           DOMAIN execs \subseteq DOMAIN execs',
           \A e \in DOMAIN execs' : \/ /\ e \in DOMAIN execs /\ execs'[e].job = execs[e].job
                                       /\ execs[e].job # j => execs'[e].status = execs[e].status
                                    \/ e \notin DOMAIN execs /\ execs'[e].job = j,
           UNCHANGED <<jobs, topic>>,
           \A v \in Workers \ {w} : sched'[v] = sched[v] /\ cons'[v] = cons[v]
    PROVE  /\ \A e \in topic' : Newest(e)'
           /\ \A v \in Workers \ {w} : SchedulerSettles(v)' /\ ConsumerSettles(v)'
           /\ Queues(w, j) /\ cons'[w] = cons[w] => ConsumerSettles(w)'
           /\ Works(w, j) /\ sched'[w] = sched[w] => SchedulerSettles(w)'
           /\ \A i \in Jobs : RowSettles(i)'
<1>0. /\ SingleFlight
      /\ \A v \in Workers : sched[v].pc \in {"produce", "fail"} =>
            sched[v].exec \in DOMAIN execs /\ execs[sched[v].exec].job = sched[v].job
      /\ \A v \in Workers : sched[v].pc \in {"insert", "produce", "fail", "unlock"} => sched[v].job \in Jobs
      /\ \A v \in Workers : cons[v].pc # "idle" =>
            cons[v].exec \in DOMAIN execs /\ execs[cons[v].exec].job = JobOf(v)
      /\ topic \subseteq DOMAIN execs
  BY Members DEF FlightInv, JobOf
<1>1. \A e \in DOMAIN execs : execs[e].job # j => (Newest(e)' <=> Newest(e))
  BY DEF Newest
<1>2. \A i, s : i # j /\ Ended(i, s) => Ended(i, s)'
  BY <1>1 DEF Ended
<1>3. Locked(j)
  BY <1>0 DEF SingleFlight
<1>4. \A e \in topic : execs[e].job # j
  BY <1>0, SoleHolder DEF Waits
<1>5. \A v \in Workers \ {w} : ~ Queues(v, j) /\ ~ Works(v, j)
  BY <1>0, SoleHolder
<1>6. /\ Queues(w, j) => ~ Works(w, j)
      /\ Works(w, j) => ~ Queues(w, j)
  BY <1>0, SoleHolder
<1>7. \A e \in topic' : Newest(e)'
  BY <1>0, <1>1, <1>4 DEF SettleInv
<1>8. ASSUME NEW v \in Workers, ~ Queues(v, j), sched'[v] = sched[v]
      PROVE  SchedulerSettles(v)'
  BY <1>0, <1>1, <1>2, <1>8 DEF SettleInv, SchedulerSettles, Queues
<1>9. ASSUME NEW v \in Workers, ~ Works(v, j), cons'[v] = cons[v]
      PROVE  ConsumerSettles(v)'
  <2>1. CASE cons[v].pc = "idle"
    BY <1>9, <2>1 DEF SettleInv, ConsumerSettles
  <2>2. CASE cons[v].pc # "idle"
    <3>1. execs[cons[v].exec].job # j /\ cons[v].exec \in DOMAIN execs
      BY <1>0, <1>9, <2>2 DEF Works
    <3>2. execs'[cons[v].exec].status = execs[cons[v].exec].status
      BY <3>1
    <3> QED BY <1>1, <1>9, <3>1, <3>2 DEF SettleInv, ConsumerSettles
  <2> QED BY <2>1, <2>2
<1>10. ASSUME NEW i \in Jobs
       PROVE  RowSettles(i)'
  <2>1. CASE i = j
    BY <1>3, <2>1 DEF SettleInv, RowSettles, Locked
  <2>2. CASE i # j
    BY <1>2, <2>2 DEF SettleInv, RowSettles, Locked
  <2> QED BY <2>1, <2>2
<1> QED BY <1>5, <1>6, <1>7, <1>8, <1>9, <1>10

\* The UPDATE of the status of an execution that is there.
LEMMA StatusSet ==
    ASSUME TypeOK, SettleInv, NEW e \in DOMAIN execs,
           NEW s \in {"pending", "running", "completed", "failed"}, execs' = WithStatus(e, s)
    PROVE  /\ DOMAIN execs' = DOMAIN execs
           /\ execs'[e].status = s
           /\ \A f \in DOMAIN execs : /\ execs'[f].job = execs[f].job
                                      /\ f # e => execs'[f].status = execs[f].status
           /\ \A f \in DOMAIN execs : Newest(f)' <=> Newest(f)
           /\ \A f \in DOMAIN execs' : execs'[f].status # "deleted"
<1>1. execs \in Seq(Execution) /\ \A f \in DOMAIN execs : execs[f].status # "deleted"
  BY Members DEF SettleInv
<1>2. execs[e] \in Execution
  BY <1>1
<1>3. execs' = [execs EXCEPT ![e].status = s]
  BY <1>1 DEF WithStatus
<1>4. /\ DOMAIN execs' = DOMAIN execs /\ execs'[e].status = s
      /\ \A f \in DOMAIN execs : /\ execs'[f].job = execs[f].job
                                 /\ f # e => execs'[f].status = execs[f].status
  BY <1>1, <1>2, <1>3 DEF Execution
<1>5. \A f \in DOMAIN execs' : execs'[f].status # "deleted"
  BY <1>1, <1>4
<1>6. \A f \in DOMAIN execs : Newest(f)' <=> Newest(f)
  BY <1>4 DEF Newest
<1> QED BY <1>4, <1>5, <1>6

\* Every job runs undisturbed, and no execution outlives its time limit.
Settling == Undisturbed /\ "timeout" \notin Faults

\* What a scheduler's step that creates and marks no execution leaves behind.
LEMMA SettleScheduler ==
    ASSUME Settling, TypeOK, FlightInv, SettleInv, NEW w \in Workers,
           \/ ReleaseStaleJobs(w) \/ SelectDueJobs(w) \/ SelectFailedJobs(w) \/ EndTick(w)
           \/ LockJob(w) \/ LoseJob(w) \/ InsertFails(w) \/ ProduceExecution(w)
           \/ ProduceFails(w) \/ UnlockFailedJob(w)
    PROVE  SettleInv'
<1>0. /\ \A e \in topic : Newest(e)
      /\ \A v \in Workers : sched[v].pc \in {"produce", "fail"} => Newest(sched[v].exec)
      /\ \A j \in Jobs : ~ jobs[j].stale
      /\ jobs \in [Jobs -> Row] /\ sched \in [Workers -> Scheduler]
  BY DEF SettleInv, SchedulerSettles, FlightInv, TypeOK, SchedulersOK
<1>1. CASE \/ ReleaseStaleJobs(w) \/ SelectDueJobs(w) \/ SelectFailedJobs(w)
           \/ EndTick(w) \/ LoseJob(w)
  <2>1. /\ \A v \in Workers : v # w => sched'[v] = sched[v]
        /\ sched'[w].pc \in {"release", "due", "queue"}
    <3>1. CASE ReleaseStaleJobs(w)
      BY <1>0, <3>1 DEF ReleaseStaleJobs, Scheduler
    <3>2. CASE SelectDueJobs(w)
      BY <1>0, <3>2 DEF SelectDueJobs, Scheduler
    <3>3. CASE SelectFailedJobs(w)
      BY <1>0, <3>3 DEF SelectFailedJobs, Scheduler
    <3>4. CASE EndTick(w)
      BY <1>0, <3>4 DEF EndTick, IdleScheduler
    <3>5. CASE LoseJob(w)
      BY <1>0, <3>5 DEF LoseJob, Scheduler
    <3> QED BY <1>1, <3>1, <3>2, <3>3, <3>4, <3>5
  <2>2. SchedulerSettles(w)'
    BY <2>1 DEF SchedulerSettles
  <2>3. jobs' = jobs
    <3>1. CASE ReleaseStaleJobs(w)
      BY <1>0, <3>1 DEF ReleaseStaleJobs
    <3> QED BY <1>1, <3>1 DEF SelectDueJobs, SelectFailedJobs, EndTick, LoseJob
  <2>4. UNCHANGED <<execs, topic, cons>>
    BY <1>1 DEF ReleaseStaleJobs, SelectDueJobs, SelectFailedJobs, EndTick, LoseJob
  <2> QED BY <1>0, <2>1, <2>2, <2>3, <2>4, SettleFrame
<1>2. CASE LockJob(w)
  <2>1. PICK t \in sched[w].todo :
           /\ jobs' = [jobs EXCEPT ![t.job] = LockedRow(jobs[t.job], w)]
           /\ sched' = [sched EXCEPT ![w] =
                          [@ EXCEPT !.pc = "insert", !.job = t.job, !.attempt = t.attempt,
                                    !.todo = sched[w].todo \ {t}]]
    BY <1>2 DEF LockJob
  <2>2. \A v \in Workers : IF v = w THEN sched'[v].pc = "insert" ELSE sched'[v] = sched[v]
    BY <1>0, <2>1 DEF Scheduler
  <2>3. SchedulerSettles(w)'
    BY <2>2 DEF SchedulerSettles
  <2>4. \A j \in Jobs : jobs'[j] = jobs[j] \/ jobs'[j].status = "pending"
    BY <1>0, <2>1 DEF LockedRow, Row
  <2>5. \A j \in Jobs : jobs'[j] = jobs[j] \/ RowSettles(j)'
    BY <2>4 DEF RowSettles
  <2>6. UNCHANGED <<execs, topic, cons>>
    BY <1>2 DEF LockJob
  <2> QED BY <1>0, <2>2, <2>3, <2>5, <2>6, SettleFrame
<1>3. CASE InsertFails(w) \/ UnlockFailedJob(w)
  <2>1. PICK j \in Jobs, s \in {"scheduled", "failed"} :
           /\ j = sched[w].job
           /\ jobs' = WithRow(j, [Unlocked(jobs[j]) EXCEPT !.status = s])
           /\ s = "failed" => Ended(j, "failed")
    <3>1. sched[w].job \in Jobs
      BY <1>3, Members DEF InsertFails, UnlockFailedJob
    <3>2. CASE InsertFails(w)
      BY <3>1, <3>2 DEF InsertFails
    <3>3. CASE UnlockFailedJob(w)
      <4>1. Ended(sched[w].job, "failed")
        BY <3>3 DEF UnlockFailedJob, SettleInv, SchedulerSettles
      <4> QED BY <3>1, <3>3, <4>1 DEF UnlockFailedJob
    <3> QED BY <1>3, <3>2, <3>3
  <2>2. UNCHANGED <<execs, topic, cons>> /\ sched' = NextTask(w)
    BY <1>3 DEF InsertFails, UnlockFailedJob
  <2>3. \A v \in Workers : IF v = w THEN sched'[v].pc = "queue" ELSE sched'[v] = sched[v]
    BY <1>0, <2>2 DEF NextTask, Scheduler
  <2>4. SchedulerSettles(w)'
    BY <2>3 DEF SchedulerSettles
  <2>5. \A i \in Jobs : \/ jobs'[i] = jobs[i]
                        \/ i = j /\ jobs'[i].status = s /\ jobs'[i].lock = NoWorker
    BY <1>0, <2>1 DEF WithRow, Unlocked, Row
  <2>6. Ended(j, "failed")' <=> Ended(j, "failed")
    BY <2>2 DEF Ended, Newest
  <2>7. \A i \in Jobs : jobs'[i] = jobs[i] \/ RowSettles(i)'
    BY <2>1, <2>5, <2>6 DEF RowSettles, Locked
  <2> QED BY <1>0, <2>2, <2>3, <2>4, <2>7, SettleFrame
<1>4. CASE ProduceExecution(w)
  <2>1. /\ topic' = topic \cup {sched[w].exec} /\ sched[w].pc = "produce"
        /\ UNCHANGED <<jobs, execs, cons>> /\ sched' = NextTask(w)
    BY <1>4 DEF ProduceExecution
  <2>2. \A v \in Workers : IF v = w THEN sched'[v].pc = "queue" ELSE sched'[v] = sched[v]
    BY <1>0, <2>1 DEF NextTask, Scheduler
  <2>3. SchedulerSettles(w)'
    BY <2>2 DEF SchedulerSettles
  <2>4. \A e \in topic' : Newest(e)
    BY <1>0, <2>1
  <2> QED BY <1>0, <2>1, <2>2, <2>3, <2>4, SettleFrame
<1>5. CASE ProduceFails(w)
  <2>1. /\ sched[w].pc = "produce" /\ topic' = topic
        /\ UNCHANGED <<jobs, execs, cons>> /\ sched' = [sched EXCEPT ![w].pc = "fail"]
    BY <1>5 DEF ProduceFails, Fault, Settling, Undisturbed
  <2>2. /\ \A v \in Workers : v # w => sched'[v] = sched[v]
        /\ sched'[w].pc = "fail" /\ sched'[w].exec = sched[w].exec
    BY <1>0, <2>1 DEF Scheduler
  <2>3. Newest(sched[w].exec)
    BY <1>0, <2>1
  <2>4. SchedulerSettles(w)'
    BY <2>1, <2>2, <2>3 DEF SchedulerSettles, Newest
  <2> QED BY <1>0, <2>1, <2>2, <2>4, SettleFrame
<1> QED BY <1>1, <1>2, <1>3, <1>4, <1>5

\* What a consumer's step that marks no execution leaves behind.
LEMMA SettleConsumer ==
    ASSUME Settling, TypeOK, FlightInv, SettleInv, NEW w \in Workers,
           \/ ReceiveExecution(w) \/ StartJob(w) \/ Execute(w)
           \/ ReadSchedule(w) \/ FinishJob(w)
    PROVE  SettleInv'
<1>0. /\ \A e \in topic : Newest(e)
      /\ ConsumerSettles(w)
      /\ jobs \in [Jobs -> Row] /\ cons \in [Workers -> Consumer] /\ cons[w] \in Consumer
  BY DEF SettleInv, TypeOK, ConsumersOK
<1>1. sched' = sched /\ execs' = execs
  BY DEF ReceiveExecution, StartJob, Execute, ReadSchedule, FinishJob
<1>2. \A v \in Workers : v # w => cons'[v] = cons[v]
  BY <1>0 DEF ReceiveExecution, StartJob, Execute, ReadSchedule, FinishJob
<1>3. \A e : Newest(e)' <=> Newest(e)
  BY <1>1 DEF Newest
<1>4. ASSUME topic' \subseteq topic, ConsumerSettles(w)',
             \A j \in Jobs : jobs'[j] = jobs[j] \/ RowSettles(j)'
      PROVE  SettleInv'
  BY <1>0, <1>1, <1>2, <1>4, SettleFrame
<1>5. CASE ReceiveExecution(w)
  <2>1. PICK x \in topic :
           /\ topic' = topic \ {x} /\ jobs' = jobs
           /\ cons' = [cons EXCEPT ![w] = [IdleConsumer EXCEPT !.pc = "startJob", !.exec = x]]
    BY <1>5 DEF ReceiveExecution
  <2>2. cons'[w].pc = "startJob" /\ cons'[w].exec = x /\ cons'[w].raced = FALSE
    BY <1>0, <2>1 DEF IdleConsumer
  <2>3. ConsumerSettles(w)'
    BY <1>0, <1>3, <2>2 DEF ConsumerSettles
  <2> QED BY <1>4, <2>1, <2>3
<1>6. CASE StartJob(w)
  <2>1. /\ cons[w].pc = "startJob" /\ topic' = topic
        /\ cons' = [cons EXCEPT ![w].pc = "startExec"]
        /\ jobs' = WithRow(JobOf(w), [jobs[JobOf(w)] EXCEPT !.status = "running", !.cooled = FALSE])
    BY <1>6 DEF StartJob
  <2>2. /\ cons'[w].pc = "startExec" /\ cons'[w].exec = cons[w].exec
        /\ cons'[w].raced = cons[w].raced
    BY <1>0, <2>1 DEF Consumer
  <2>3. ConsumerSettles(w)'
    BY <1>0, <1>3, <2>1, <2>2 DEF ConsumerSettles
  <2>4. \A j \in Jobs : jobs'[j] = jobs[j] \/ jobs'[j].status = "running"
    BY <1>0, <2>1 DEF WithRow, Row
  <2>5. \A j \in Jobs : jobs'[j] = jobs[j] \/ RowSettles(j)'
    BY <2>4 DEF RowSettles
  <2> QED BY <1>4, <2>1, <2>3, <2>5
<1>7. CASE Execute(w)
  <2>1. PICK o \in {"completed", "failed"} :
           cons' = [cons EXCEPT ![w] = [@ EXCEPT !.pc = "record", !.outcome = o,
                                                 !.raced = FALSE]]
    BY <1>7 DEF Execute, Settling
  <2>2. /\ cons'[w].pc = "record" /\ cons'[w].exec = cons[w].exec
        /\ cons'[w].raced = FALSE /\ cons[w].pc = "execute"
    BY <1>0, <1>7, <2>1 DEF Consumer, Execute
  <2>3. ConsumerSettles(w)'
    BY <1>0, <1>3, <2>2 DEF ConsumerSettles
  <2> QED BY <1>4, <1>7, <2>3 DEF Execute
<1>8. CASE ReadSchedule(w)
  <2>1. Outcomes(w) = {cons[w].outcome} /\ cons[w].pc = "schedule"
    BY <1>0, <1>8 DEF Outcomes, ConsumerSettles, ReadSchedule
  <2>2. PICK b \in BOOLEAN : b = jobs[JobOf(w)].recurring
    BY <1>8, JobOfType, <1>0 DEF ReadSchedule, Row
  <2>3. cons' = [cons EXCEPT ![w] = [@ EXCEPT !.pc = "finish",
                                              !.final = FinalStatus(cons[w].outcome, b)]]
    BY <1>8, <2>1, <2>2 DEF ReadSchedule
  <2>4. /\ cons'[w].pc = "finish" /\ cons'[w].exec = cons[w].exec
        /\ cons'[w].raced = cons[w].raced /\ cons'[w].outcome = cons[w].outcome
        /\ cons'[w].final = FinalStatus(cons[w].outcome, b)
    BY <1>0, <2>3 DEF Consumer
  <2>5. cons[w].outcome \in {"completed", "failed"}
    BY <2>1, Members DEF Consumer
  <2>6. FinalStatus(cons[w].outcome, b) \in {"scheduled", cons[w].outcome}
    <3>1. CASE cons[w].outcome = "failed"
      BY <3>1 DEF FinalStatus
    <3>2. CASE cons[w].outcome = "completed" /\ b
      BY <3>2 DEF FinalStatus
    <3>3. CASE cons[w].outcome = "completed" /\ ~ b
      BY <3>3 DEF FinalStatus
    <3> QED BY <2>2, <2>5, <3>1, <3>2, <3>3
  <2>7. execs[cons[w].exec].status = cons[w].outcome
    BY <1>0, <2>1 DEF ConsumerSettles
  <2>8. ConsumerSettles(w)'
    BY <1>0, <1>1, <1>3, <2>1, <2>4, <2>6, <2>7 DEF ConsumerSettles
  <2> QED BY <1>4, <1>8, <2>8 DEF ReadSchedule
<1>9. CASE FinishJob(w)
  <2>0. PICK j \in Jobs : j = JobOf(w)
    BY <1>9, JobOfType DEF FinishJob
  <2>1. /\ jobs' = WithRow(j, Finished(jobs[j], cons[w].final))
        /\ cons' = [cons EXCEPT ![w] = [IdleConsumer EXCEPT !.exec = cons[w].exec]]
        /\ topic' = topic /\ cons[w].pc = "finish"
    BY <1>9, <2>0 DEF FinishJob
  <2>2. cons'[w].pc = "idle" /\ cons'[w].raced = FALSE
    BY <1>0, <2>1 DEF IdleConsumer
  <2>3. ConsumerSettles(w)'
    BY <2>2 DEF ConsumerSettles
  <2>4. \A i \in Jobs : \/ jobs'[i] = jobs[i]
                        \/ i = j /\ jobs'[i].status = cons[w].final /\ jobs'[i].lock = NoWorker
    BY <1>0, <2>1 DEF WithRow, Finished, Unlocked, Row
  <2>5. cons[w].final # "scheduled" => Ended(j, cons[w].final)
    <3>1. cons[w].exec \in DOMAIN execs /\ execs[cons[w].exec].job = j
      BY <2>0, <2>1, Members DEF JobOf
    <3> QED BY <1>0, <2>1, <3>1 DEF ConsumerSettles, Ended
  <2>6. \A s : Ended(j, s)' <=> Ended(j, s)
    BY <1>1, <1>3 DEF Ended
  <2>8. \A i \in Jobs : jobs'[i] = jobs[i] \/ RowSettles(i)'
    BY <2>4, <2>5, <2>6 DEF RowSettles, Locked
  <2> QED BY <1>4, <2>1, <2>3, <2>8
<1> QED BY <1>5, <1>6, <1>7, <1>8, <1>9

\* A status set on execution e, by the holder of its job j.
LEMMA SettleMark ==
    ASSUME TypeOK, FlightInv, SettleInv, NEW w \in Workers, NEW e \in DOMAIN execs,
           NEW j \in Jobs, execs[e].job = j, Newest(e), Queues(w, j) \/ Works(w, j),
           NEW s \in {"pending", "running", "completed", "failed"}, execs' = WithStatus(e, s),
           UNCHANGED <<jobs, topic>>,
           \A v \in Workers \ {w} : sched'[v] = sched[v] /\ cons'[v] = cons[v],
           \/ Queues(w, j) /\ cons'[w] = cons[w] /\ SchedulerSettles(w)'
           \/ Works(w, j) /\ sched'[w] = sched[w] /\ ConsumerSettles(w)'
    PROVE  SettleInv'
<1>1. /\ DOMAIN execs' = DOMAIN execs
      /\ \A f \in DOMAIN execs : /\ execs'[f].job = execs[f].job
                                 /\ f # e => execs'[f].status = execs[f].status
      /\ \A f \in DOMAIN execs' : execs'[f].status # "deleted"
  BY StatusSet
<1>2. \A f \in DOMAIN execs' : \/ /\ f \in DOMAIN execs /\ execs'[f].job = execs[f].job
                                  /\ execs[f].job # j => execs'[f].status = execs[f].status
                               \/ f \notin DOMAIN execs /\ execs'[f].job = j
  BY <1>1
<1>3. /\ \A f \in topic' : Newest(f)'
      /\ \A v \in Workers \ {w} : SchedulerSettles(v)' /\ ConsumerSettles(v)'
      /\ Queues(w, j) /\ cons'[w] = cons[w] => ConsumerSettles(w)'
      /\ Works(w, j) /\ sched'[w] = sched[w] => SchedulerSettles(w)'
      /\ \A i \in Jobs : RowSettles(i)'
  BY <1>1, <1>2, OthersSettle
<1> QED BY <1>1, <1>3 DEF SettleInv

\* queueJob's INSERT makes the newest execution of the job that it has locked.
LEMMA SettleInsert ==
    ASSUME TypeOK, FlightInv, SettleInv, NEW w \in Workers, InsertExecution(w)
    PROVE  SettleInv'
<1>0. PICK j \in Jobs, n \in Nat : j = sched[w].job /\ n = sched[w].attempt
  BY Members DEF InsertExecution, Scheduler
<1>1. PICK k : k = Len(execs) + 1
  OBVIOUS
<1>2. /\ execs' = Append(execs, Pending(j, n))
      /\ sched' = [sched EXCEPT ![w] = [@ EXCEPT !.pc = "produce", !.exec = k]]
      /\ UNCHANGED <<jobs, topic, cons>>
      /\ Queues(w, j)
  BY <1>0, <1>1 DEF InsertExecution, Queues
<1>3. /\ execs \in Seq(Execution) /\ sched \in [Workers -> Scheduler]
  BY DEF TypeOK, SchedulersOK
<1>4. /\ k \in Nat /\ DOMAIN execs' = DOMAIN execs \cup {k} /\ k \notin DOMAIN execs
      /\ execs'[k] = Pending(j, n)
      /\ \A f \in DOMAIN execs : execs'[f] = execs[f] /\ f <= k
  BY <1>1, <1>2, <1>3, Appends
<1>5. execs'[k].job = j /\ execs'[k].status = "pending"
  BY <1>4 DEF Pending
<1>6. Newest(k)'
  BY <1>4 DEF Newest
<1>7. /\ \A v \in Workers \ {w} : sched'[v] = sched[v] /\ cons'[v] = cons[v]
      /\ sched'[w].pc = "produce" /\ sched'[w].exec = k
  BY <1>2, <1>3 DEF Scheduler
<1>8. SchedulerSettles(w)'
  BY <1>6, <1>7 DEF SchedulerSettles
<1>9. /\ \A f \in topic' : Newest(f)'
      /\ \A v \in Workers \ {w} : SchedulerSettles(v)' /\ ConsumerSettles(v)'
      /\ ConsumerSettles(w)'
      /\ \A i \in Jobs : RowSettles(i)'
  <2>1. \A f \in DOMAIN execs' : \/ /\ f \in DOMAIN execs /\ execs'[f].job = execs[f].job
                                    /\ execs[f].job # j => execs'[f].status = execs[f].status
                                 \/ f \notin DOMAIN execs /\ execs'[f].job = j
    BY <1>4, <1>5
  <2>2. DOMAIN execs \subseteq DOMAIN execs' /\ cons'[w] = cons[w]
    BY <1>2, <1>4
  <2> QED BY <1>2, <1>7, <2>1, <2>2, OthersSettle
<1>10. \A f \in DOMAIN execs' : execs'[f].status # "deleted"
  BY <1>4, <1>5 DEF SettleInv
<1> QED BY <1>8, <1>9, <1>10 DEF SettleInv

\* A scheduler marks the execution failed that it could not produce; a consumer
\* marks its own running, and then as it ended.
LEMMA SettleMarks ==
    ASSUME TypeOK, FlightInv, SettleInv, NEW w \in Workers,
           FailExecution(w) \/ StartExecution(w) \/ RecordExecution(w)
    PROVE  SettleInv'
<1>0. /\ sched \in [Workers -> Scheduler] /\ cons \in [Workers -> Consumer]
      /\ SchedulerSettles(w) /\ ConsumerSettles(w)
  BY DEF TypeOK, SchedulersOK, ConsumersOK, SettleInv
<1>1. CASE FailExecution(w)
  <2>0. PICK e \in DOMAIN execs, j \in Jobs : e = sched[w].exec /\ j = sched[w].job
    BY <1>1, Members DEF FailExecution
  <2>1. /\ execs[e].job = j /\ Newest(e) /\ Queues(w, j)
        /\ execs' = WithStatus(e, "failed")
        /\ sched' = [sched EXCEPT ![w].pc = "unlock"]
        /\ UNCHANGED <<jobs, topic, cons>>
    BY <1>0, <1>1, <2>0 DEF FailExecution, FlightInv, SchedulerSettles, Queues
  <2>2. /\ \A v \in Workers \ {w} : sched'[v] = sched[v] /\ cons'[v] = cons[v]
        /\ sched'[w].pc = "unlock" /\ sched'[w].job = j /\ cons'[w] = cons[w]
    BY <1>0, <2>0, <2>1 DEF Scheduler
  <2>3. /\ e \in DOMAIN execs' /\ execs'[e].job = j /\ execs'[e].status = "failed"
        /\ Newest(e)'
    BY <2>1, StatusSet
  <2>4. SchedulerSettles(w)'
    BY <2>2, <2>3 DEF SchedulerSettles, Ended
  <2> QED BY <2>1, <2>2, <2>4, SettleMark
<1>2. CASE StartExecution(w) \/ RecordExecution(w)
  <2>0. PICK e \in DOMAIN execs, j \in Jobs : e = cons[w].exec /\ j = execs[e].job
    BY <1>2, Members, JobOfType DEF StartExecution, RecordExecution, JobOf
  <2>1. /\ cons[w].pc # "idle" /\ Newest(e) /\ Works(w, j)
        /\ UNCHANGED <<jobs, topic, sched>>
    BY <1>0, <1>2, <2>0 DEF StartExecution, RecordExecution, ConsumerSettles, Works, JobOf
  <2>2. \A v \in Workers \ {w} : sched'[v] = sched[v] /\ cons'[v] = cons[v]
    <3>1. PICK c : cons' = [cons EXCEPT ![w] = c]
      <4>1. CASE StartExecution(w)
        BY <4>1 DEF StartExecution
      <4>2. CASE RecordExecution(w)
        BY <4>2 DEF RecordExecution
      <4> QED BY <1>2, <4>1, <4>2
    <3> QED BY <1>0, <2>1, <3>1
  <2>3. PICK s \in {"running", "completed", "failed"} :
           /\ execs' = WithStatus(e, s)
           /\ \/ cons'[w].pc = "execute"
              \/ cons'[w].pc = "schedule" /\ cons'[w].outcome = s
           /\ cons'[w].exec = e /\ cons'[w].raced = cons[w].raced
    <3>1. CASE StartExecution(w)
      BY <1>0, <2>0, <3>1 DEF StartExecution, Consumer
    <3>2. CASE RecordExecution(w)
      <4>1. PICK o \in Outcomes(w) :
               /\ execs' = WithStatus(e, o)
               /\ cons' = [cons EXCEPT ![w] = [@ EXCEPT !.pc = "schedule", !.outcome = o]]
        BY <2>0, <3>2 DEF RecordExecution
      <4>2. o \in {"completed", "failed"}
        BY <3>2, Members DEF RecordExecution, Outcomes, Consumer
      <4>3. /\ cons'[w].pc = "schedule" /\ cons'[w].outcome = o
            /\ cons'[w].exec = e /\ cons'[w].raced = cons[w].raced
        BY <1>0, <2>0, <4>1 DEF Consumer
      <4> QED BY <4>1, <4>2, <4>3
    <3> QED BY <1>2, <3>1, <3>2
  <2>4. execs'[e].status = s /\ Newest(e)'
    BY <2>1, <2>3, StatusSet
  <2>5. ConsumerSettles(w)'
    BY <1>0, <2>3, <2>4 DEF ConsumerSettles
  <2>6. sched'[w] = sched[w]
    BY <2>1
  <2> QED BY <2>0, <2>1, <2>2, <2>3, <2>5, <2>6, SettleMark
<1> QED BY <1>1, <1>2

\* Every step keeps the invariant.
LEMMA SettleStep ==
    ASSUME Settling, TypeOK, FlightInv, SettleInv, [Next]_vars
    PROVE  SettleInv'
<1>0. \A e \in topic : Newest(e)
  BY DEF SettleInv
<1>1. ASSUME NEW j \in Jobs, CreateJob(j) \/ BecomesDue(j) \/ Cools(j)
      PROVE  SettleInv'
  <2>0. jobs \in [Jobs -> Row]
    BY DEF TypeOK
  <2>1. \A i \in Jobs : \/ jobs'[i].status = jobs[i].status /\ jobs'[i].lock = jobs[i].lock
                        \/ jobs'[i].status = "scheduled"
    <3>1. CASE CreateJob(j)
      BY <2>0, <3>1 DEF CreateJob, NewRow, NoRow
    <3>2. CASE BecomesDue(j) \/ Cools(j)
      BY <2>0, <3>2 DEF BecomesDue, Cools, Row
    <3> QED BY <1>1, <3>1, <3>2
  <2>2. \A i \in Jobs : \/ jobs'[i].status = jobs[i].status /\ jobs'[i].lock = jobs[i].lock
                        \/ RowSettles(i)'
    BY <2>1 DEF RowSettles
  <2>3. UNCHANGED <<execs, topic, sched, cons>>
    BY <1>1 DEF CreateJob, BecomesDue, Cools
  <2> QED BY <1>0, <2>2, <2>3, SettleFrame
<1>2. CASE UNCHANGED vars
  BY <1>0, <1>2, SettleFrame DEF vars
<1> QED
  BY <1>1, <1>2, SettleScheduler, SettleConsumer, SettleInsert, SettleMarks DEF Settling, Undisturbed,
     Next, Tick, Queueing, Consume, Time, LockAges, Crash, Fault

\* SettledAgrees from its parts: an execution of an unlocked job that were
\* pending or running would be in somebody's hands.
LEMMA SettleImplies ==
    ASSUME Settling, TypeOK, FlightInv, SettleInv, NoneForgotten
    PROVE  SettledAgrees
<1>0. execs \in Seq(Execution) /\ DOMAIN execs \subseteq Nat
  BY DEF TypeOK
<1>1. ASSUME NEW j \in Jobs, NEW s, Ended(j, s)
      PROVE  ExecsOf(j) # {} /\ execs[Latest(j)].status = s
  <2>1. PICK e \in DOMAIN execs : execs[e].job = j /\ Newest(e) /\ execs[e].status = s
    BY <1>1 DEF Ended
  <2>2. e \in ExecsOf(j) /\ \A f \in ExecsOf(j) : f <= e
    BY <2>1 DEF ExecsOf, Newest
  <2>3. Latest(j) \in ExecsOf(j) /\ \A f \in ExecsOf(j) : f <= Latest(j)
    BY <2>2 DEF Latest
  <2>4. Latest(j) = e
    <3>1. Latest(j) \in Nat /\ e \in Nat
      BY <1>0, <2>2, <2>3 DEF ExecsOf
    <3> QED BY <2>2, <2>3, <3>1
  <2> QED BY <2>1, <2>2, <2>4
<1>2. ASSUME NEW j \in Jobs, ~ Locked(j), NEW e \in ExecsOf(j),
             execs[e].status \in {"pending", "running"}
      PROVE  FALSE
  <2>0. Free(j)
    BY <1>2, UnlockedIsFree DEF FlightInv
  <2>1. e \in DOMAIN execs /\ execs[e].job = j
    BY <1>2 DEF ExecsOf
  <2>2. \/ e \in topic
        \/ \E w \in Workers : sched[w].pc \in {"produce", "fail"} /\ sched[w].exec = e
        \/ \E w \in Workers : cons[w].pc # "idle" /\ cons[w].exec = e
    BY <1>2, <2>1 DEF NoneForgotten, Settling, Undisturbed
  <2>3. CASE e \in topic
    BY <2>0, <2>1, <2>3 DEF Free, Waits
  <2>4. ASSUME NEW w \in Workers, sched[w].pc \in {"produce", "fail"}, sched[w].exec = e
        PROVE  FALSE
    BY <2>0, <2>1, <2>4 DEF Free, Queues, FlightInv
  <2>5. ASSUME NEW w \in Workers, cons[w].pc # "idle", cons[w].exec = e
        PROVE  FALSE
    BY <2>0, <2>1, <2>5 DEF Free, Works, JobOf
  <2> QED BY <2>2, <2>3, <2>4, <2>5
<1>3. \A j \in Jobs : RowSettles(j)
  BY DEF SettleInv
<1> QED BY <1>1, <1>2, <1>3 DEF SettledAgrees, RowSettles

\* As long as nothing takes a lock away and no execution outlives its time
\* limit, a job at rest agrees with its newest execution: what jobs.status and
\* job_executions say of it are the same, and nothing of it is left half done.
THEOREM SettledAgreesHolds ==
    ASSUME Settling
    PROVE  Spec => []SettledAgrees
<1>1. Init => TypeOK /\ FlightInv /\ SettleInv
  BY TypeInit, FlightInit, SettleInit
<1>2. TypeOK /\ FlightInv /\ SettleInv /\ [Next]_vars => (TypeOK /\ FlightInv /\ SettleInv)'
  BY TypeStep, FlightStep, SettleStep DEF Settling
<1>3. TypeOK /\ FlightInv /\ SettleInv /\ NoneForgotten => SettledAgrees
  BY SettleImplies
<1> QED BY <1>1, <1>2, <1>3, NoneForgottenHolds, PTL DEF Spec

=============================================================================
