------------------------- MODULE ScanPipelineProofs -------------------------
(***************************************************************************)
(* Theorems about ScanPipeline for any number of scans, requests, workers    *)
(* and columns, under every fault: the types; that a source is "scanning"    *)
(* only while some scan is in flight, unless a fault stranded it; that a     *)
(* scan is classified only after an ingestion filled DataHub; that failed    *)
(* DELETEs and workers at once bound the rows of a column. And, if nothing   *)
(* is delivered twice (Once): that a completed scan log stays completed.     *)
(*                                                                           *)
(* The first needs to know that a scan has its stages in order (Staged), the *)
(* second what the sidecar's entry and the callbacks say (Faithful), the     *)
(* third how many workers have yet to insert a column's row (Pending), the   *)
(* last that a scan is in one place at a time (Exclusive) and that a         *)
(* completed log has no one left to change it (Final).                       *)
(***************************************************************************)
EXTENDS ScanPipeline, FiniteSetTheorems, TLAPS

\* No worker dies, and no message is kept whose sender was told that it failed.
Once == Faults \cap {"worker", "ambiguous"} = {}

\* A scan is ingested after its trigger, and reported after its ingestion.
Staged == \A s \in Scans :
    /\ triggers[s] \in {"new", "write", "log", "refetch", "call"} => ingestions[s] = "none"
    /\ ingestions[s] \in {"none", "running"} => callbacks[s] = "none"

Held(s) == \E w \in Workers : workers[w].msg = s

\* A scan is with its callback, in one of the topics or in the hands of one worker.
Exclusive == \A s \in Scans :
    /\ callbacks[s] # "done" => s \notin executions \cup queue /\ ~Held(s)
    /\ s \in executions => s \notin queue
    /\ s \in executions \cup queue => ~Held(s)
    /\ \A v, w \in Workers : workers[v].msg = s /\ workers[w].msg = s => v = w

\* The scan of a completed log has been taken off both topics for the last time.
Final == \A s \in Scans : logs[s] = "completed" =>
    /\ callbacks[s] = "done" /\ s \notin executions \cup queue
    /\ \A w \in Workers : workers[w].msg = s => workers[w].pc = "activate"

-----------------------------------------------------------------------------
\* A worker that goes on keeps its message, and the others are left alone.
LEMMA WorkSets ==
    ASSUME TypeOK, NEW w \in Workers, NEW pc, NEW todo, Work(w, pc, todo)
    PROVE  /\ workers'[w].pc = pc /\ workers'[w].todo = todo
           /\ workers'[w].msg = workers[w].msg
           /\ \A v \in Workers \ {w} : workers'[v] = workers[v]
BY DEF TypeOK, Consumer, Work

\* A busy worker that goes on with its message keeps the types.
LEMMA WorkTypes ==
    ASSUME TypeOK, NEW w \in Workers, workers[w].pc # "idle",
           NEW pc \in {"load", "failLog", "failSource", "clear", "classify", "activate"},
           NEW todo \in SUBSET Columns, Work(w, pc, todo)
    PROVE  /\ workers' \in [Workers -> Consumer]
           /\ \A v \in Workers : workers'[v].msg = NoMessage <=> workers'[v].pc = "idle"
<1> DEFINE old == workers[w]
           new == [old EXCEPT !.pc = pc, !.todo = todo]
<1>1. workers' = [workers EXCEPT ![w] = new]
  BY DEF Work
<1>2. old \in Consumer /\ old.pc # "idle" /\ old.msg # NoMessage
  BY DEF TypeOK
<1>3. new \in Consumer /\ new.pc = pc /\ new.msg = old.msg
  BY <1>2 DEF Consumer
<1> HIDE DEF new, old
<1>4. workers' \in [Workers -> Consumer]
  BY <1>1, <1>3 DEF TypeOK
<1>5. workers'[w] = new /\ \A v \in Workers \ {w} : workers'[v] = workers[v]
  BY <1>1 DEF TypeOK
<1>6. new.msg # NoMessage /\ new.pc # "idle"
  BY <1>2, <1>3
<1> QED  BY <1>4, <1>5, <1>6 DEF TypeOK

\* A fault is counted, and may be remembered.
LEMMA FaultTypes ==
    ASSUME TypeOK, NEW kind,
           \/ Drop(kind)
           \/ Fault(kind) /\ UNCHANGED stranded
           \/ UNCHANGED <<stranded, faults>>
    PROVE  stranded' \in BOOLEAN /\ faults' \in Nat
<1>1. stranded' \in BOOLEAN
  BY Zenon DEF TypeOK, Drop
<1>2. faults' \in Nat
  BY DEF TypeOK, Drop, Fault
<1> QED  BY <1>1, <1>2

\* A worker that becomes idle keeps the types.
LEMMA IdleTypes ==
    ASSUME TypeOK, NEW w \in Workers, workers' = [workers EXCEPT ![w] = Idle]
    PROVE  /\ workers' \in [Workers -> Consumer]
           /\ \A v \in Workers : workers'[v].msg = NoMessage <=> workers'[v].pc = "idle"
<1>1. Idle \in Consumer
  BY DEF Idle, Consumer
<1>2. workers' \in [Workers -> Consumer]
  BY <1>1 DEF TypeOK
<1> QED  BY <1>2 DEF TypeOK, Idle

\* Every step keeps the types.
LEMMA TypesStep ==
    ASSUME TypeOK, [Next]_vars
    PROVE  TypeOK'
<1> DEFINE Goal == TypeOK'
<1> USE DEF TypeOK, SourceStatus, LogStatus, EntryStatus, Trigger, Ingestion, Callback,
        Message, Consumer, Idle, gateway, topics, sidecar, source, classified, tables,
        SetStatus, SetLog, Fault, Drop, Goto, Post, Answer, StartIngestion
<1>1. CASE UNCHANGED vars
  BY <1>1 DEF vars
<1>2. ASSUME NEW s \in Scans, TriggerRead(s) PROVE Goal
  BY <1>2, ConstantsAssumption DEF TriggerRead
<1>3. ASSUME NEW s \in Scans, TriggerRefused(s) PROVE Goal
  BY <1>3, ConstantsAssumption DEF TriggerRefused
<1>4. ASSUME NEW s \in Scans, TriggerWrite(s) PROVE Goal
  BY <1>4, ConstantsAssumption DEF TriggerWrite
<1>5. ASSUME NEW s \in Scans, TriggerLog(s) PROVE Goal
  BY <1>5, ConstantsAssumption DEF TriggerLog
<1>6. ASSUME NEW s \in Scans, TriggerRefetch(s) PROVE Goal
  BY <1>6, ConstantsAssumption DEF TriggerRefetch
<1>7. ASSUME NEW s \in Scans, CallSidecar(s) PROVE Goal
  BY <1>7, ConstantsAssumption DEF CallSidecar
<1>8. ASSUME NEW s \in Scans, CallRefused(s) PROVE Goal
  BY <1>8, ConstantsAssumption DEF CallRefused
<1>9. ASSUME NEW s \in Scans, CallUnanswered(s) PROVE Goal
  BY <1>9, ConstantsAssumption DEF CallUnanswered
<1>10. ASSUME NEW s \in Scans, SettleError(s) PROVE Goal
  BY <1>10, ConstantsAssumption DEF SettleError
<1>11. ASSUME NEW s \in Scans, Ingest(s) PROVE Goal
  <2>1. PICK result \in {"completed", "failed"} :
          /\ entry' = result
          /\ ingestions' = [ingestions EXCEPT ![s] = result]
          /\ schema' \in IF result = "completed" THEN {TRUE} ELSE {schema, TRUE}
    BY <1>11 DEF Ingest
  <2>2. schema' \in BOOLEAN
    BY <2>1
  <2> QED  BY <1>11, <2>1, <2>2 DEF Ingest
<1>12. ASSUME NEW s \in Scans, Report(s) PROVE Goal
  BY <1>12, ConstantsAssumption DEF Report
<1>13. ASSUME NEW s \in Scans, ReportLost(s) PROVE Goal
  BY <1>13, ConstantsAssumption DEF ReportLost
<1>14. ASSUME NEW s \in Scans, CallbackRead(s) PROVE Goal
  BY <1>14, ConstantsAssumption DEF CallbackRead
<1>15. ASSUME NEW s \in Scans, CallbackQueue(s) PROVE Goal
  BY <1>15, ConstantsAssumption DEF CallbackQueue
<1>16. ASSUME NEW s \in Scans, CallbackQueueFails(s) PROVE Goal
  BY <1>16, ConstantsAssumption DEF CallbackQueueFails
<1>17. ASSUME NEW s \in Scans, CallbackError(s) PROVE Goal
  BY <1>17, ConstantsAssumption DEF CallbackError
<1>18. ASSUME NEW s \in Scans, CallbackLog(s) PROVE Goal
  BY <1>18, ConstantsAssumption DEF CallbackLog
<1>19. ASSUME NEW s \in Scans, Relay(s) PROVE Goal
  BY <1>19, ConstantsAssumption DEF Relay
<1>20. ASSUME NEW s \in Scans, RelayFails(s) PROVE Goal
  BY <1>20, ConstantsAssumption DEF RelayFails
<1>21. ASSUME NEW s \in Scans, RelayRepeats(s) PROVE Goal
  BY <1>21, ConstantsAssumption DEF RelayRepeats
<1>22. ASSUME NEW s \in Scans, Watchdog(s) PROVE Goal
  BY <1>22, ConstantsAssumption DEF Watchdog
<1>23. ASSUME NEW w \in Workers, Receive(w) PROVE Goal
  <2>1. PICK m \in queue :
          /\ queue' = queue \ {m}
          /\ workers' = [workers EXCEPT ![w] = [pc |-> "load", msg |-> m, todo |-> {}]]
    BY <1>23 DEF Receive
  <2> DEFINE new == [pc |-> "load", msg |-> m, todo |-> {}]
  <2>2. new \in Consumer /\ new.msg # NoMessage /\ new.pc # "idle"
    <3>1. m \in Message /\ m # NoMessage
      BY <2>1, ConstantsAssumption
    <3> QED  BY <3>1
  <2>3. workers' = [workers EXCEPT ![w] = new]
    BY <2>1
  <2> HIDE DEF new
  <2>4. workers' \in [Workers -> Consumer]
    BY <2>2, <2>3
  <2>5. workers'[w] = new /\ \A v \in Workers \ {w} : workers'[v] = workers[v]
    BY <2>3
  <2>6. \A v \in Workers : workers'[v].msg = NoMessage <=> workers'[v].pc = "idle"
    BY <2>2, <2>5
  <2>7. queue' \subseteq Message
    BY <2>1
  <2> QED  BY <1>23, <2>4, <2>6, <2>7 DEF Receive
<1>24. ASSUME NEW w \in Workers, NotFound(w) PROVE Goal
  <2>1. logs' \in [Scans -> LogStatus]
    BY <1>24 DEF NotFound
  <2>2. stranded' \in BOOLEAN /\ faults' \in Nat
    <3> HIDE DEF TypeOK, Drop, Fault
    <3>1. \E kind : \/ Drop(kind)
                    \/ Fault(kind) /\ UNCHANGED stranded
                    \/ UNCHANGED <<stranded, faults>>
      BY <1>24, Zenon DEF NotFound
    <3> QED  BY <3>1, FaultTypes
  <2>3. workers' = [workers EXCEPT ![w] = Idle]
    BY <1>24 DEF NotFound
  <2>4. workers' \in [Workers -> Consumer]
        /\ \A v \in Workers : workers'[v].msg = NoMessage <=> workers'[v].pc = "idle"
    BY <2>3, IdleTypes
  <2> QED  BY <1>24, <2>1, <2>2, <2>4 DEF NotFound
<1>25. ASSUME NEW w \in Workers, Load(w) PROVE Goal
  <2>1. workers[w].pc # "idle" /\ Work(w, "clear", Columns)
    BY <1>25 DEF Load
  <2>2. Columns \in SUBSET Columns
    BY Z3 DEF Consumer
  <2> QED  BY <1>25, <2>1, <2>2, WorkTypes DEF Load
<1>26. ASSUME NEW w \in Workers, LoadFails(w) PROVE Goal
  <2>1. workers[w].pc # "idle" /\ Work(w, "failLog", {})
    BY <1>26 DEF LoadFails
  <2>2. {} \in SUBSET Columns
    BY Z3 DEF Consumer
  <2> QED  BY <1>26, <2>1, <2>2, WorkTypes DEF LoadFails
<1>27. ASSUME NEW w \in Workers, FailLog(w) PROVE Goal
  <2>1. workers[w].pc # "idle" /\ Work(w, "failSource", {})
    BY <1>27 DEF FailLog
  <2>2. {} \in SUBSET Columns
    BY Z3 DEF Consumer
  <2> QED  BY <1>27, <2>1, <2>2, WorkTypes DEF FailLog
<1>28. ASSUME NEW w \in Workers, FailSource(w) PROVE Goal
  BY <1>28, ConstantsAssumption DEF FailSource
<1>29. ASSUME NEW w \in Workers, Clear(w) PROVE Goal
  <2>1. workers[w].pc # "idle" /\ Work(w, "classify", workers[w].todo)
    BY <1>29 DEF Clear
  <2>2. workers[w].todo \in SUBSET Columns
    BY Z3 DEF Consumer
  <2> QED  BY <1>29, <2>1, <2>2, WorkTypes DEF Clear
<1>30. ASSUME NEW w \in Workers, Classify(w) PROVE Goal
  <2>1. PICK c \in workers[w].todo :
          /\ \/ status # "deleted" /\ rows' = [rows EXCEPT ![c] = @ + 1]
             \/ UNCHANGED rows
          /\ Work(w, "classify", workers[w].todo \ {c})
    BY <1>30 DEF Classify
  <2>2. workers[w].todo \in SUBSET Columns
    BY DEF Consumer
  <2>3. rows' \in [Columns -> Nat]
    BY <2>1, <2>2
  <2>4. workers[w].todo \ {c} \in SUBSET Columns /\ workers[w].pc # "idle"
    BY <1>30, <2>2 DEF Classify
  <2> QED  BY <1>30, <2>1, <2>3, <2>4, WorkTypes DEF Classify
<1>31. ASSUME NEW w \in Workers, CompleteLog(w) PROVE Goal
  <2>1. workers[w].pc # "idle" /\ Work(w, "activate", {})
    BY <1>31 DEF CompleteLog
  <2>2. {} \in SUBSET Columns
    BY Z3 DEF Consumer
  <2> QED  BY <1>31, <2>1, <2>2, WorkTypes DEF CompleteLog
<1>32. ASSUME NEW w \in Workers, Activate(w) PROVE Goal
  BY <1>32, ConstantsAssumption DEF Activate
<1>33. ASSUME NEW w \in Workers, WorkerCrash(w) PROVE Goal
  <2>1. workers[w].msg \in Message
    BY <1>33 DEF WorkerCrash
  <2>2. queue' \subseteq Message
    BY <1>33, <2>1 DEF WorkerCrash
  <2>5. stranded' \in BOOLEAN /\ faults' \in Nat
    <3> HIDE DEF TypeOK, Drop, Fault
    <3>1. \E kind : \/ Drop(kind)
                    \/ Fault(kind) /\ UNCHANGED stranded
                    \/ UNCHANGED <<stranded, faults>>
      BY <1>33, Zenon DEF WorkerCrash
    <3> QED  BY <3>1, FaultTypes
  <2>3. workers' = [workers EXCEPT ![w] = Idle]
    BY <1>33 DEF WorkerCrash
  <2>4. workers' \in [Workers -> Consumer]
        /\ \A v \in Workers : workers'[v].msg = NoMessage <=> workers'[v].pc = "idle"
    BY <2>3, IdleTypes
  <2> QED  BY <1>33, <2>2, <2>4, <2>5 DEF WorkerCrash
<1>34. ASSUME NEW r \in Requests, UpdateRead(r) PROVE Goal
  BY <1>34, ConstantsAssumption DEF UpdateRead
<1>35. ASSUME NEW r \in Requests, UpdateWrite(r) PROVE Goal
  BY <1>35, ConstantsAssumption DEF UpdateWrite
<1>36. ASSUME NEW r \in Requests, DeleteSource(r) PROVE Goal
  BY <1>36, ConstantsAssumption DEF DeleteSource
<1>37. ASSUME NEW r \in Requests, Reclassify(r) PROVE Goal
  BY <1>37, ConstantsAssumption DEF Reclassify
<1>38. CASE SidecarCrash
  BY <1>38, ConstantsAssumption DEF SidecarCrash
<1>39. CASE GatewayCrash
  BY <1>39, ConstantsAssumption DEF GatewayCrash
<1>40. ASSUME NEW s \in Scans, TriggerFails(s) PROVE Goal
  BY <1>40, ConstantsAssumption DEF TriggerFails
<1>41. ASSUME NEW s \in Scans, TriggerGivesUp(s) PROVE Goal
  BY <1>41, ConstantsAssumption DEF TriggerGivesUp
<1>42. ASSUME NEW s \in Scans, CallbackFails(s) PROVE Goal
  <2>1. callbacks' \in [Scans -> Callback]
    BY <1>42 DEF CallbackFails
  <2>2. stranded' \in BOOLEAN /\ faults' \in Nat
    <3> HIDE DEF TypeOK, Drop, Fault
    <3>1. \E kind : \/ Drop(kind)
                    \/ Fault(kind) /\ UNCHANGED stranded
                    \/ UNCHANGED <<stranded, faults>>
      BY <1>42, Zenon DEF CallbackFails
    <3> QED  BY <3>1, FaultTypes
  <2>3. UNCHANGED <<status, logs, triggers, requests, classified, sidecar, topics, workers>>
    BY <1>42 DEF CallbackFails
  <2> QED  BY <2>1, <2>2, <2>3
<1>43. ASSUME NEW s \in Scans, CallbackGivesUp(s) PROVE Goal
  BY <1>43, ConstantsAssumption DEF CallbackGivesUp
<1>44. ASSUME NEW r \in Requests, UpdateFails(r) PROVE Goal
  BY <1>44, ConstantsAssumption DEF UpdateFails
<1>45. ASSUME NEW w \in Workers, ClearFails(w) PROVE Goal
  <2>1. workers[w].pc # "idle" /\ Work(w, "classify", workers[w].todo)
    BY <1>45 DEF ClearFails
  <2>2. workers[w].todo \in SUBSET Columns
    BY Z3 DEF Consumer
  <2> QED  BY <1>45, <2>1, <2>2, WorkTypes DEF ClearFails
<1>46. ASSUME NEW w \in Workers, WorkerFails(w) PROVE Goal
  <2>1. UNCHANGED <<status, logs, rows, uncleared, gateway, sidecar, topics>>
    BY <1>46 DEF WorkerFails
  <2>5. stranded' \in BOOLEAN /\ faults' \in Nat
    <3> HIDE DEF TypeOK, Drop, Fault
    <3>1. \E kind : \/ Drop(kind)
                    \/ Fault(kind) /\ UNCHANGED stranded
                    \/ UNCHANGED <<stranded, faults>>
      BY <1>46, Zenon DEF WorkerFails
    <3> QED  BY <3>1, FaultTypes
  <2>2. CASE workers' = [workers EXCEPT ![w] = Idle]
    BY <2>1, <2>5, <2>2, IdleTypes
  <2>3. CASE workers[w].pc = "failLog" /\ Work(w, "failSource", {})
    <3>1. {} \in SUBSET Columns
      BY Z3 DEF Consumer
    <3> QED  BY <2>1, <2>5, <2>3, <3>1, WorkTypes
  <2>4. CASE workers[w].pc = "classify" /\ Work(w, "activate", {})
    <3>1. {} \in SUBSET Columns
      BY Z3 DEF Consumer
    <3> QED  BY <2>1, <2>5, <2>4, <3>1, WorkTypes
  <2> QED  BY <1>46, <2>2, <2>3, <2>4 DEF WorkerFails
<1> QED
  BY <1>1, <1>2, <1>3, <1>4, <1>5, <1>6, <1>7, <1>8, <1>9, <1>10, <1>11, <1>12,
     <1>13, <1>14, <1>15, <1>16, <1>17, <1>18, <1>19, <1>20, <1>21, <1>22, <1>23, <1>24,
     <1>25, <1>26, <1>27, <1>28, <1>29, <1>30, <1>31, <1>32, <1>33, <1>34, <1>35, <1>36,
     <1>37, <1>38, <1>39, <1>40, <1>41, <1>42, <1>43, <1>44, <1>45, <1>46
  DEF Next, TriggerScan, RunIngestion, ScanCallback, ExecuteClassificationJob,
      ProcessClassificationJob, Handle

\* Every step keeps the stages in order.
LEMMA StagedStep ==
    ASSUME TypeOK, Staged, [Next]_vars
    PROVE  Staged'
<1> DEFINE Goal == Staged'
<1> USE DEF TypeOK, Staged, Trigger, Ingestion, Callback, Ingested, gateway, topics,
        sidecar, source, classified, tables, SetStatus, SetLog, Fault, Drop, Goto, Post,
        Answer, Work, StartIngestion
<1>1. CASE UNCHANGED vars
  BY <1>1 DEF vars
<1>2. ASSUME NEW s \in Scans, TriggerRead(s) PROVE Goal
  BY <1>2 DEF TriggerRead
<1>3. ASSUME NEW s \in Scans, TriggerRefused(s) PROVE Goal
  BY <1>3 DEF TriggerRefused
<1>4. ASSUME NEW s \in Scans, TriggerWrite(s) PROVE Goal
  BY <1>4 DEF TriggerWrite
<1>5. ASSUME NEW s \in Scans, TriggerLog(s) PROVE Goal
  BY <1>5 DEF TriggerLog
<1>6. ASSUME NEW s \in Scans, TriggerRefetch(s) PROVE Goal
  BY <1>6 DEF TriggerRefetch
<1>7. ASSUME NEW s \in Scans, CallSidecar(s) PROVE Goal
  BY <1>7 DEF CallSidecar
<1>8. ASSUME NEW s \in Scans, CallRefused(s) PROVE Goal
  BY <1>8 DEF CallRefused
<1>9. ASSUME NEW s \in Scans, CallUnanswered(s) PROVE Goal
  BY <1>9 DEF CallUnanswered
<1>10. ASSUME NEW s \in Scans, SettleError(s) PROVE Goal
  BY <1>10 DEF SettleError
<1>11. ASSUME NEW s \in Scans, Ingest(s) PROVE Goal
  BY <1>11 DEF Ingest
<1>12. ASSUME NEW s \in Scans, Report(s) PROVE Goal
  BY <1>12 DEF Report
<1>13. ASSUME NEW s \in Scans, ReportLost(s) PROVE Goal
  BY <1>13 DEF ReportLost
<1>14. ASSUME NEW s \in Scans, CallbackRead(s) PROVE Goal
  BY <1>14 DEF CallbackRead
<1>15. ASSUME NEW s \in Scans, CallbackQueue(s) PROVE Goal
  BY <1>15 DEF CallbackQueue
<1>16. ASSUME NEW s \in Scans, CallbackQueueFails(s) PROVE Goal
  BY <1>16 DEF CallbackQueueFails
<1>17. ASSUME NEW s \in Scans, CallbackError(s) PROVE Goal
  BY <1>17 DEF CallbackError
<1>18. ASSUME NEW s \in Scans, CallbackLog(s) PROVE Goal
  BY <1>18 DEF CallbackLog
<1>19. ASSUME NEW s \in Scans, Relay(s) PROVE Goal
  BY <1>19 DEF Relay
<1>20. ASSUME NEW s \in Scans, RelayFails(s) PROVE Goal
  BY <1>20 DEF RelayFails
<1>21. ASSUME NEW s \in Scans, RelayRepeats(s) PROVE Goal
  BY <1>21 DEF RelayRepeats
<1>22. ASSUME NEW s \in Scans, Watchdog(s) PROVE Goal
  BY <1>22 DEF Watchdog
<1>23. ASSUME NEW w \in Workers, Receive(w) PROVE Goal
  BY <1>23 DEF Receive
<1>24. ASSUME NEW w \in Workers, NotFound(w) PROVE Goal
  BY <1>24 DEF NotFound
<1>25. ASSUME NEW w \in Workers, Load(w) PROVE Goal
  BY <1>25 DEF Load
<1>26. ASSUME NEW w \in Workers, LoadFails(w) PROVE Goal
  BY <1>26 DEF LoadFails
<1>27. ASSUME NEW w \in Workers, FailLog(w) PROVE Goal
  BY <1>27 DEF FailLog
<1>28. ASSUME NEW w \in Workers, FailSource(w) PROVE Goal
  BY <1>28 DEF FailSource
<1>29. ASSUME NEW w \in Workers, Clear(w) PROVE Goal
  BY <1>29 DEF Clear
<1>30. ASSUME NEW w \in Workers, Classify(w) PROVE Goal
  BY <1>30 DEF Classify
<1>31. ASSUME NEW w \in Workers, CompleteLog(w) PROVE Goal
  BY <1>31 DEF CompleteLog
<1>32. ASSUME NEW w \in Workers, Activate(w) PROVE Goal
  BY <1>32 DEF Activate
<1>33. ASSUME NEW w \in Workers, WorkerCrash(w) PROVE Goal
  BY <1>33 DEF WorkerCrash
<1>34. ASSUME NEW r \in Requests, UpdateRead(r) PROVE Goal
  BY <1>34 DEF UpdateRead
<1>35. ASSUME NEW r \in Requests, UpdateWrite(r) PROVE Goal
  BY <1>35 DEF UpdateWrite
<1>36. ASSUME NEW r \in Requests, DeleteSource(r) PROVE Goal
  BY <1>36 DEF DeleteSource
<1>37. ASSUME NEW r \in Requests, Reclassify(r) PROVE Goal
  BY <1>37 DEF Reclassify
<1>38. CASE SidecarCrash
  BY <1>38 DEF SidecarCrash
<1>39. CASE GatewayCrash
  BY <1>39 DEF GatewayCrash
<1>40. ASSUME NEW s \in Scans, TriggerFails(s) PROVE Goal
  BY <1>40 DEF TriggerFails
<1>41. ASSUME NEW s \in Scans, TriggerGivesUp(s) PROVE Goal
  BY <1>41 DEF TriggerGivesUp
<1>42. ASSUME NEW s \in Scans, CallbackFails(s) PROVE Goal
  BY <1>42 DEF CallbackFails
<1>43. ASSUME NEW s \in Scans, CallbackGivesUp(s) PROVE Goal
  BY <1>43 DEF CallbackGivesUp
<1>44. ASSUME NEW r \in Requests, UpdateFails(r) PROVE Goal
  BY <1>44 DEF UpdateFails
<1>45. ASSUME NEW w \in Workers, ClearFails(w) PROVE Goal
  BY <1>45 DEF ClearFails
<1>46. ASSUME NEW w \in Workers, WorkerFails(w) PROVE Goal
  BY <1>46 DEF WorkerFails
<1> QED
  BY <1>1, <1>2, <1>3, <1>4, <1>5, <1>6, <1>7, <1>8, <1>9, <1>10, <1>11, <1>12,
     <1>13, <1>14, <1>15, <1>16, <1>17, <1>18, <1>19, <1>20, <1>21, <1>22, <1>23, <1>24,
     <1>25, <1>26, <1>27, <1>28, <1>29, <1>30, <1>31, <1>32, <1>33, <1>34, <1>35, <1>36,
     <1>37, <1>38, <1>39, <1>40, <1>41, <1>42, <1>43, <1>44, <1>45, <1>46
  DEF Next, TriggerScan, RunIngestion, ScanCallback, ExecuteClassificationJob,
      ProcessClassificationJob, Handle

\* Every step keeps some scan in flight while the source is "scanning".
LEMMA ScanningStep ==
    ASSUME TypeOK, Staged, ScanningHasScan, [Next]_vars
    PROVE  ScanningHasScan'
<1> DEFINE Goal == ScanningHasScan'
<1> USE DEF TypeOK, Staged, ScanningHasScan, InFlight, Ingested, Queued, Processed,
        Consumer, Message, SourceStatus, Idle, gateway, topics, sidecar, source, classified,
        tables, SetStatus, SetLog, Fault, Drop, Goto, Post, Answer, Work, StartIngestion
<1>1. CASE UNCHANGED vars
  BY <1>1 DEF vars
<1>2. ASSUME NEW s \in Scans, TriggerRead(s) PROVE Goal
  BY <1>2, ConstantsAssumption DEF TriggerRead
<1>3. ASSUME NEW s \in Scans, TriggerRefused(s) PROVE Goal
  BY <1>3, ConstantsAssumption DEF TriggerRefused
<1>4. ASSUME NEW s \in Scans, TriggerWrite(s) PROVE Goal
  BY <1>4, ConstantsAssumption DEF TriggerWrite
<1>5. ASSUME NEW s \in Scans, TriggerLog(s) PROVE Goal
  BY <1>5, ConstantsAssumption DEF TriggerLog
<1>6. ASSUME NEW s \in Scans, TriggerRefetch(s) PROVE Goal
  BY <1>6, ConstantsAssumption DEF TriggerRefetch
<1>7. ASSUME NEW s \in Scans, CallSidecar(s) PROVE Goal
  BY <1>7, ConstantsAssumption DEF CallSidecar
<1>8. ASSUME NEW s \in Scans, CallRefused(s) PROVE Goal
  BY <1>8, ConstantsAssumption DEF CallRefused
<1>9. ASSUME NEW s \in Scans, CallUnanswered(s) PROVE Goal
  BY <1>9, ConstantsAssumption DEF CallUnanswered
<1>10. ASSUME NEW s \in Scans, SettleError(s) PROVE Goal
  BY <1>10, ConstantsAssumption DEF SettleError
<1>11. ASSUME NEW s \in Scans, Ingest(s) PROVE Goal
  BY <1>11, ConstantsAssumption DEF Ingest
<1>12. ASSUME NEW s \in Scans, Report(s) PROVE Goal
  BY <1>12, ConstantsAssumption DEF Report
<1>13. ASSUME NEW s \in Scans, ReportLost(s) PROVE Goal
  BY <1>13, ConstantsAssumption DEF ReportLost
<1>14. ASSUME NEW s \in Scans, CallbackRead(s) PROVE Goal
  BY <1>14, ConstantsAssumption DEF CallbackRead
<1>15. ASSUME NEW s \in Scans, CallbackQueue(s) PROVE Goal
  BY <1>15, ConstantsAssumption DEF CallbackQueue
<1>16. ASSUME NEW s \in Scans, CallbackQueueFails(s) PROVE Goal
  BY <1>16, ConstantsAssumption DEF CallbackQueueFails
<1>17. ASSUME NEW s \in Scans, CallbackError(s) PROVE Goal
  BY <1>17, ConstantsAssumption DEF CallbackError
<1>18. ASSUME NEW s \in Scans, CallbackLog(s) PROVE Goal
  BY <1>18, ConstantsAssumption DEF CallbackLog
<1>19. ASSUME NEW s \in Scans, Relay(s) PROVE Goal
  BY <1>19, ConstantsAssumption DEF Relay
<1>20. ASSUME NEW s \in Scans, RelayFails(s) PROVE Goal
  BY <1>20, ConstantsAssumption DEF RelayFails
<1>21. ASSUME NEW s \in Scans, RelayRepeats(s) PROVE Goal
  BY <1>21, ConstantsAssumption DEF RelayRepeats
<1>22. ASSUME NEW s \in Scans, Watchdog(s) PROVE Goal
  BY <1>22, ConstantsAssumption DEF Watchdog
<1>23. ASSUME NEW w \in Workers, Receive(w) PROVE Goal
  BY <1>23, ConstantsAssumption DEF Receive
<1>24. ASSUME NEW w \in Workers, NotFound(w) PROVE Goal
  BY <1>24, ConstantsAssumption DEF NotFound
<1>25. ASSUME NEW w \in Workers, Load(w) PROVE Goal
  BY <1>25, ConstantsAssumption DEF Load
<1>26. ASSUME NEW w \in Workers, LoadFails(w) PROVE Goal
  BY <1>26, ConstantsAssumption DEF LoadFails
<1>27. ASSUME NEW w \in Workers, FailLog(w) PROVE Goal
  BY <1>27, ConstantsAssumption DEF FailLog
<1>28. ASSUME NEW w \in Workers, FailSource(w) PROVE Goal
  BY <1>28, ConstantsAssumption DEF FailSource
<1>29. ASSUME NEW w \in Workers, Clear(w) PROVE Goal
  BY <1>29, ConstantsAssumption DEF Clear
<1>30. ASSUME NEW w \in Workers, Classify(w) PROVE Goal
  BY <1>30, ConstantsAssumption DEF Classify
<1>31. ASSUME NEW w \in Workers, CompleteLog(w) PROVE Goal
  BY <1>31, ConstantsAssumption DEF CompleteLog
<1>32. ASSUME NEW w \in Workers, Activate(w) PROVE Goal
  BY <1>32, ConstantsAssumption DEF Activate
<1>33. ASSUME NEW w \in Workers, WorkerCrash(w) PROVE Goal
  BY <1>33, ConstantsAssumption DEF WorkerCrash
<1>34. ASSUME NEW r \in Requests, UpdateRead(r) PROVE Goal
  BY <1>34, ConstantsAssumption DEF UpdateRead
<1>35. ASSUME NEW r \in Requests, UpdateWrite(r) PROVE Goal
  BY <1>35, ConstantsAssumption DEF UpdateWrite
<1>36. ASSUME NEW r \in Requests, DeleteSource(r) PROVE Goal
  BY <1>36, ConstantsAssumption DEF DeleteSource
<1>37. ASSUME NEW r \in Requests, Reclassify(r) PROVE Goal
  BY <1>37, ConstantsAssumption DEF Reclassify
<1>38. CASE SidecarCrash
  BY <1>38, ConstantsAssumption DEF SidecarCrash
<1>39. CASE GatewayCrash
  BY <1>39, ConstantsAssumption DEF GatewayCrash
<1>40. ASSUME NEW s \in Scans, TriggerFails(s) PROVE Goal
  BY <1>40, ConstantsAssumption DEF TriggerFails
<1>41. ASSUME NEW s \in Scans, TriggerGivesUp(s) PROVE Goal
  BY <1>41, ConstantsAssumption DEF TriggerGivesUp
<1>42. ASSUME NEW s \in Scans, CallbackFails(s) PROVE Goal
  BY <1>42, ConstantsAssumption DEF CallbackFails
<1>43. ASSUME NEW s \in Scans, CallbackGivesUp(s) PROVE Goal
  BY <1>43, ConstantsAssumption DEF CallbackGivesUp
<1>44. ASSUME NEW r \in Requests, UpdateFails(r) PROVE Goal
  BY <1>44, ConstantsAssumption DEF UpdateFails
<1>45. ASSUME NEW w \in Workers, ClearFails(w) PROVE Goal
  BY <1>45, ConstantsAssumption DEF ClearFails
<1>46. ASSUME NEW w \in Workers, WorkerFails(w) PROVE Goal
  <2>1. UNCHANGED <<status, logs, gateway, sidecar, topics>>
    BY <1>46 DEF WorkerFails
  <2>2. CASE workers[w].pc = "failLog" /\ Work(w, "failSource", {}) /\ UNCHANGED stranded
    BY <2>1, <2>2, ConstantsAssumption
  <2>3. CASE workers[w].pc = "classify" /\ Work(w, "activate", {}) /\ UNCHANGED stranded
    BY <2>1, <2>3, ConstantsAssumption
  <2>4. CASE workers' = [workers EXCEPT ![w] = Idle] /\ stranded'
    BY <2>1, <2>4, ConstantsAssumption
  <2> QED  BY <1>46, <2>2, <2>3, <2>4 DEF WorkerFails
<1> QED
  BY <1>1, <1>2, <1>3, <1>4, <1>5, <1>6, <1>7, <1>8, <1>9, <1>10, <1>11, <1>12,
     <1>13, <1>14, <1>15, <1>16, <1>17, <1>18, <1>19, <1>20, <1>21, <1>22, <1>23, <1>24,
     <1>25, <1>26, <1>27, <1>28, <1>29, <1>30, <1>31, <1>32, <1>33, <1>34, <1>35, <1>36,
     <1>37, <1>38, <1>39, <1>40, <1>41, <1>42, <1>43, <1>44, <1>45, <1>46
  DEF Next, TriggerScan, RunIngestion, ScanCallback, ExecuteClassificationJob,
      ProcessClassificationJob, Handle

\* Every step keeps each scan in one place.
LEMMA ExclusiveStep ==
    ASSUME Once, TypeOK, Staged, Exclusive, [Next]_vars
    PROVE  Exclusive'
<1> DEFINE Goal == Exclusive'
<1> USE DEF Once, TypeOK, Exclusive, Held, Ingested, Consumer, Message, Idle, gateway,
        topics, sidecar, source, classified, tables, SetStatus, SetLog, Fault, Drop, Goto,
        Post, Answer, Work, StartIngestion
<1>1. CASE UNCHANGED vars
  BY <1>1 DEF vars
<1>2. ASSUME NEW s \in Scans, TriggerRead(s) PROVE Goal
  BY <1>2, ConstantsAssumption DEF TriggerRead
<1>3. ASSUME NEW s \in Scans, TriggerRefused(s) PROVE Goal
  BY <1>3, ConstantsAssumption DEF TriggerRefused
<1>4. ASSUME NEW s \in Scans, TriggerWrite(s) PROVE Goal
  BY <1>4, ConstantsAssumption DEF TriggerWrite
<1>5. ASSUME NEW s \in Scans, TriggerLog(s) PROVE Goal
  BY <1>5, ConstantsAssumption DEF TriggerLog
<1>6. ASSUME NEW s \in Scans, TriggerRefetch(s) PROVE Goal
  BY <1>6, ConstantsAssumption DEF TriggerRefetch
<1>7. ASSUME NEW s \in Scans, CallSidecar(s) PROVE Goal
  BY <1>7, ConstantsAssumption DEF CallSidecar
<1>8. ASSUME NEW s \in Scans, CallRefused(s) PROVE Goal
  BY <1>8, ConstantsAssumption DEF CallRefused
<1>9. ASSUME NEW s \in Scans, CallUnanswered(s) PROVE Goal
  BY <1>9, ConstantsAssumption DEF CallUnanswered
<1>10. ASSUME NEW s \in Scans, SettleError(s) PROVE Goal
  BY <1>10, ConstantsAssumption DEF SettleError
<1>11. ASSUME NEW s \in Scans, Ingest(s) PROVE Goal
  BY <1>11, ConstantsAssumption DEF Ingest
<1>12. ASSUME NEW s \in Scans, Report(s) PROVE Goal
  BY <1>12, ConstantsAssumption DEF Report
<1>13. ASSUME NEW s \in Scans, ReportLost(s) PROVE Goal
  BY <1>13, ConstantsAssumption DEF ReportLost
<1>14. ASSUME NEW s \in Scans, CallbackRead(s) PROVE Goal
  BY <1>14, ConstantsAssumption DEF CallbackRead
<1>15. ASSUME NEW s \in Scans, CallbackQueue(s) PROVE Goal
  BY <1>15, ConstantsAssumption DEF CallbackQueue
<1>16. ASSUME NEW s \in Scans, CallbackQueueFails(s) PROVE Goal
  BY <1>16, ConstantsAssumption DEF CallbackQueueFails
<1>17. ASSUME NEW s \in Scans, CallbackError(s) PROVE Goal
  BY <1>17, ConstantsAssumption DEF CallbackError
<1>18. ASSUME NEW s \in Scans, CallbackLog(s) PROVE Goal
  BY <1>18, ConstantsAssumption DEF CallbackLog
<1>19. ASSUME NEW s \in Scans, Relay(s) PROVE Goal
  BY <1>19, ConstantsAssumption DEF Relay
<1>20. ASSUME NEW s \in Scans, RelayFails(s) PROVE Goal
  BY <1>20, ConstantsAssumption DEF RelayFails
<1>21. ASSUME NEW s \in Scans, RelayRepeats(s) PROVE Goal
  BY <1>21, ConstantsAssumption DEF RelayRepeats
<1>22. ASSUME NEW s \in Scans, Watchdog(s) PROVE Goal
  BY <1>22, ConstantsAssumption DEF Watchdog
<1>23. ASSUME NEW w \in Workers, Receive(w) PROVE Goal
  BY <1>23, ConstantsAssumption DEF Receive
<1>24. ASSUME NEW w \in Workers, NotFound(w) PROVE Goal
  BY <1>24, ConstantsAssumption DEF NotFound
<1>25. ASSUME NEW w \in Workers, Load(w) PROVE Goal
  BY <1>25, ConstantsAssumption DEF Load
<1>26. ASSUME NEW w \in Workers, LoadFails(w) PROVE Goal
  BY <1>26, ConstantsAssumption DEF LoadFails
<1>27. ASSUME NEW w \in Workers, FailLog(w) PROVE Goal
  BY <1>27, ConstantsAssumption DEF FailLog
<1>28. ASSUME NEW w \in Workers, FailSource(w) PROVE Goal
  BY <1>28, ConstantsAssumption DEF FailSource
<1>29. ASSUME NEW w \in Workers, Clear(w) PROVE Goal
  BY <1>29, ConstantsAssumption DEF Clear
<1>30. ASSUME NEW w \in Workers, Classify(w) PROVE Goal
  BY <1>30, ConstantsAssumption DEF Classify
<1>31. ASSUME NEW w \in Workers, CompleteLog(w) PROVE Goal
  BY <1>31, ConstantsAssumption DEF CompleteLog
<1>32. ASSUME NEW w \in Workers, Activate(w) PROVE Goal
  BY <1>32, ConstantsAssumption DEF Activate
<1>33. ASSUME NEW w \in Workers, WorkerCrash(w) PROVE Goal
  BY <1>33, ConstantsAssumption DEF WorkerCrash
<1>34. ASSUME NEW r \in Requests, UpdateRead(r) PROVE Goal
  BY <1>34, ConstantsAssumption DEF UpdateRead
<1>35. ASSUME NEW r \in Requests, UpdateWrite(r) PROVE Goal
  BY <1>35, ConstantsAssumption DEF UpdateWrite
<1>36. ASSUME NEW r \in Requests, DeleteSource(r) PROVE Goal
  BY <1>36, ConstantsAssumption DEF DeleteSource
<1>37. ASSUME NEW r \in Requests, Reclassify(r) PROVE Goal
  BY <1>37, ConstantsAssumption DEF Reclassify
<1>38. CASE SidecarCrash
  BY <1>38, ConstantsAssumption DEF SidecarCrash
<1>39. CASE GatewayCrash
  BY <1>39, ConstantsAssumption DEF GatewayCrash
<1>40. ASSUME NEW s \in Scans, TriggerFails(s) PROVE Goal
  BY <1>40, ConstantsAssumption DEF TriggerFails
<1>41. ASSUME NEW s \in Scans, TriggerGivesUp(s) PROVE Goal
  BY <1>41, ConstantsAssumption DEF TriggerGivesUp
<1>42. ASSUME NEW s \in Scans, CallbackFails(s) PROVE Goal
  BY <1>42, ConstantsAssumption DEF CallbackFails
<1>43. ASSUME NEW s \in Scans, CallbackGivesUp(s) PROVE Goal
  BY <1>43, ConstantsAssumption DEF CallbackGivesUp
<1>44. ASSUME NEW r \in Requests, UpdateFails(r) PROVE Goal
  BY <1>44, ConstantsAssumption DEF UpdateFails
<1>45. ASSUME NEW w \in Workers, ClearFails(w) PROVE Goal
  BY <1>45, ConstantsAssumption DEF ClearFails
<1>46. ASSUME NEW w \in Workers, WorkerFails(w) PROVE Goal
  <2>1. UNCHANGED <<status, logs, gateway, sidecar, topics>>
    BY <1>46 DEF WorkerFails
  <2>2. CASE workers[w].pc = "failLog" /\ Work(w, "failSource", {}) /\ UNCHANGED stranded
    BY <2>1, <2>2, ConstantsAssumption
  <2>3. CASE workers[w].pc = "classify" /\ Work(w, "activate", {}) /\ UNCHANGED stranded
    BY <2>1, <2>3, ConstantsAssumption
  <2>4. CASE workers' = [workers EXCEPT ![w] = Idle] /\ stranded'
    BY <2>1, <2>4, ConstantsAssumption
  <2> QED  BY <1>46, <2>2, <2>3, <2>4 DEF WorkerFails
<1> QED
  BY <1>1, <1>2, <1>3, <1>4, <1>5, <1>6, <1>7, <1>8, <1>9, <1>10, <1>11, <1>12,
     <1>13, <1>14, <1>15, <1>16, <1>17, <1>18, <1>19, <1>20, <1>21, <1>22, <1>23, <1>24,
     <1>25, <1>26, <1>27, <1>28, <1>29, <1>30, <1>31, <1>32, <1>33, <1>34, <1>35, <1>36,
     <1>37, <1>38, <1>39, <1>40, <1>41, <1>42, <1>43, <1>44, <1>45, <1>46
  DEF Next, TriggerScan, RunIngestion, ScanCallback, ExecuteClassificationJob,
      ProcessClassificationJob, Handle

\* Every step keeps the completed logs final.
LEMMA FinalStep ==
    ASSUME Once, TypeOK, Staged, Exclusive, Final, [Next]_vars
    PROVE  Final'
<1> DEFINE Goal == Final'
<1> USE DEF Once, TypeOK, Staged, Exclusive, Final, Held, Ingested, Consumer, Message, Idle,
        gateway, topics, sidecar, source, classified, tables, SetStatus, SetLog, Fault,
        Drop, Goto, Post, Answer, Work, StartIngestion
<1>1. CASE UNCHANGED vars
  BY <1>1 DEF vars
<1>2. ASSUME NEW s \in Scans, TriggerRead(s) PROVE Goal
  BY <1>2, ConstantsAssumption DEF TriggerRead
<1>3. ASSUME NEW s \in Scans, TriggerRefused(s) PROVE Goal
  BY <1>3, ConstantsAssumption DEF TriggerRefused
<1>4. ASSUME NEW s \in Scans, TriggerWrite(s) PROVE Goal
  BY <1>4, ConstantsAssumption DEF TriggerWrite
<1>5. ASSUME NEW s \in Scans, TriggerLog(s) PROVE Goal
  BY <1>5, ConstantsAssumption DEF TriggerLog
<1>6. ASSUME NEW s \in Scans, TriggerRefetch(s) PROVE Goal
  BY <1>6, ConstantsAssumption DEF TriggerRefetch
<1>7. ASSUME NEW s \in Scans, CallSidecar(s) PROVE Goal
  BY <1>7, ConstantsAssumption DEF CallSidecar
<1>8. ASSUME NEW s \in Scans, CallRefused(s) PROVE Goal
  BY <1>8, ConstantsAssumption DEF CallRefused
<1>9. ASSUME NEW s \in Scans, CallUnanswered(s) PROVE Goal
  BY <1>9, ConstantsAssumption DEF CallUnanswered
<1>10. ASSUME NEW s \in Scans, SettleError(s) PROVE Goal
  BY <1>10, ConstantsAssumption DEF SettleError
<1>11. ASSUME NEW s \in Scans, Ingest(s) PROVE Goal
  BY <1>11, ConstantsAssumption DEF Ingest
<1>12. ASSUME NEW s \in Scans, Report(s) PROVE Goal
  BY <1>12, ConstantsAssumption DEF Report
<1>13. ASSUME NEW s \in Scans, ReportLost(s) PROVE Goal
  BY <1>13, ConstantsAssumption DEF ReportLost
<1>14. ASSUME NEW s \in Scans, CallbackRead(s) PROVE Goal
  BY <1>14, ConstantsAssumption DEF CallbackRead
<1>15. ASSUME NEW s \in Scans, CallbackQueue(s) PROVE Goal
  BY <1>15, ConstantsAssumption DEF CallbackQueue
<1>16. ASSUME NEW s \in Scans, CallbackQueueFails(s) PROVE Goal
  BY <1>16, ConstantsAssumption DEF CallbackQueueFails
<1>17. ASSUME NEW s \in Scans, CallbackError(s) PROVE Goal
  BY <1>17, ConstantsAssumption DEF CallbackError
<1>18. ASSUME NEW s \in Scans, CallbackLog(s) PROVE Goal
  BY <1>18, ConstantsAssumption DEF CallbackLog
<1>19. ASSUME NEW s \in Scans, Relay(s) PROVE Goal
  BY <1>19, ConstantsAssumption DEF Relay
<1>20. ASSUME NEW s \in Scans, RelayFails(s) PROVE Goal
  BY <1>20, ConstantsAssumption DEF RelayFails
<1>21. ASSUME NEW s \in Scans, RelayRepeats(s) PROVE Goal
  BY <1>21, ConstantsAssumption DEF RelayRepeats
<1>22. ASSUME NEW s \in Scans, Watchdog(s) PROVE Goal
  BY <1>22, ConstantsAssumption DEF Watchdog
<1>23. ASSUME NEW w \in Workers, Receive(w) PROVE Goal
  BY <1>23, ConstantsAssumption DEF Receive
<1>24. ASSUME NEW w \in Workers, NotFound(w) PROVE Goal
  BY <1>24, ConstantsAssumption DEF NotFound
<1>25. ASSUME NEW w \in Workers, Load(w) PROVE Goal
  BY <1>25, ConstantsAssumption DEF Load
<1>26. ASSUME NEW w \in Workers, LoadFails(w) PROVE Goal
  BY <1>26, ConstantsAssumption DEF LoadFails
<1>27. ASSUME NEW w \in Workers, FailLog(w) PROVE Goal
  BY <1>27, ConstantsAssumption DEF FailLog
<1>28. ASSUME NEW w \in Workers, FailSource(w) PROVE Goal
  BY <1>28, ConstantsAssumption DEF FailSource
<1>29. ASSUME NEW w \in Workers, Clear(w) PROVE Goal
  BY <1>29, ConstantsAssumption DEF Clear
<1>30. ASSUME NEW w \in Workers, Classify(w) PROVE Goal
  BY <1>30, ConstantsAssumption DEF Classify
<1>31. ASSUME NEW w \in Workers, CompleteLog(w) PROVE Goal
  BY <1>31, ConstantsAssumption DEF CompleteLog
<1>32. ASSUME NEW w \in Workers, Activate(w) PROVE Goal
  BY <1>32, ConstantsAssumption DEF Activate
<1>33. ASSUME NEW w \in Workers, WorkerCrash(w) PROVE Goal
  BY <1>33, ConstantsAssumption DEF WorkerCrash
<1>34. ASSUME NEW r \in Requests, UpdateRead(r) PROVE Goal
  BY <1>34, ConstantsAssumption DEF UpdateRead
<1>35. ASSUME NEW r \in Requests, UpdateWrite(r) PROVE Goal
  BY <1>35, ConstantsAssumption DEF UpdateWrite
<1>36. ASSUME NEW r \in Requests, DeleteSource(r) PROVE Goal
  BY <1>36, ConstantsAssumption DEF DeleteSource
<1>37. ASSUME NEW r \in Requests, Reclassify(r) PROVE Goal
  BY <1>37, ConstantsAssumption DEF Reclassify
<1>38. CASE SidecarCrash
  BY <1>38, ConstantsAssumption DEF SidecarCrash
<1>39. CASE GatewayCrash
  BY <1>39, ConstantsAssumption DEF GatewayCrash
<1>40. ASSUME NEW s \in Scans, TriggerFails(s) PROVE Goal
  BY <1>40, ConstantsAssumption DEF TriggerFails
<1>41. ASSUME NEW s \in Scans, TriggerGivesUp(s) PROVE Goal
  BY <1>41, ConstantsAssumption DEF TriggerGivesUp
<1>42. ASSUME NEW s \in Scans, CallbackFails(s) PROVE Goal
  BY <1>42, ConstantsAssumption DEF CallbackFails
<1>43. ASSUME NEW s \in Scans, CallbackGivesUp(s) PROVE Goal
  BY <1>43, ConstantsAssumption DEF CallbackGivesUp
<1>44. ASSUME NEW r \in Requests, UpdateFails(r) PROVE Goal
  BY <1>44, ConstantsAssumption DEF UpdateFails
<1>45. ASSUME NEW w \in Workers, ClearFails(w) PROVE Goal
  BY <1>45, ConstantsAssumption DEF ClearFails
<1>46. ASSUME NEW w \in Workers, WorkerFails(w) PROVE Goal
  <2>1. UNCHANGED <<status, logs, gateway, sidecar, topics>>
    BY <1>46 DEF WorkerFails
  <2>2. CASE workers[w].pc = "failLog" /\ Work(w, "failSource", {}) /\ UNCHANGED stranded
    BY <2>1, <2>2, ConstantsAssumption
  <2>3. CASE workers[w].pc = "classify" /\ Work(w, "activate", {}) /\ UNCHANGED stranded
    BY <2>1, <2>3, ConstantsAssumption
  <2>4. CASE workers' = [workers EXCEPT ![w] = Idle] /\ stranded'
    BY <2>1, <2>4, ConstantsAssumption
  <2> QED  BY <1>46, <2>2, <2>3, <2>4 DEF WorkerFails
<1> QED
  BY <1>1, <1>2, <1>3, <1>4, <1>5, <1>6, <1>7, <1>8, <1>9, <1>10, <1>11, <1>12,
     <1>13, <1>14, <1>15, <1>16, <1>17, <1>18, <1>19, <1>20, <1>21, <1>22, <1>23, <1>24,
     <1>25, <1>26, <1>27, <1>28, <1>29, <1>30, <1>31, <1>32, <1>33, <1>34, <1>35, <1>36,
     <1>37, <1>38, <1>39, <1>40, <1>41, <1>42, <1>43, <1>44, <1>45, <1>46
  DEF Next, TriggerScan, RunIngestion, ScanCallback, ExecuteClassificationJob,
      ProcessClassificationJob, Handle

-----------------------------------------------------------------------------
\* The invariants hold at the start.
LEMMA Start ==
    ASSUME Init
    PROVE  TypeOK /\ Staged /\ ScanningHasScan /\ Exclusive /\ Final
<1> USE ConstantsAssumption DEF Init, Idle
<1>1. TypeOK
  BY DEF TypeOK, SourceStatus, LogStatus, EntryStatus, Trigger, Ingestion, Callback,
         Message, Consumer
<1>2. Staged /\ ScanningHasScan
  BY DEF Staged, ScanningHasScan
<1>3. Exclusive /\ Final
  BY DEF Exclusive, Final, Held
<1> QED  BY <1>1, <1>2, <1>3

\* Every reachable state of a scan pipeline is well typed: datasource.go, kafka.go,
\* main.py and main.go write only statuses of the listed kinds, and a consumer has a
\* message exactly while it is busy.
THEOREM TypesHold == Spec => []TypeOK
<1>1. Init => TypeOK
  BY Start
<1>2. TypeOK /\ [Next]_vars => TypeOK'
  BY TypesStep
<1> QED  BY <1>1, <1>2, PTL DEF Spec

\* A source is "scanning" only while some scan is in flight (datasource.go:290,
\* already_scanning), for any number of concurrent scans, updates, deletions and
\* reclassifications: only a fault that drops a scan, or an update that writes an
\* old status back, strands it.
THEOREM ScanningHolds == Spec => []ScanningHasScan
<1> DEFINE IInv == TypeOK /\ Staged /\ ScanningHasScan
<1>1. Init => IInv
  BY Start
<1>2. IInv /\ [Next]_vars => IInv'
  BY TypesStep, StagedStep, ScanningStep
<1> QED  BY <1>1, <1>2, PTL DEF Spec

\* A step that finds the invariants leaves a completed log completed or deletes it.
LEMMA CompletedStep ==
    ASSUME TypeOK, Staged, Final, [Next]_vars
    PROVE  StaysCompleted
<1> DEFINE Goal == StaysCompleted
<1> USE DEF TypeOK, Staged, Final, Ingested, StaysCompleted, gateway, topics, sidecar,
        source, classified, tables, SetStatus, SetLog, Fault, Drop, Goto, Post, Answer,
        Work, StartIngestion
<1>1. CASE UNCHANGED vars
  BY <1>1 DEF vars
<1>2. ASSUME NEW s \in Scans, TriggerRead(s) PROVE Goal
  BY <1>2, ConstantsAssumption DEF TriggerRead
<1>3. ASSUME NEW s \in Scans, TriggerRefused(s) PROVE Goal
  BY <1>3, ConstantsAssumption DEF TriggerRefused
<1>4. ASSUME NEW s \in Scans, TriggerWrite(s) PROVE Goal
  BY <1>4, ConstantsAssumption DEF TriggerWrite
<1>5. ASSUME NEW s \in Scans, TriggerLog(s) PROVE Goal
  BY <1>5, ConstantsAssumption DEF TriggerLog
<1>6. ASSUME NEW s \in Scans, TriggerRefetch(s) PROVE Goal
  BY <1>6, ConstantsAssumption DEF TriggerRefetch
<1>7. ASSUME NEW s \in Scans, CallSidecar(s) PROVE Goal
  BY <1>7, ConstantsAssumption DEF CallSidecar
<1>8. ASSUME NEW s \in Scans, CallRefused(s) PROVE Goal
  BY <1>8, ConstantsAssumption DEF CallRefused
<1>9. ASSUME NEW s \in Scans, CallUnanswered(s) PROVE Goal
  BY <1>9, ConstantsAssumption DEF CallUnanswered
<1>10. ASSUME NEW s \in Scans, SettleError(s) PROVE Goal
  BY <1>10, ConstantsAssumption DEF SettleError
<1>11. ASSUME NEW s \in Scans, Ingest(s) PROVE Goal
  BY <1>11, ConstantsAssumption DEF Ingest
<1>12. ASSUME NEW s \in Scans, Report(s) PROVE Goal
  BY <1>12, ConstantsAssumption DEF Report
<1>13. ASSUME NEW s \in Scans, ReportLost(s) PROVE Goal
  BY <1>13, ConstantsAssumption DEF ReportLost
<1>14. ASSUME NEW s \in Scans, CallbackRead(s) PROVE Goal
  BY <1>14, ConstantsAssumption DEF CallbackRead
<1>15. ASSUME NEW s \in Scans, CallbackQueue(s) PROVE Goal
  BY <1>15, ConstantsAssumption DEF CallbackQueue
<1>16. ASSUME NEW s \in Scans, CallbackQueueFails(s) PROVE Goal
  BY <1>16, ConstantsAssumption DEF CallbackQueueFails
<1>17. ASSUME NEW s \in Scans, CallbackError(s) PROVE Goal
  BY <1>17, ConstantsAssumption DEF CallbackError
<1>18. ASSUME NEW s \in Scans, CallbackLog(s) PROVE Goal
  BY <1>18, ConstantsAssumption DEF CallbackLog
<1>19. ASSUME NEW s \in Scans, Relay(s) PROVE Goal
  BY <1>19, ConstantsAssumption DEF Relay
<1>20. ASSUME NEW s \in Scans, RelayFails(s) PROVE Goal
  BY <1>20, ConstantsAssumption DEF RelayFails
<1>21. ASSUME NEW s \in Scans, RelayRepeats(s) PROVE Goal
  BY <1>21, ConstantsAssumption DEF RelayRepeats
<1>22. ASSUME NEW s \in Scans, Watchdog(s) PROVE Goal
  BY <1>22, ConstantsAssumption DEF Watchdog
<1>23. ASSUME NEW w \in Workers, Receive(w) PROVE Goal
  BY <1>23, ConstantsAssumption DEF Receive
<1>24. ASSUME NEW w \in Workers, NotFound(w) PROVE Goal
  BY <1>24, ConstantsAssumption DEF NotFound
<1>25. ASSUME NEW w \in Workers, Load(w) PROVE Goal
  BY <1>25, ConstantsAssumption DEF Load
<1>26. ASSUME NEW w \in Workers, LoadFails(w) PROVE Goal
  BY <1>26, ConstantsAssumption DEF LoadFails
<1>27. ASSUME NEW w \in Workers, FailLog(w) PROVE Goal
  BY <1>27, ConstantsAssumption DEF FailLog
<1>28. ASSUME NEW w \in Workers, FailSource(w) PROVE Goal
  BY <1>28, ConstantsAssumption DEF FailSource
<1>29. ASSUME NEW w \in Workers, Clear(w) PROVE Goal
  BY <1>29, ConstantsAssumption DEF Clear
<1>30. ASSUME NEW w \in Workers, Classify(w) PROVE Goal
  BY <1>30, ConstantsAssumption DEF Classify
<1>31. ASSUME NEW w \in Workers, CompleteLog(w) PROVE Goal
  BY <1>31, ConstantsAssumption DEF CompleteLog
<1>32. ASSUME NEW w \in Workers, Activate(w) PROVE Goal
  BY <1>32, ConstantsAssumption DEF Activate
<1>33. ASSUME NEW w \in Workers, WorkerCrash(w) PROVE Goal
  BY <1>33, ConstantsAssumption DEF WorkerCrash
<1>34. ASSUME NEW r \in Requests, UpdateRead(r) PROVE Goal
  BY <1>34, ConstantsAssumption DEF UpdateRead
<1>35. ASSUME NEW r \in Requests, UpdateWrite(r) PROVE Goal
  BY <1>35, ConstantsAssumption DEF UpdateWrite
<1>36. ASSUME NEW r \in Requests, DeleteSource(r) PROVE Goal
  BY <1>36, ConstantsAssumption DEF DeleteSource
<1>37. ASSUME NEW r \in Requests, Reclassify(r) PROVE Goal
  BY <1>37, ConstantsAssumption DEF Reclassify
<1>38. CASE SidecarCrash
  BY <1>38, ConstantsAssumption DEF SidecarCrash
<1>39. CASE GatewayCrash
  BY <1>39, ConstantsAssumption DEF GatewayCrash
<1>40. ASSUME NEW s \in Scans, TriggerFails(s) PROVE Goal
  BY <1>40, ConstantsAssumption DEF TriggerFails
<1>41. ASSUME NEW s \in Scans, TriggerGivesUp(s) PROVE Goal
  BY <1>41, ConstantsAssumption DEF TriggerGivesUp
<1>42. ASSUME NEW s \in Scans, CallbackFails(s) PROVE Goal
  BY <1>42, ConstantsAssumption DEF CallbackFails
<1>43. ASSUME NEW s \in Scans, CallbackGivesUp(s) PROVE Goal
  BY <1>43, ConstantsAssumption DEF CallbackGivesUp
<1>44. ASSUME NEW r \in Requests, UpdateFails(r) PROVE Goal
  BY <1>44, ConstantsAssumption DEF UpdateFails
<1>45. ASSUME NEW w \in Workers, ClearFails(w) PROVE Goal
  BY <1>45, ConstantsAssumption DEF ClearFails
<1>46. ASSUME NEW w \in Workers, WorkerFails(w) PROVE Goal
  <2>1. UNCHANGED <<status, logs, gateway, sidecar, topics>>
    BY <1>46 DEF WorkerFails
  <2>2. CASE workers[w].pc = "failLog" /\ Work(w, "failSource", {}) /\ UNCHANGED stranded
    BY <2>1, <2>2, ConstantsAssumption
  <2>3. CASE workers[w].pc = "classify" /\ Work(w, "activate", {}) /\ UNCHANGED stranded
    BY <2>1, <2>3, ConstantsAssumption
  <2>4. CASE workers' = [workers EXCEPT ![w] = Idle] /\ stranded'
    BY <2>1, <2>4, ConstantsAssumption
  <2> QED  BY <1>46, <2>2, <2>3, <2>4 DEF WorkerFails
<1> QED
  BY <1>1, <1>2, <1>3, <1>4, <1>5, <1>6, <1>7, <1>8, <1>9, <1>10, <1>11, <1>12,
     <1>13, <1>14, <1>15, <1>16, <1>17, <1>18, <1>19, <1>20, <1>21, <1>22, <1>23, <1>24,
     <1>25, <1>26, <1>27, <1>28, <1>29, <1>30, <1>31, <1>32, <1>33, <1>34, <1>35, <1>36,
     <1>37, <1>38, <1>39, <1>40, <1>41, <1>42, <1>43, <1>44, <1>45, <1>46
  DEF Next, TriggerScan, RunIngestion, ScanCallback, ExecuteClassificationJob,
      ProcessClassificationJob, Handle

\* While no worker dies and no message is kept whose sender was told that it failed, a
\* completed scan log stays completed (kafka.go:376): the watchdog, late callbacks,
\* other scans and the workers' failures leave it alone.
THEOREM CompletedHolds ==
    ASSUME Once
    PROVE  Spec => CompletedStays
<1> DEFINE IInv == TypeOK /\ Staged /\ Exclusive /\ Final
<1>1. Init => IInv
  BY Start
<1>2. IInv /\ [Next]_vars => IInv'
  BY Once, TypesStep, StagedStep, ExclusiveStep, FinalStep
<1>3. IInv /\ [Next]_vars => StaysCompleted
  BY CompletedStep
<1> QED  BY <1>1, <1>2, <1>3, PTL DEF Spec, CompletedStays

-----------------------------------------------------------------------------
(* What is classified. *)

\* An ingestion filled DataHub.
Filled == \E t \in Scans : ingestions[t] = "completed"

\* The entry says "completed" only of an ingestion that did, and a scan that is called
\* completed, or is queued, has ended beside one. A scan is queued by its callback only.
Faithful ==
    /\ entry = "completed" => Filled
    /\ \A s \in Scans :
         /\ callbacks[s] \in {"completed", "queue"} \/ Queued(s) =>
              ingestions[s] \in {"completed", "failed"} /\ Filled
         /\ Queued(s) => callbacks[s] # "none"

\* What the messages and the workers say of the scans: nobody has a scan that
\* nobody had.
QueuedKept == \A s \in Scans : Queued(s)' => Queued(s)

\* A classification worker has a scan only from the queue it shares.
LEMMA WorkerMessages ==
    ASSUME TypeOK, NEW w \in Workers, ProcessClassificationJob(w) \/ WorkerCrash(w)
    PROVE  QueuedKept /\ UNCHANGED <<gateway, sidecar>>
<1>1. \A v \in Workers \ {w} : workers'[v] = workers[v]
  BY DEF TypeOK, ProcessClassificationJob, WorkerCrash, Receive, NotFound, Load, LoadFails, FailLog,
     FailSource, Clear, ClearFails, Classify, CompleteLog, Activate, WorkerFails, Work
<1>2. workers'[w].msg \in {workers[w].msg, NoMessage} \cup queue
  <2>1. CASE Receive(w)
    BY <2>1 DEF TypeOK, Receive
  <2>2. CASE NotFound(w) \/ FailSource(w) \/ Activate(w) \/ WorkerCrash(w)
    BY <2>2 DEF TypeOK, Idle, NotFound, FailSource, Activate, WorkerCrash
  <2>3. CASE \/ Load(w) \/ LoadFails(w) \/ FailLog(w) \/ Clear(w) \/ ClearFails(w)
             \/ Classify(w) \/ CompleteLog(w)
    <3>1. PICK pc, todo : workers' = [workers EXCEPT ![w] = [@ EXCEPT !.pc = pc, !.todo = todo]]
      BY <2>3 DEF Load, LoadFails, FailLog, Clear, ClearFails, Classify, CompleteLog, Work
    <3> QED BY <3>1 DEF TypeOK, Consumer
  <2>4. CASE WorkerFails(w)
    <3>1. CASE workers' = [workers EXCEPT ![w] = Idle]
      BY <3>1 DEF TypeOK, Idle
    <3>2. CASE Work(w, "failSource", {}) \/ Work(w, "activate", {})
      BY <3>2, WorkSets
    <3> QED BY <2>4, <3>1, <3>2 DEF WorkerFails
  <2> QED BY <2>1, <2>2, <2>3, <2>4 DEF ProcessClassificationJob
<1>3. queue' \subseteq queue \cup {workers[w].msg} /\ executions' = executions
  BY DEF ProcessClassificationJob, WorkerCrash, Receive, NotFound, Load, LoadFails, FailLog,
     FailSource, Clear, ClearFails, Classify, CompleteLog, Activate, WorkerFails, topics
<1>4. QueuedKept
  BY <1>1, <1>2, <1>3, ConstantsAssumption DEF QueuedKept, Queued, Processed
<1>5. UNCHANGED <<gateway, sidecar>>
  BY DEF ProcessClassificationJob, WorkerCrash, Receive, NotFound, Load, LoadFails, FailLog,
     FailSource, Clear, ClearFails, Classify, CompleteLog, Activate, WorkerFails
<1> QED BY <1>4, <1>5

\* Every step keeps the outcomes straight.
LEMMA FaithfulStep ==
    ASSUME TypeOK, Staged, Faithful, [Next]_vars
    PROVE  Faithful'
<1> USE DEF gateway, sidecar, topics, source, classified, tables, Fault, Drop
<1>1. ASSUME NEW s \in Scans, TriggerScan(s)
      PROVE  Faithful'
  <2>1. UNCHANGED <<callbacks, executions, queue, workers>>
    BY <1>1 DEF TriggerScan, TriggerRead, TriggerRefused, TriggerWrite, TriggerLog, TriggerRefetch,
       CallSidecar, CallRefused, CallUnanswered, SettleError, TriggerFails, TriggerGivesUp, Goto
  <2>2. \/ UNCHANGED <<entry, ingestions>>
        \/ /\ ingestions[s] = "none" /\ ingestions' = [ingestions EXCEPT ![s] = "running"]
           /\ entry' = "running"
    BY <1>1 DEF Staged, TriggerScan, TriggerRead, TriggerRefused, TriggerWrite, TriggerLog,
       TriggerRefetch, CallSidecar, CallRefused, CallUnanswered, SettleError, TriggerFails,
       TriggerGivesUp, StartIngestion
  <2>3. Filled => Filled'
    BY <2>2 DEF TypeOK, Filled
  <2> QED BY <2>1, <2>2, <2>3 DEF TypeOK, Faithful, Queued, Processed
<1>2. ASSUME NEW s \in Scans, Ingest(s)
      PROVE  Faithful'
  <2>1. PICK result \in {"completed", "failed"} :
          ingestions[s] = "running" /\ entry' = result
          /\ ingestions' = [ingestions EXCEPT ![s] = result]
    BY <1>2 DEF Ingest
  <2>2. result = "completed" \/ Filled => Filled'
    BY <2>1 DEF TypeOK, Filled
  <2>3. UNCHANGED <<callbacks, executions, queue, workers>>
    BY <1>2 DEF Ingest
  <2> QED BY <2>1, <2>2, <2>3 DEF TypeOK, Faithful, Queued, Processed
<1>3. ASSUME NEW s \in Scans, Report(s) \/ ReportLost(s)
      PROVE  Faithful'
  <2>1. PICK c \in Callback \ {"none"} :
          /\ callbacks' = [callbacks EXCEPT ![s] = c]
          /\ c = "completed" => entry = "completed"
          /\ c # "queue" /\ Ingested(s)
    BY <1>3 DEF Report, ReportLost, Post, Callback
  <2>2. UNCHANGED <<entry, ingestions, executions, queue, workers>>
    BY <1>3 DEF Report, ReportLost
  <2> QED BY <2>1, <2>2 DEF TypeOK, Faithful, Filled, Ingested, Queued, Processed
<1>4. ASSUME NEW s \in Scans, ScanCallback(s)
      PROVE  Faithful'
  <2>1. /\ UNCHANGED <<entry, ingestions, queue, workers>>
        /\ callbacks[s] # "none"
        /\ \E c \in Callback \ {"none", "completed"} :
             /\ callbacks' = [callbacks EXCEPT ![s] = c]
             /\ c = "queue" => callbacks[s] = "completed"
        /\ \/ UNCHANGED executions
           \/ callbacks[s] = "queue" /\ executions' = executions \cup {s}
    BY <1>4 DEF ScanCallback, CallbackRead, CallbackQueue, CallbackQueueFails, CallbackError,
       CallbackLog, CallbackFails, CallbackGivesUp, Post, Callback
  <2> QED BY <2>1 DEF TypeOK, Faithful, Filled, Queued, Processed
<1>5. ASSUME NEW s \in Scans, ExecuteClassificationJob(s)
      PROVE  Faithful'
  <2>1. QueuedKept
    BY <1>5 DEF ExecuteClassificationJob, Relay, RelayFails, RelayRepeats, QueuedKept, Queued,
       Processed
  <2>2. UNCHANGED <<entry, ingestions, callbacks>>
    BY <1>5 DEF ExecuteClassificationJob, Relay, RelayFails, RelayRepeats
  <2> QED BY <2>1, <2>2 DEF Faithful, Filled, QueuedKept
<1>6. ASSUME NEW w \in Workers, ProcessClassificationJob(w) \/ WorkerCrash(w)
      PROVE  Faithful'
  BY <1>6, WorkerMessages DEF Faithful, Filled, QueuedKept
<1>7. ASSUME NEW r \in Requests, Handle(r)
      PROVE  Faithful'
  <2>1. QueuedKept
    BY <1>7, ConstantsAssumption DEF Handle, UpdateRead, UpdateWrite, UpdateFails, DeleteSource,
       Reclassify, QueuedKept, Queued, Processed
  <2>2. UNCHANGED <<entry, ingestions, callbacks>>
    BY <1>7 DEF Handle, UpdateRead, UpdateWrite, UpdateFails, DeleteSource, Reclassify, Answer
  <2> QED BY <2>1, <2>2 DEF Faithful, Filled, QueuedKept
<1>8. ASSUME NEW s \in Scans, Watchdog(s)
      PROVE  Faithful'
  BY <1>8 DEF Watchdog, Faithful, Filled, Queued, Processed
<1>9. CASE SidecarCrash
  <2>1. /\ \A s \in Scans :
             /\ ingestions[s] \in {"completed", "failed"} => ingestions'[s] = ingestions[s]
             /\ callbacks'[s] \in {callbacks[s], "done"}
        /\ entry' = "none" /\ UNCHANGED <<executions, queue, workers>>
    BY <1>9 DEF SidecarCrash
  <2>2. Filled => Filled'
    BY <2>1 DEF Filled
  <2> QED BY <2>1, <2>2 DEF Faithful, Queued, Processed
<1>10. CASE GatewayCrash
  BY <1>10 DEF GatewayCrash, TypeOK, Faithful, Filled, Queued, Processed
<1>11. CASE UNCHANGED vars
  BY <1>11 DEF vars, Faithful, Filled, Queued, Processed
<1> QED
  BY <1>1, <1>2, <1>3, <1>4, <1>5, <1>6, <1>7, <1>8, <1>9, <1>10, <1>11 DEF Next, RunIngestion

\* The classification of a scan is queued only after it was ingested and an ingestion
\* filled DataHub (kafka.go:253), for any number of scans that share the sidecar's
\* entry, whatever crashes, is lost, fails or is delivered twice.
THEOREM ClassifiedAfterIngestHolds == Spec => []ClassifiedAfterIngest
<1> DEFINE IInv == TypeOK /\ Staged /\ Faithful
<1>1. Init => IInv
  <2>1. Init => Faithful
    BY ConstantsAssumption DEF Init, Faithful, Queued, Processed, Idle
  <2> QED BY <2>1, Start
<1>2. IInv /\ [Next]_vars => IInv'
  BY TypesStep, StagedStep, FaithfulStep
<1>3. IInv => ClassifiedAfterIngest
  BY DEF Faithful, Filled, ClassifiedAfterIngest
<1> QED BY <1>1, <1>2, <1>3, PTL DEF Spec

-----------------------------------------------------------------------------
(* The rows of a column. *)

\* The workers that have yet to insert their row of column c.
Pending(c) == {w \in Workers : workers[w].pc = "classify" /\ c \in workers[w].todo}

\* Each of them adds a row at most.
Bounded == \A c \in Columns : rows[c] + Cardinality(Pending(c)) <= Cardinality(Workers) + uncleared

\* The workers that have yet to insert a row can be counted.
LEMMA PendingFinite ==
    ASSUME NEW c
    PROVE  /\ IsFiniteSet(Pending(c)) /\ Cardinality(Pending(c)) \in Nat
           /\ Cardinality(Workers) \in Nat
           /\ Cardinality(Pending(c)) <= Cardinality(Workers)
<1>1. Pending(c) \subseteq Workers /\ IsFiniteSet(Workers)
  BY ConstantsAssumption DEF Pending
<1> QED BY <1>1, FS_Subset, FS_CardinalityType

\* Fewer of them: a smaller number.
LEMMA PendingFewer ==
    ASSUME NEW c, Pending(c)' \subseteq Pending(c)
    PROVE  Cardinality(Pending(c)') \in Nat /\ Cardinality(Pending(c)') <= Cardinality(Pending(c))
BY PendingFinite, FS_Subset, FS_CardinalityType

\* Every step keeps the rows and those to come within the bound.
LEMMA BoundedStep ==
    ASSUME TypeOK, Bounded, [Next]_vars
    PROVE  Bounded'
<1> USE DEF gateway, sidecar, topics, source, classified, tables, Fault, Drop
<1>1. ASSUME UNCHANGED <<rows, uncleared>>, \A c \in Columns : Pending(c)' \subseteq Pending(c)
      PROVE  Bounded'
  <2> SUFFICES ASSUME NEW c \in Columns
               PROVE  rows'[c] + Cardinality(Pending(c)') <= Cardinality(Workers) + uncleared'
    BY DEF Bounded
  <2> QED BY <1>1, PendingFinite, PendingFewer DEF TypeOK, Bounded
<1>2. ASSUME UNCHANGED <<workers, rows, uncleared>>
      PROVE  Bounded'
  BY <1>1, <1>2 DEF Pending
<1>3. ASSUME NEW w \in Workers, UNCHANGED <<rows, uncleared>>, workers'[w].pc # "classify",
             \A v \in Workers \ {w} : workers'[v] = workers[v]
      PROVE  Bounded'
  BY <1>1, <1>3 DEF Pending
<1>4. ASSUME NEW w \in Workers, Clear(w)
      PROVE  Bounded'
  <2> SUFFICES ASSUME NEW c \in Columns
               PROVE  rows'[c] + Cardinality(Pending(c)') <= Cardinality(Workers) + uncleared'
    BY DEF Bounded
  <2>1. rows'[c] = 0 /\ uncleared' = 0
    BY <1>4 DEF Clear
  <2>2. Pending(c)' \subseteq Workers
    BY DEF Pending
  <2>3. Cardinality(Pending(c)') \in Nat /\ Cardinality(Workers) \in Nat
        /\ Cardinality(Pending(c)') <= Cardinality(Workers)
    BY <2>2, ConstantsAssumption, FS_Subset, FS_CardinalityType
  <2> QED BY <2>1, <2>3
<1>5. ASSUME NEW w \in Workers, ClearFails(w)
      PROVE  Bounded'
  <2> SUFFICES ASSUME NEW c \in Columns
               PROVE  rows'[c] + Cardinality(Pending(c)') <= Cardinality(Workers) + uncleared'
    BY DEF Bounded
  <2>1. rows'[c] = rows[c] /\ uncleared' = uncleared + 1
    BY <1>5 DEF ClearFails
  <2>2. Pending(c)' \subseteq Pending(c) \cup {w}
    BY <1>5 DEF ClearFails, Work, TypeOK, Pending
  <2>3. IsFiniteSet(Pending(c) \cup {w}) /\ Cardinality(Pending(c) \cup {w}) \in Nat
        /\ Cardinality(Pending(c) \cup {w}) <= Cardinality(Pending(c)) + 1
    <3>1. IsFiniteSet(Pending(c) \cup {w}) /\ Cardinality(Pending(c) \cup {w}) =
            IF w \in Pending(c) THEN Cardinality(Pending(c)) ELSE Cardinality(Pending(c)) + 1
      BY PendingFinite, FS_AddElement
    <3> QED BY <3>1, PendingFinite
  <2>4. Cardinality(Pending(c)') \in Nat /\ Cardinality(Pending(c)') <= Cardinality(Pending(c)) + 1
    BY <2>2, <2>3, PendingFinite, FS_Subset, FS_CardinalityType
  <2> QED BY <2>1, <2>4, PendingFinite DEF TypeOK, Bounded
<1>6. ASSUME NEW w \in Workers, Classify(w)
      PROVE  Bounded'
  <2>1. PICK d \in workers[w].todo : /\ \/ rows' = [rows EXCEPT ![d] = @ + 1]
                                        \/ UNCHANGED rows
                                     /\ Work(w, "classify", workers[w].todo \ {d})
    BY <1>6 DEF Classify
  <2>2. /\ workers[w].pc = "classify" /\ workers[w].todo \subseteq Columns
        /\ workers'[w].todo = workers[w].todo \ {d} /\ workers'[w].pc = "classify"
        /\ \A v \in Workers \ {w} : workers'[v] = workers[v]
    BY <1>6, <2>1 DEF TypeOK, Consumer, Classify, Work
  <2>3. uncleared' = uncleared
    BY <1>6 DEF Classify
  <2> SUFFICES ASSUME NEW c \in Columns
               PROVE  rows'[c] + Cardinality(Pending(c)') <= Cardinality(Workers) + uncleared'
    BY DEF Bounded
  <2>4. CASE c = d
    <3>1. Pending(c)' = Pending(c) \ {w} /\ w \in Pending(c)
      BY <2>1, <2>2, <2>4 DEF Pending
    <3>2. Cardinality(Pending(c)') = Cardinality(Pending(c)) - 1
      BY <3>1, PendingFinite, FS_RemoveElement
    <3>3. rows[c] \in Nat /\ rows'[c] <= rows[c] + 1 /\ rows'[c] \in Nat
      BY <2>1, <2>4 DEF TypeOK
    <3> QED BY <2>3, <3>2, <3>3, PendingFinite DEF TypeOK, Bounded
  <2>5. CASE c # d
    <3>1. Pending(c)' \subseteq Pending(c)
      BY <2>2 DEF Pending
    <3>2. rows'[c] = rows[c]
      BY <2>1, <2>2, <2>5 DEF TypeOK
    <3> QED BY <2>3, <3>1, <3>2, PendingFinite, PendingFewer DEF TypeOK, Bounded
  <2> QED BY <2>4, <2>5
<1>7. ASSUME NEW w \in Workers,
             \/ Receive(w) \/ NotFound(w) \/ Load(w) \/ LoadFails(w) \/ FailLog(w) \/ FailSource(w)
             \/ CompleteLog(w) \/ Activate(w) \/ WorkerFails(w) \/ WorkerCrash(w)
      PROVE  Bounded'
  <2>1. UNCHANGED <<rows, uncleared>> /\ \A v \in Workers \ {w} : workers'[v] = workers[v]
    BY <1>7 DEF TypeOK, Receive, NotFound, Load, LoadFails, FailLog, FailSource, CompleteLog,
       Activate, WorkerFails, WorkerCrash, Work
  <2>2. workers'[w].pc # "classify"
    <3>1. CASE workers' = [workers EXCEPT ![w] = Idle]
      BY <3>1 DEF TypeOK, Idle
    <3>2. CASE \E m : workers' = [workers EXCEPT ![w] = [pc |-> "load", msg |-> m, todo |-> {}]]
      BY <3>2 DEF TypeOK
    <3>3. CASE \/ Work(w, "clear", Columns) \/ Work(w, "failLog", {})
               \/ Work(w, "failSource", {}) \/ Work(w, "activate", {})
      BY <3>3, WorkSets
    <3> QED BY <1>7, <3>1, <3>2, <3>3 DEF Receive, NotFound, Load, LoadFails, FailLog, FailSource,
              CompleteLog, Activate, WorkerFails, WorkerCrash
  <2> QED BY <1>3, <2>1, <2>2
<1>8. ASSUME NEW s \in Scans, \/ TriggerScan(s) \/ RunIngestion(s) \/ ScanCallback(s)
                              \/ ExecuteClassificationJob(s) \/ Watchdog(s)
      PROVE  UNCHANGED <<workers, rows, uncleared>>
  BY <1>8 DEF TriggerScan, TriggerRead, TriggerRefused, TriggerWrite, TriggerLog, TriggerRefetch,
     CallSidecar, CallRefused, CallUnanswered, SettleError, TriggerFails, TriggerGivesUp,
     RunIngestion, Ingest, Report, ReportLost, ScanCallback, CallbackRead, CallbackQueue,
     CallbackQueueFails, CallbackError, CallbackLog, CallbackFails, CallbackGivesUp,
     ExecuteClassificationJob, Relay, RelayFails, RelayRepeats, Watchdog
<1>9. ASSUME NEW r \in Requests, Handle(r)
      PROVE  UNCHANGED <<workers, rows, uncleared>>
  BY <1>9 DEF Handle, UpdateRead, UpdateWrite, UpdateFails, DeleteSource, Reclassify
<1>10. SidecarCrash \/ GatewayCrash \/ UNCHANGED vars => UNCHANGED <<workers, rows, uncleared>>
  BY DEF SidecarCrash, GatewayCrash, vars
<1> QED
  BY <1>2, <1>4, <1>5, <1>6, <1>7, <1>8, <1>9, <1>10 DEF Next, ProcessClassificationJob

\* However often a message is delivered, a worker dies, the dataset is reclassified or
\* a DELETE fails (kafka.go:296), a column has one row for each worker at most, and one
\* for each DELETE that failed since the last that did not.
THEOREM RowsHold == Spec => []RowsBounded
<1> DEFINE IInv == TypeOK /\ Bounded
<1>1. Init => IInv
  <2>1. ASSUME Init PROVE Bounded
    <3> SUFFICES ASSUME NEW c \in Columns
                 PROVE  rows[c] + Cardinality(Pending(c)) <= Cardinality(Workers) + uncleared
      BY DEF Bounded
    <3>1. rows[c] = 0 /\ uncleared = 0
      BY <2>1 DEF Init
    <3> QED BY <3>1, PendingFinite
  <2> QED BY <2>1, Start
<1>2. IInv /\ [Next]_vars => IInv'
  BY TypesStep, BoundedStep
<1>3. IInv => RowsBounded
  <2> SUFFICES ASSUME IInv, NEW c \in Columns
               PROVE  rows[c] <= Cardinality(Workers) + uncleared
    BY DEF RowsBounded
  <2> QED BY PendingFinite DEF TypeOK, Bounded
<1> QED BY <1>1, <1>2, <1>3, PTL DEF Spec
=============================================================================
