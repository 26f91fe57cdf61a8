-------------------------------- MODULE Dpia --------------------------------
(***************************************************************************)
(* One data protection impact assessment: a row of table dpias whose steps  *)
(* are one JSON column that handlers read, change and write back            *)
(* (internal/api/dpia_cde_profiling.go). One action is one SQL statement;   *)
(* the handlers drop the errors of all but the first.                       *)
(***************************************************************************)
EXTENDS Integers, FiniteSets

CONSTANTS
    Earlier,  \* the steps before the officer's, which the code treats alike
    Requests, \* updateDPIAStep and updateDPIAStatus, each served once
    MaxAbandons \* bound: requests whose client goes away

VARIABLES
    steps,     \* dpias.steps: the status of each step
    status,    \* dpias.status
    consulted, \* dpias.dpo_consulted
    requests,  \* each request's handler
    abandons   \* clients gone so far

vars == <<steps, status, consulted, requests, abandons>>

-----------------------------------------------------------------------------
Steps == Earlier \cup {"dpo_consultation", "sign_off"}
StepStatuses == {"completed", "skipped", "in_progress", "pending"}
Statuses == {"in_progress", "pending_dpo", "approved", "rejected", "completed"}

defaultDPIASteps == [s \in Steps |-> "pending"]

IsDone(s) == s \in {"completed", "skipped"}

computeDPIAStatus(all) ==
    CASE \A s \in Steps : IsDone(all[s]) -> "completed"
      [] all["dpo_consultation"] = "pending" /\ (\A s \in Earlier : IsDone(all[s])) -> "pending_dpo"
      [] OTHER -> "in_progress"

\* requests[q].steps is the handler's copy.
New == [op |-> "none", at |-> "new", to |-> "pending", steps |-> defaultDPIASteps]

Goto(q, at) == requests' = [requests EXCEPT ![q].at = at]

-----------------------------------------------------------------------------
(* updateDPIAStep. *)

ReadForStep(q) ==
    /\ requests[q].at = "new"
    /\ \E s \in Steps, to \in StepStatuses :
         requests' = [requests EXCEPT ![q] =
                        [op |-> "step", to |-> to, steps |-> [steps EXCEPT ![s] = to],
                         at |-> IF s = "dpo_consultation" /\ to = "completed" THEN "consult" ELSE "store"]]
    /\ UNCHANGED <<steps, status, consulted, abandons>>

ConsultAt(q, at, next) ==
    /\ requests[q].at = at
    /\ consulted' = TRUE
    /\ Goto(q, next)
    /\ UNCHANGED <<steps, status, abandons>>

\* The steps of the copy, and the status that follows from them.
StoreAt(q, at, next) ==
    /\ requests[q].at = at
    /\ steps' = requests[q].steps
    /\ status' = computeDPIAStatus(requests[q].steps)
    /\ Goto(q, next)
    /\ UNCHANGED <<consulted, abandons>>

\* Mutant: the steps are stored before the officer's consultation is recorded.
StoreThenConsult(q) == \/ StoreAt(q, "consult", "late") \/ ConsultAt(q, "late", "done")
                       \/ StoreAt(q, "store", "done")

ConsultThenStore(q) == ConsultAt(q, "consult", "store") \/ StoreAt(q, "store", "done")

-----------------------------------------------------------------------------
(* updateDPIAStatus. *)

ReadForStatus(q) ==
    /\ requests[q].at = "new"
    /\ \E to \in Statuses :
         requests' = [requests EXCEPT ![q] =
                        [op |-> "status", to |-> to, steps |-> steps,
                         at |-> IF to = "approved" THEN "approve" ELSE "status"]]
    /\ UNCHANGED <<steps, status, consulted, abandons>>

Approve(q) ==
    /\ requests[q].at = "approve"
    /\ steps' = [requests[q].steps EXCEPT !["dpo_consultation"] = "completed", !["sign_off"] = "completed"]
    /\ consulted' = TRUE
    /\ Goto(q, "status")
    /\ UNCHANGED <<status, abandons>>

WriteStatus(q) ==
    /\ requests[q].at = "status"
    /\ status' = IF requests[q].to = "approved" THEN "completed" ELSE requests[q].to
    /\ Goto(q, "done")
    /\ UNCHANGED <<steps, consulted, abandons>>

\* The client goes away: every later statement of the request's context fails.
Abandon(q) ==
    /\ abandons < MaxAbandons
    /\ requests[q].at \notin {"new", "done"}
    /\ abandons' = abandons + 1
    /\ Goto(q, "done")
    /\ UNCHANGED <<steps, status, consulted>>

-----------------------------------------------------------------------------
\* createDPIA.
Init ==
    /\ steps = defaultDPIASteps
    /\ status = "in_progress"
    /\ consulted = FALSE
    /\ requests = [q \in Requests |-> New]
    /\ abandons = 0

UpdateDPIAStep(q) == ReadForStep(q) \/ ConsultThenStore(q)
UpdateDPIAStatus(q) == ReadForStatus(q) \/ Approve(q) \/ WriteStatus(q)

Next == \E q \in Requests : UpdateDPIAStep(q) \/ UpdateDPIAStatus(q) \/ Abandon(q)

-----------------------------------------------------------------------------
\* Somebody set the status to "completed" outright.
Forced == \E q \in Requests : requests[q].op = "status" /\ requests[q].to = "completed"

\* Requests overwrite each other's steps, and may stop half way; still the
\* officer's step is never completed, nor the assessment, without the
\* consultation on record, unless that step was skipped or the status set
\* outright.
CompletedWasConsulted ==
    /\ steps["dpo_consultation"] = "completed" => consulted
    /\ status = "completed" /\ steps["dpo_consultation"] # "skipped" /\ ~ Forced => consulted

=============================================================================
