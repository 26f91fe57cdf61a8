----------------------------- MODULE TaskWatch -----------------------------
(***************************************************************************)
(* The three pages that start a job on the server and show that it runs      *)
(* until they learn of its end, each in a way of its own:                    *)
(*   source          data-sources/[id] polls the status of the data source   *)
(*   rot             rot waits for an event on the notification stream       *)
(*   classification  classification/[id] does so too, with a timeout         *)
(* The initial state picks a page. Its jobs are numbered by the clicks that  *)
(* start them; job 0 is another user's, on the same object. A job that the   *)
(* page does not know of any more keeps running. An update of the data source *)
(* writes back the status that it has read some time before.                 *)
(*                                                                           *)
(* A stream event reaches the page only if its EventSource is connected when *)
(* the server sends it. The EventSource reconnects by itself, and the        *)
(* classification page opens a new one whenever its parent renders           *)
(* (onComplete is a dependency of the effect).                               *)
(***************************************************************************)
EXTENDS Naturals, Sequences

CONSTANTS
    MaxClicks,  \* a bound on the jobs that the page starts
    MaxVisits,  \* a bound on leaving the page and coming back
    MaxInbox    \* a bound on the events on their way to the page

ASSUME BoundsAssumption == MaxClicks \in Nat /\ MaxVisits \in Nat /\ MaxInbox \in Nat

VARIABLES
    page,     \* "source", "rot" or "classification"
    clicks,   \* the jobs the page has started; the last is the one it shows
    busy,     \* localScanning, isScanning or isClassifying
    request,  \* "none", "sent", "accepted" or "refused"
    shown,    \* the status of the data source in the page's cache
    load,     \* "none", "unread", or the status that the load has read
    stream,   \* the EventSource: "closed", "connecting" or "open"
    inbox,    \* the events on their way to it
    card,     \* jobStatus of the classification page
    closing,  \* its timers that run from a completion to onComplete
    status,   \* the status of the data source
    copy,     \* the status that an update of it has read, or "none"
    running,  \* the jobs that run
    other,    \* whether another user's job has been started
    visits,   \* how often the page was left
    begun,    \* the server accepted the page's job
    noticed,  \* the page has seen its data source scanning since the click
    missed,   \* the end of the page's job was sent to nobody
    overwritten, \* an update changed the status since the click
    foreign   \* a job ended that was not the page's, or the click met news of an older one

job == <<status, copy, running, other>>
client == <<clicks, busy, request, shown, load, stream, inbox, card, closing, visits>>
history == <<begun, noticed, missed, overwritten, foreign>>
vars == <<page, client, job, history>>

\* Before the first scan, and how the last one ended.
Statuses == {"pending", "active", "error"}
Ends == {"completed", "failed"}

Init ==
    /\ page \in {"source", "rot", "classification"}
    /\ clicks = 0 /\ busy = FALSE /\ request = "none"
    /\ status \in Statuses /\ shown = status /\ load = "none"
    /\ stream = "closed" /\ inbox = <<>> /\ card = "idle" /\ closing = 0
    /\ copy = "none" /\ running = {} /\ other = FALSE /\ visits = 0
    /\ begun = FALSE /\ noticed = FALSE /\ missed = FALSE
    /\ overwritten = FALSE /\ foreign = FALSE

IsScanning == busy \/ request # "none" \/ shown = "scanning"

\* The effect that closes the EventSource, and the one that opens it while there is a reason to.
CloseStream(reason) ==
    /\ stream' = IF reason THEN "connecting" ELSE "closed"
    /\ inbox' = <<>>

MineIn(events) == \E i \in DOMAIN events : events[i] = <<clicks, "completed">>
----------------------------------------------------------------------------
(* The command *)

\* handleScan, handleStartScan, handleClassify.
Click ==
    /\ ~busy /\ request = "none"
    /\ page = "source" => ~IsScanning
    /\ clicks < MaxClicks
    /\ clicks' = clicks + 1
    /\ busy' = TRUE
    /\ request' = "sent"
    /\ stream' = IF page # "source" /\ stream = "closed" THEN "connecting" ELSE stream
    /\ card' = IF page = "classification" THEN "queued" ELSE card
    /\ begun' = FALSE /\ noticed' = FALSE /\ missed' = FALSE /\ overwritten' = FALSE
    /\ foreign' = (closing > 0 \/ inbox # <<>> \/ {shown, load} \ {"none", "unread"} # {status})
    /\ UNCHANGED <<page, shown, load, inbox, closing, visits, job>>

\* The server starts the job. A data source that is being scanned is a conflict.
Accept ==
    /\ request = "sent"
    /\ page = "source" => status # "scanning"
    /\ request' = "accepted"
    /\ running' = running \union {clicks}
    /\ status' = IF page = "source" THEN "scanning" ELSE status
    /\ begun' = TRUE
    /\ UNCHANGED <<page, clicks, busy, shown, load, stream, inbox, card, closing, visits, copy,
                   other, noticed, missed, overwritten, foreign>>

\* An error of the server or of the network, before the job was started or after.
Refuse ==
    /\ request \in {"sent", "accepted"}
    /\ request' = "refused"
    /\ UNCHANGED <<page, clicks, busy, shown, load, stream, inbox, card, closing, visits, job,
                   history>>

\* The source page loads the source; the other two wait for the stream.
Answer ==
    /\ request = "accepted"
    /\ request' = "none"
    /\ load' = IF page = "source" THEN "unread" ELSE load
    /\ UNCHANGED <<page, clicks, busy, shown, stream, inbox, card, closing, visits, job, history>>

\* Mutant: the source page forgets to reset its flag.
AnswerFailsBusy ==
    /\ request = "refused"
    /\ request' = "none"
    /\ UNCHANGED <<page, clicks, busy, shown, load, stream, inbox, card, closing, visits, job,
                   history>>

\* Only the source page resets its flag.
AnswerFails ==
    /\ request = "refused"
    /\ request' = "none"
    /\ busy' = (busy /\ page # "source")
    /\ UNCHANGED <<page, clicks, shown, load, stream, inbox, card, closing, visits, job, history>>
----------------------------------------------------------------------------
(* The server *)

\* For the source page a scan, or a classification that does not look at the status.
OtherStarts ==
    /\ ~other
    /\ other' = TRUE
    /\ running' = running \union {0}
    /\ \/ UNCHANGED status
       \/ page = "source" /\ status # "scanning" /\ status' = "scanning"
    /\ UNCHANGED <<page, client, copy, history>>

\* updateDataSource and the region detections read the row, take their time ...
UpdateReads ==
    /\ page = "source" /\ copy = "none"
    /\ copy' = status
    /\ UNCHANGED <<page, client, status, running, other, history>>

\* ... and write every column of it back.
UpdateWrites ==
    /\ copy # "none"
    /\ status' = copy
    /\ copy' = "none"
    /\ overwritten' = (overwritten \/ copy # status)
    /\ UNCHANGED <<page, client, running, other, begun, noticed, missed, foreign>>

UpdateFails ==
    /\ copy # "none"
    /\ copy' = "none"
    /\ UNCHANGED <<page, client, status, running, other, history>>

Send(j, kind) ==
    inbox' = IF page # "source" /\ stream = "open" THEN Append(inbox, <<j, kind>>) ELSE inbox

\* A ROT scan sends no progress worth the name; a classification does, column by column.
Progress(j) ==
    /\ page = "classification" /\ stream = "open" /\ Len(inbox) < MaxInbox
    /\ Send(j, "progress")
    /\ UNCHANGED <<page, clicks, busy, request, shown, load, stream, card, closing, visits, job,
                   history>>

\* The end of a job: the status of the source, or an event. A ROT scan never fails.
End(j, end) ==
    /\ page = "rot" => end = "completed"
    /\ Len(inbox) <= MaxInbox
    /\ running' = running \ {j}
    /\ status' = IF page # "source" THEN status
                 ELSE IF end = "completed" THEN "active" ELSE "error"
    /\ Send(j, end)
    /\ missed' = (missed \/ (j = clicks /\ stream # "open"))
    /\ foreign' = (foreign \/ j # clicks)
    /\ UNCHANGED <<page, clicks, busy, request, shown, load, stream, card, closing, visits, copy,
                   other, begun, noticed, overwritten>>
----------------------------------------------------------------------------
(* The source page *)

\* refetch(): by the interval and the timers of handleScan, or because the window got the focus.
Refetch ==
    /\ page = "source"
    /\ load' = "unread"
    /\ UNCHANGED <<page, clicks, busy, request, shown, stream, inbox, card, closing, visits, job,
                   history>>

Poll == IsScanning /\ Refetch

Read ==
    /\ load = "unread"
    /\ load' = status
    /\ UNCHANGED <<page, clicks, busy, request, shown, stream, inbox, card, closing, visits, job,
                   history>>

\* Mutant: the flag follows every load, not only one that changes the status.
ReceiveAlways ==
    /\ load \notin {"none", "unread"}
    /\ shown' = load
    /\ busy' = (busy /\ load = "scanning")
    /\ load' = "none"
    /\ noticed' = (noticed \/ load = "scanning")
    /\ UNCHANGED <<page, clicks, request, stream, inbox, card, closing, visits, job, begun, missed,
                   overwritten, foreign>>

\* The effect on dataSource.status runs when its value changes.
Receive ==
    /\ load \notin {"none", "unread"}
    /\ shown' = load
    /\ busy' = (busy /\ (load = shown \/ load = "scanning"))
    /\ load' = "none"
    /\ noticed' = (noticed \/ load = "scanning")
    /\ UNCHANGED <<page, clicks, request, stream, inbox, card, closing, visits, job, begun, missed,
                   overwritten, foreign>>

LoadFails ==
    /\ load # "none"
    /\ load' = "none"
    /\ UNCHANGED <<page, clicks, busy, request, shown, stream, inbox, card, closing, visits, job,
                   history>>
----------------------------------------------------------------------------
(* The stream *)

Connect ==
    /\ stream = "connecting"
    /\ stream' = "open"
    /\ UNCHANGED <<page, clicks, busy, request, shown, load, inbox, card, closing, visits, job,
                   history>>

\* The connection breaks, or the effect runs anew.
Drop ==
    /\ stream = "open"
    /\ stream' = "connecting"
    /\ inbox' = <<>>
    /\ missed' = (missed \/ MineIn(inbox))
    /\ UNCHANGED <<page, clicks, busy, request, shown, load, card, closing, visits, job, begun,
                   noticed, overwritten, foreign>>

\* Mutant: the EventSource stays open.
ROTCompletedOpen ==
    /\ page = "rot" /\ inbox # <<>>
    /\ busy' = FALSE
    /\ inbox' = Tail(inbox)
    /\ UNCHANGED <<page, clicks, request, shown, load, stream, card, closing, visits, job, history>>

\* rot.scan.completed of any scan of the tenant.
ROTCompleted ==
    /\ page = "rot" /\ inbox # <<>>
    /\ busy' = FALSE
    /\ CloseStream(FALSE)
    /\ UNCHANGED <<page, clicks, request, shown, load, card, closing, visits, job, history>>

\* handleClassificationEvent, told apart by the dataset only.
Completed ==
    /\ page = "classification" /\ inbox # <<>> /\ Head(inbox)[2] = "completed"
    /\ card' = "completed"
    /\ closing' = closing + 1
    /\ inbox' = Tail(inbox)
    /\ UNCHANGED <<page, clicks, busy, request, shown, load, stream, visits, job, history>>

\* The card closes its stream and opens another, because the page goes on being busy.
Failed ==
    /\ page = "classification" /\ inbox # <<>> /\ Head(inbox)[2] = "failed"
    /\ card' = "failed"
    /\ CloseStream(busy \/ request # "none")
    /\ missed' = (missed \/ MineIn(Tail(inbox)))
    /\ UNCHANGED <<page, clicks, busy, request, shown, load, closing, visits, job, begun, noticed,
                   overwritten, foreign>>

Progressed ==
    /\ page = "classification" /\ inbox # <<>> /\ Head(inbox)[2] = "progress"
    /\ card' = "running"
    /\ inbox' = Tail(inbox)
    /\ UNCHANGED <<page, clicks, busy, request, shown, load, stream, closing, visits, job, history>>

\* One second after a completion: onComplete.
Finish ==
    /\ closing > 0
    /\ closing' = closing - 1
    /\ busy' = FALSE
    /\ CloseStream(request # "none")
    /\ missed' = (missed \/ MineIn(inbox))
    /\ UNCHANGED <<page, clicks, request, shown, load, card, visits, job, begun, noticed,
                   overwritten, foreign>>

\* Sixty seconds without an end; the request has timed out after thirty (lib/api.ts).
Timeout ==
    /\ page = "classification" /\ stream # "closed"
    /\ card \notin Ends /\ request = "none"
    /\ card' = "completed"
    /\ busy' = FALSE
    /\ CloseStream(FALSE)
    /\ UNCHANGED <<page, clicks, request, shown, load, closing, visits, job, history>>
----------------------------------------------------------------------------
\* Leaving the page and coming back loses its state; the cached status may be reloaded.
Revisit ==
    /\ visits < MaxVisits
    /\ visits' = visits + 1
    /\ busy' = FALSE /\ request' = "none"
    /\ stream' = "closed" /\ inbox' = <<>>
    /\ card' = "idle" /\ closing' = 0
    /\ UNCHANGED <<page, clicks, shown, load, job, history>>

Next ==
    \/ Click \/ Accept \/ Refuse \/ Answer \/ AnswerFails
    \/ OtherStarts \/ UpdateReads \/ UpdateWrites \/ UpdateFails
    \/ \E j \in running : Progress(j) \/ \E end \in Ends : End(j, end)
    \/ Refetch \/ Read \/ Receive \/ LoadFails
    \/ Connect \/ Drop \/ ROTCompleted
    \/ Completed \/ Failed \/ Progressed \/ Finish \/ Timeout
    \/ Revisit

\* Requests are answered, timers fire and what is in the inbox arrives. A poll cancels the load
\* before it, so now and then one has to succeed within the second.
Fairness ==
    /\ WF_vars(Accept \/ Refuse) /\ WF_vars(Answer \/ AnswerFails)
    /\ WF_vars(Poll) /\ SF_vars(Read) /\ SF_vars(Receive)
    /\ WF_vars(ROTCompleted) /\ WF_vars(Completed \/ Failed \/ Progressed)
    /\ WF_vars(Finish) /\ WF_vars(Timeout)

Spec == Init /\ [][Next]_vars /\ Fairness
----------------------------------------------------------------------------
\* Beside the types: the two pages that wait for an event have a stream while they wait, and
\* the ROT page has none when it does not.
TypeOK ==
    /\ page \in {"source", "rot", "classification"}
    /\ clicks \in 0..MaxClicks /\ visits \in 0..MaxVisits /\ closing \in Nat
    /\ request \in {"none", "sent", "accepted", "refused"}
    /\ shown \in Statuses \union {"scanning"} /\ status \in Statuses \union {"scanning"}
    /\ copy \in Statuses \union {"none", "scanning"}
    /\ load \in Statuses \union {"none", "unread", "scanning"}
    /\ stream \in {"closed", "connecting", "open"}
    /\ card \in {"idle", "queued", "running"} \union Ends
    /\ running \subseteq 0..MaxClicks
    /\ page = "source" => stream = "closed"
    /\ page = "rot" => (busy <=> stream # "closed")
    /\ page = "classification" /\ busy => stream # "closed"

\* A page goes on being busy while its job runs, unless the request seemed to have failed, the
\* sixty seconds were over, the page was left, another job has ended (another user's, or an
\* earlier one of this page whose news was late), or an update of the data source, by whoever
\* read its status before, has put an older status over "scanning".
StaysBusy ==
    busy /\ clicks \in running /\ ~foreign /\ ~overwritten
       => busy' \/ request = "refused" \/ Timeout \/ visits' # visits

BusyWhileRunning == [][StaysBusy]_vars

\* Why a page may never learn that its job is over: the source page saw the same status before
\* the scan and after it, or an update wrote an old "scanning" back after it, the ROT scan was
\* refused or its event was sent while nobody listened, or the classification failed.
NeverLearns ==
    CASE page = "source" -> status = "scanning" \/ (begun /\ ~noticed /\ shown = status)
      [] page = "rot" -> missed \/ ~begun
      [] OTHER -> card = "failed"

\* A page that is busy although nothing runs any more becomes free again, if it can ever learn
\* that nothing does.
BecomesFree ==
    (busy /\ request = "none" /\ running = {}) ~> (~busy \/ NeverLearns \/ running # {})
============================================================================
