------------------------------ MODULE SdkClient ------------------------------
(***************************************************************************)
(* SecureLensClient.request and executeRequest (sdk/node/src/client.ts): the *)
(* retry loop around one fetch, with the timer of an attempt, the caller's   *)
(* AbortSignal, and the gateway, which may execute an attempt long after the *)
(* client gave it up.                                                        *)
(*                                                                           *)
(* One action is what the event loop runs between two awaits. Time is left   *)
(* out: a timer that is armed may fire at any moment, a backoff may end at   *)
(* any moment.                                                               *)
(***************************************************************************)
EXTENDS SdkErrors, FiniteSets

CONSTANTS
    Calls,      \* the promises client.request returns
    Bodies,     \* what a successful answer may say
    NoBody,     \* no answer
    Statuses,   \* the error statuses the gateway may answer with
    Retries,    \* config.retries
    Signals,    \* the calls whose options carry an AbortSignal
    Faults      \* what may go wrong: a subset of FaultKinds

FaultKinds == {"connection", "truncated", "stall"}

ASSUME ClientAssumption ==
    /\ Retries \in Nat
    /\ Statuses \subseteq 400 .. 599
    /\ Signals \subseteq Calls
    /\ Faults \subseteq FaultKinds
    /\ NoBody \notin Bodies

VARIABLES
    result,   \* the promise of each call
    loop,     \* where request() and executeRequest stand, per call
    aborted,  \* the calls whose signal was aborted
    gateway   \* per call: requests on their way, attempts executed, the answer

vars == <<result, loop, aborted, gateway>>

Remote == INSTANCE RemoteCall

Attempts == 0 .. Retries
NoAnswer == [status |-> 0, body |-> NoBody]
Answers  == [status : {200}, body : Bodies] \cup [status : Statuses, body : {NoBody}]

-----------------------------------------------------------------------------
(* The states of one call. *)

\* "body": the headers are in and the body is awaited; "stalled": it never comes.
Loop == [pc      : {"new", "sleep", "fetch", "body", "stalled", "settled"},
         attempt : Attempts,
         timer   : BOOLEAN]

Gateway == [out    : SUBSET Attempts,
            served : SUBSET Attempts,
            answer : Answers \cup {NoAnswer}]

TypeOK ==
    /\ result \in [Calls -> Remote!Promises]
    /\ loop \in [Calls -> Loop]
    /\ aborted \subseteq Signals
    /\ gateway \in [Calls -> Gateway]

Init ==
    /\ Remote!Idle
    /\ loop = [c \in Calls |-> [pc |-> "new", attempt |-> 0, timer |-> FALSE]]
    /\ aborted = {}
    /\ gateway = [c \in Calls |-> [out |-> {}, served |-> {}, answer |-> NoAnswer]]

-----------------------------------------------------------------------------
(* The retry loop. *)

At(c, pc) == loop[c].pc = pc

\* Mistake: the signal is not handed to fetch on a retry
SendUnsignalled(c, a) ==
    /\ loop' = [loop EXCEPT ![c] = [pc |-> "fetch", attempt |-> a, timer |-> TRUE]]
    /\ gateway' = [gateway EXCEPT ![c].out = @ \cup {a}, ![c].answer = NoAnswer]

\* Mistake: the timer of an attempt is not armed again
SendUntimed(c, a) ==
    /\ loop' = [loop EXCEPT ![c] = [pc |-> "fetch", attempt |-> a, timer |-> a = 0]]
    /\ gateway' = [gateway EXCEPT
           ![c].out = IF c \in aborted THEN @ ELSE @ \cup {a},
           ![c].answer = NoAnswer]

\* executeRequest up to its await: the timer is armed and the request leaves,
\* unless the signal was aborted before: then fetch rejects at once.
SendAttempt(c, a) ==
    /\ loop' = [loop EXCEPT ![c] = [pc |-> "fetch", attempt |-> a, timer |-> TRUE]]
    /\ gateway' = [gateway EXCEPT
           ![c].out = IF c \in aborted THEN @ ELSE @ \cup {a},
           ![c].answer = NoAnswer]

\* request() is called.
Request(c) ==
    /\ At(c, "new")
    /\ result' = [result EXCEPT ![c] = Remote!Pending]
    /\ SendAttempt(c, 0)
    /\ UNCHANGED aborted

\* Mistake, off by one: an attempt more than config.retries
FailLate(c, e) ==
    /\ IF isRetryableError(e) /\ loop[c].attempt <= Retries
       THEN /\ loop' = [loop EXCEPT ![c] = [pc |-> "sleep", attempt |-> @.attempt + 1,
                                            timer |-> FALSE]]
            /\ UNCHANGED result
       ELSE /\ loop' = [loop EXCEPT ![c].pc = "settled", ![c].timer = FALSE]
            /\ result' = [result EXCEPT ![c] = Remote!Rejected(e)]
    /\ UNCHANGED <<aborted, gateway>>

\* Mistake: a failed attempt is retried and reported
FailTwice(c, e) ==
    /\ IF isRetryableError(e) /\ loop[c].attempt < Retries
       THEN /\ loop' = [loop EXCEPT ![c] = [pc |-> "sleep", attempt |-> @.attempt + 1,
                                            timer |-> FALSE]]
       ELSE /\ loop' = [loop EXCEPT ![c].pc = "settled", ![c].timer = FALSE]
    /\ result' = [result EXCEPT ![c] = Remote!Rejected(e)]
    /\ UNCHANGED <<aborted, gateway>>

\* The catch of request(): back off and try again, or throw.
Fail(c, e) ==
    /\ IF isRetryableError(e) /\ loop[c].attempt < Retries
       THEN /\ loop' = [loop EXCEPT ![c] = [pc |-> "sleep", attempt |-> @.attempt + 1,
                                            timer |-> FALSE]]
            /\ UNCHANGED result
       ELSE /\ loop' = [loop EXCEPT ![c].pc = "settled", ![c].timer = FALSE]
            /\ result' = [result EXCEPT ![c] = Remote!Rejected(e)]
    /\ UNCHANGED <<aborted, gateway>>

\* The backoff ends.
Wake(c) ==
    /\ At(c, "sleep")
    /\ SendAttempt(c, loop[c].attempt)
    /\ UNCHANGED <<result, aborted>>

\* setTimeout(() => controller.abort()): fetch listens to the caller's signal
\* instead of the controller's when there is one.
Timeout(c) ==
    /\ loop[c].timer
    /\ At(c, "fetch")
    /\ IF c \in Signals
       THEN /\ loop' = [loop EXCEPT ![c].timer = FALSE]
            /\ UNCHANGED <<result, aborted, gateway>>
       ELSE Fail(c, SecureLensTimeoutError)

\* The caller aborts its signal.
UserAbort(c) ==
    /\ c \in Signals \ aborted
    /\ ~ At(c, "new")
    /\ aborted' = aborted \cup {c}
    /\ UNCHANGED <<result, loop, gateway>>

\* fetch, or the body's reader, rejects with an AbortError.
Aborted(c) ==
    /\ c \in aborted
    /\ loop[c].pc \in {"fetch", "body", "stalled"}
    /\ Fail(c, SecureLensTimeoutError)

\* The connection fails: fetch rejects, or the body ends early.
ConnectionFails(c) ==
    /\ "connection" \in Faults
    /\ loop[c].pc \in {"fetch", "body"}
    /\ c \notin aborted
    /\ Fail(c, SecureLensConnectionError)

\* await fetch returns: the timer is cleared before the body is read.
Headers(c) ==
    /\ At(c, "fetch")
    /\ c \notin aborted
    /\ gateway[c].answer # NoAnswer
    /\ loop' = [loop EXCEPT ![c].pc = "body", ![c].timer = FALSE]
    /\ UNCHANGED <<result, aborted, gateway>>

\* parseResponse and what follows it.
ParseResponse(c) ==
    /\ At(c, "body")
    /\ c \notin aborted
    /\ IF gateway[c].answer.status = 200
       THEN /\ result' = [result EXCEPT ![c] = Remote!Resolved(gateway[c].answer.body)]
            /\ loop' = [loop EXCEPT ![c].pc = "settled"]
            /\ UNCHANGED <<aborted, gateway>>
       ELSE Fail(c, parseApiError(gateway[c].answer.status))

\* A body announced as JSON that is not: json() throws, which executeRequest
\* reports as a failure to connect.
ParseFails(c) ==
    /\ "truncated" \in Faults
    /\ At(c, "body")
    /\ c \notin aborted
    /\ Fail(c, SecureLensConnectionError)

\* The gateway stops in the middle of a body. No timer is armed any more.
BodyStalls(c) ==
    /\ "stall" \in Faults
    /\ At(c, "body")
    /\ loop' = [loop EXCEPT ![c].pc = "stalled"]
    /\ UNCHANGED <<result, aborted, gateway>>

-----------------------------------------------------------------------------
(* The gateway. *)

\* Mistake: a retry's answer is taken from any attempt
ServeAny(c, a) ==
    /\ a \in gateway[c].out
    /\ \E answer \in Answers :
           gateway' = [gateway EXCEPT
               ![c].out = @ \ {a},
               ![c].served = @ \cup {a},
               ![c].answer = answer]
    /\ UNCHANGED <<result, loop, aborted>>

\* An attempt is executed, even one the client has given up; the answer counts
\* if the client still waits for it.
Serve(c, a) ==
    /\ a \in gateway[c].out
    /\ \E answer \in Answers :
           gateway' = [gateway EXCEPT
               ![c].out = @ \ {a},
               ![c].served = @ \cup {a},
               ![c].answer = IF At(c, "fetch") /\ loop[c].attempt = a
                             THEN answer ELSE @]
    /\ UNCHANGED <<result, loop, aborted>>

\* A step the client's event loop or its timers take.
ClientStep(c) ==
    \/ Wake(c)    \/ Timeout(c)  \/ Aborted(c)
    \/ Headers(c) \/ ParseResponse(c)

CallStep(c) ==
    \/ Request(c) \/ ClientStep(c)
    \/ UserAbort(c) \/ ConnectionFails(c) \/ ParseFails(c) \/ BodyStalls(c)
    \/ \E a \in Attempts : Serve(c, a)

Done == /\ \A c \in Calls : At(c, "settled") \/ At(c, "stalled")
        /\ UNCHANGED vars

Next == (\E c \in Calls : CallStep(c)) \/ Done

\* Timers fire and promises that are due are resumed; that the gateway answers,
\* or that the caller aborts, is not assumed.
Fairness == \A c \in Calls : WF_vars(ClientStep(c))

Spec == Init /\ [][Next]_vars /\ Fairness

-----------------------------------------------------------------------------
(* Properties. *)

\* The gateway executes each attempt at most once and only attempts that were
\* made, so that a POST retried after a lost answer is executed at most
\* Retries + 1 times, and a promise is resolved with the answer to an attempt
\* that was executed: late executions of abandoned attempts do not answer it.
ExecutionsAccounted == \A c \in Calls :
    LET g == gateway[c] IN
    /\ g.out \cap g.served = {}
    /\ g.out \cup g.served \subseteq 0 .. loop[c].attempt
    /\ result[c].state = "ok" =>
           /\ loop[c].attempt \in g.served
           /\ g.answer.body = result[c].body

\* No request leaves for a call that has settled or whose signal was aborted,
\* although the loop goes on backing off and retrying after an abort.
Quiet == \A c \in Calls :
    At(c, "settled") \/ c \in aborted => gateway'[c].out \subseteq gateway[c].out

QuietAfter == [][Quiet]_vars

\* The loop with its retries keeps RemoteCall's promise: each promise settles
\* once, with a body the gateway sent or an error the SDK documents.
PromiseKept == Remote!CallSpec

\* A call settles, however often attempts fail or are never answered: one
\* without a signal unless the gateway stops in the middle of a body, one with
\* a signal (which replaces the timer) once it is aborted, after the retries
\* that still follow the abort.
Started(c) == loop[c].pc # "new" /\ (c \in Signals => c \in aborted)
Settled(c) == At(c, "settled") \/ (At(c, "stalled") /\ c \notin Signals)
Settles == \A c \in Calls : Started(c) ~> Settled(c)

=============================================================================
