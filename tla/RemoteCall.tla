----------------------------- MODULE RemoteCall -----------------------------
(***************************************************************************)
(* What SecureLensClient promises its callers: a request is issued once and *)
(* its promise settles at most once, with a body or with an error.          *)
(***************************************************************************)
EXTENDS SdkErrors

CONSTANTS
    Calls,      \* the promises client.request may return
    Bodies,     \* what a successful answer may say
    NoBody,     \* no answer
    Statuses    \* the error statuses the gateway may answer with

VARIABLE result  \* the promise of each call

ASSUME BodiesAssumption == NoBody \notin Bodies
ASSUME StatusAssumption == Statuses \subseteq 400 .. 599

NoError == [code |-> "NONE", status |-> 0]

\* The errors client.request may reject with.
RequestErrors == {parseApiError(s) : s \in Statuses}
                     \cup {SecureLensConnectionError, SecureLensTimeoutError}

Promise(state, body, error) == [state |-> state, body |-> body, error |-> error]

Unissued == Promise("idle", NoBody, NoError)
Pending  == Promise("pending", NoBody, NoError)
Resolved(b) == Promise("ok", b, NoError)
Rejected(e) == Promise("error", NoBody, e)

Promises == {Unissued, Pending} \cup {Resolved(b) : b \in Bodies}
                \cup {Rejected(e) : e \in RequestErrors}

Idle == result = [c \in Calls |-> Unissued]

\* request() is called.
Issue(c) ==
    /\ result[c] = Unissued
    /\ result' = [result EXCEPT ![c] = Pending]

\* The promise settles: request() returned, or threw.
Resolve(c, b) ==
    /\ result[c] = Pending
    /\ result' = [result EXCEPT ![c] = Resolved(b)]

Reject(c, e) ==
    /\ result[c] = Pending
    /\ result' = [result EXCEPT ![c] = Rejected(e)]

Settle(c) == \/ \E b \in Bodies : Resolve(c, b)
             \/ \E e \in RequestErrors : Reject(c, e)

CallNext == \E c \in Calls : Issue(c) \/ Settle(c)

CallSpec == Idle /\ [][CallNext]_result

=============================================================================
