-------------------------- MODULE SdkClientProofs --------------------------
(***************************************************************************)
(* What the retry loop of client.ts promises for any number of calls,        *)
(* retries, statuses and faults: that it implements RemoteCall (a promise    *)
(* settles once), that abandoned attempts neither answer a call nor are      *)
(* executed twice, and that nothing leaves after a call settled or was       *)
(* aborted.                                                                  *)
(*                                                                           *)
(* None of these is inductive: whether a promise is still pending and which  *)
(* attempts may be on their way follow from where the loop stands, and       *)
(* LoopInv says how.                                                         *)
(***************************************************************************)
EXTENDS SdkClient, TLAPS

\* The attempts of a call that have left.
Sent(c) == gateway[c].out \cup gateway[c].served

Awaiting == {"sleep", "fetch", "body", "stalled"}

\* Where the loop of one call stands, and what that means for its promise, its
\* attempts and its answer.
LoopOf(c) ==
    /\ At(c, "new") => result[c] = Remote!Unissued /\ Sent(c) = {}
    /\ loop[c].pc \in Awaiting => result[c] = Remote!Pending
    /\ gateway[c].out \cap gateway[c].served = {}
    /\ Sent(c) \subseteq 0 .. loop[c].attempt
    /\ At(c, "sleep") => loop[c].attempt \notin Sent(c)
    /\ At(c, "fetch") /\ gateway[c].answer # NoAnswer =>
           loop[c].attempt \in gateway[c].served
    /\ loop[c].pc \in {"body", "stalled"} =>
           gateway[c].answer # NoAnswer /\ loop[c].attempt \in gateway[c].served
    /\ result[c].state = "ok" =>
           /\ At(c, "settled")
           /\ loop[c].attempt \in gateway[c].served
           /\ gateway[c].answer.body = result[c].body

LoopInv == \A c \in Calls : LoopOf(c)

\* Everything about a call but the call itself is left alone.
Others(c) == \A d \in Calls \ {c} :
    result'[d] = result[d] /\ loop'[d] = loop[d] /\ gateway'[d] = gateway[d]

\* A step of one call keeps what is known of the others.
LEMMA OthersKeep ==
    ASSUME LoopInv, NEW c \in Calls, Others(c), LoopOf(c)'
    PROVE  LoopInv'
BY DEF LoopInv, LoopOf, Others, Sent, At

-----------------------------------------------------------------------------
(* Types. *)

\* A call that fails rejects its promise with an error of the client.
LEMMA FailTypes ==
    ASSUME TypeOK, NEW c \in Calls, NEW e \in Remote!RequestErrors, Fail(c, e)
    PROVE  TypeOK'
<1>1. Remote!Rejected(e) \in Remote!Promises
  BY DEF Remote!Promises
<1>2. CASE isRetryableError(e) /\ loop[c].attempt < Retries
  <2>1. loop[c].attempt + 1 \in Attempts
    BY <1>2, ClientAssumption DEF TypeOK, Loop, Attempts
  <2>2. [pc |-> "sleep", attempt |-> loop[c].attempt + 1, timer |-> FALSE] \in Loop
    BY <2>1 DEF Loop
  <2>3. loop' = [loop EXCEPT ![c] = [pc |-> "sleep", attempt |-> loop[c].attempt + 1,
                                     timer |-> FALSE]]
    BY <1>2 DEF Fail
  <2>4. loop' \in [Calls -> Loop]
    BY <2>2, <2>3 DEF TypeOK
  <2> QED BY <1>2, <2>4 DEF Fail, TypeOK
<1>3. CASE ~ (isRetryableError(e) /\ loop[c].attempt < Retries)
  <2>1. result' = [result EXCEPT ![c] = Remote!Rejected(e)]
    BY <1>3 DEF Fail
  <2>2. result' \in [Calls -> Remote!Promises]
    BY <1>1, <2>1 DEF TypeOK
  <2>3. loop' = [loop EXCEPT ![c].pc = "settled", ![c].timer = FALSE]
    BY <1>3 DEF Fail
  <2>4. loop' \in [Calls -> Loop]
    BY <2>3 DEF TypeOK, Loop
  <2> QED BY <2>2, <2>4 DEF Fail, TypeOK
<1> QED BY <1>2, <1>3

\* What parseApiError and the timers make are errors of the client.
LEMMA ErrorTypes ==
    /\ SecureLensTimeoutError \in Remote!RequestErrors
    /\ SecureLensConnectionError \in Remote!RequestErrors
    /\ \A s \in Statuses : parseApiError(s) \in Remote!RequestErrors
<1>1. SecureLensTimeoutError = Remote!SecureLensTimeoutError
  BY DEF SecureLensTimeoutError, Remote!SecureLensTimeoutError, SecureLensError,
         Remote!SecureLensError
<1>2. SecureLensConnectionError = Remote!SecureLensConnectionError
  BY DEF SecureLensConnectionError, Remote!SecureLensConnectionError, SecureLensError,
         Remote!SecureLensError
<1>3. \A s \in Statuses : parseApiError(s) = Remote!parseApiError(s)
  BY DEF parseApiError, Remote!parseApiError,
         SecureLensError, Remote!SecureLensError,
         SecureLensAuthError, Remote!SecureLensAuthError,
         SecureLensRateLimitError, Remote!SecureLensRateLimitError,
         SecureLensPolicyError, Remote!SecureLensPolicyError,
         SecureLensConnectionError, Remote!SecureLensConnectionError,
         SecureLensValidationError, Remote!SecureLensValidationError,
         SecureLensTimeoutError, Remote!SecureLensTimeoutError,
         SecureLensServerError, Remote!SecureLensServerError
<1>4. \A s \in Statuses : Remote!parseApiError(s) \in Remote!RequestErrors
  BY DEF Remote!RequestErrors
<1> QED BY <1>1, <1>2, <1>3, <1>4 DEF Remote!RequestErrors

\* Sending an attempt keeps the types.
LEMMA SendTypes ==
    ASSUME TypeOK, NEW c \in Calls, NEW a \in Attempts, SendAttempt(c, a)
    PROVE  loop' \in [Calls -> Loop] /\ gateway' \in [Calls -> Gateway]
<1> DEFINE sent == IF c \in aborted THEN gateway[c].out ELSE gateway[c].out \cup {a}
           entry == [gateway[c] EXCEPT !.out = sent, !.answer = NoAnswer]
<1>1. [pc |-> "fetch", attempt |-> a, timer |-> TRUE] \in Loop
  BY DEF Loop
<1>2. loop' \in [Calls -> Loop]
  BY <1>1 DEF TypeOK, SendAttempt
<1>3. gateway[c] \in Gateway
  BY DEF TypeOK
<1>4. sent \subseteq Attempts
  BY <1>3 DEF Gateway
<1>5. entry \in Gateway
  <2> HIDE DEF sent
  <2> QED BY <1>3, <1>4 DEF Gateway
<1>6. gateway' = [gateway EXCEPT ![c] = entry]
  BY DEF SendAttempt, TypeOK
<1>7. gateway' \in [Calls -> Gateway]
  <2> HIDE DEF entry
  <2> QED BY <1>5, <1>6 DEF TypeOK
<1> QED BY <1>2, <1>7

\* The body of an answer is what the promise may resolve with.
LEMMA AnswerTypes ==
    ASSUME NEW a \in Answers
    PROVE  /\ a # NoAnswer
           /\ a.status = 200 => a.body \in Bodies
           /\ a.status # 200 => a.status \in Statuses
BY ClientAssumption DEF Answers, NoAnswer

\* Every step keeps the types: one case per action.
LEMMA TypesStep ==
    ASSUME TypeOK, LoopInv, [Next]_vars
    PROVE  TypeOK'
<1> DEFINE Goal == TypeOK'
<1>1. CASE UNCHANGED vars
  BY <1>1 DEF TypeOK, vars
<1>2. ASSUME NEW c \in Calls, CallStep(c) PROVE Goal
  <2>1. CASE Request(c)
    <3>1. 0 \in Attempts /\ Remote!Pending \in Remote!Promises
      BY ClientAssumption DEF Attempts, Remote!Promises
    <3> QED BY <2>1, <3>1, SendTypes DEF Request, TypeOK
  <2>2. CASE Wake(c)
    <3>1. loop[c].attempt \in Attempts
      BY DEF TypeOK, Loop
    <3> QED BY <2>2, <3>1, SendTypes DEF Wake, TypeOK
  <2>3. CASE Timeout(c)
    <3>1. CASE c \in Signals
      <4>1. loop' = [loop EXCEPT ![c].timer = FALSE] /\ UNCHANGED <<result, aborted, gateway>>
        BY <2>3, <3>1 DEF Timeout
      <4>2. loop' \in [Calls -> Loop]
        BY <4>1 DEF TypeOK, Loop
      <4> QED BY <4>1, <4>2 DEF TypeOK
    <3>2. CASE c \notin Signals
      BY <2>3, <3>2, FailTypes, ErrorTypes DEF Timeout
    <3> QED BY <3>1, <3>2
  <2>4. CASE Aborted(c)
    BY <2>4, FailTypes, ErrorTypes DEF Aborted
  <2>5. CASE Headers(c)
    <3>1. loop' = [loop EXCEPT ![c].pc = "body", ![c].timer = FALSE]
      BY <2>5 DEF Headers
    <3>2. loop' \in [Calls -> Loop]
      BY <3>1 DEF TypeOK, Loop
    <3> QED BY <2>5, <3>2 DEF Headers, TypeOK
  <2>6. CASE ParseResponse(c)
    <3>1. gateway[c].answer \in Answers
      BY <2>6 DEF ParseResponse, TypeOK, Gateway, LoopInv, LoopOf, At
    <3>2. CASE gateway[c].answer.status = 200
      <4>1. Remote!Resolved(gateway[c].answer.body) \in Remote!Promises
        BY <3>1, <3>2, AnswerTypes DEF Remote!Promises
      <4> QED BY <2>6, <3>2, <4>1 DEF ParseResponse, TypeOK, Loop
    <3>3. CASE gateway[c].answer.status # 200
      BY <2>6, <3>1, <3>3, AnswerTypes, FailTypes, ErrorTypes DEF ParseResponse
    <3> QED BY <3>2, <3>3
  <2>7. CASE UserAbort(c)
    BY <2>7 DEF UserAbort, TypeOK
  <2>8. CASE ConnectionFails(c)
    BY <2>8, FailTypes, ErrorTypes DEF ConnectionFails
  <2>9. CASE ParseFails(c)
    BY <2>9, FailTypes, ErrorTypes DEF ParseFails
  <2>10. CASE BodyStalls(c)
    <3>1. loop' = [loop EXCEPT ![c].pc = "stalled"]
      BY <2>10 DEF BodyStalls
    <3>2. loop' \in [Calls -> Loop]
      BY <3>1 DEF TypeOK, Loop
    <3> QED BY <2>10, <3>2 DEF BodyStalls, TypeOK
  <2>11. ASSUME NEW a \in Attempts, Serve(c, a) PROVE Goal
    <3>1. PICK answer \in Answers : gateway' = [gateway EXCEPT
              ![c].out = @ \ {a},
              ![c].served = @ \cup {a},
              ![c].answer = IF At(c, "fetch") /\ loop[c].attempt = a THEN answer ELSE @]
      BY <2>11 DEF Serve
    <3> DEFINE entry == [gateway[c] EXCEPT
            !.out = @ \ {a},
            !.served = @ \cup {a},
            !.answer = IF At(c, "fetch") /\ loop[c].attempt = a THEN answer ELSE @]
    <3>2. gateway[c] \in Gateway
      BY DEF TypeOK
    <3>3. entry \in Gateway
      BY <3>2 DEF Gateway
    <3>4. gateway' = [gateway EXCEPT ![c] = entry]
      BY <3>1 DEF TypeOK
    <3>5. gateway' \in [Calls -> Gateway]
      <4> HIDE DEF entry
      <4> QED BY <3>3, <3>4 DEF TypeOK
    <3> QED BY <2>11, <3>5 DEF Serve, TypeOK
  <2> QED
    BY <1>2, <2>1, <2>2, <2>3, <2>4, <2>5, <2>6, <2>7, <2>8, <2>9, <2>10, <2>11
    DEF CallStep, ClientStep
<1> QED BY <1>1, <1>2 DEF Next, Done
-----------------------------------------------------------------------------
(* The loop. *)

\* A promise that is not resolved is in another state.
LEMMA States ==
    /\ Remote!Unissued.state # "ok"
    /\ Remote!Pending.state # "ok"
    /\ \A e \in Remote!RequestErrors : Remote!Rejected(e).state # "ok"
    /\ \A b \in Bodies : Remote!Resolved(b).state = "ok" /\ Remote!Resolved(b).body = b
BY DEF Remote!Unissued, Remote!Pending, Remote!Rejected, Remote!Resolved, Remote!Promise

\* An attempt that failed is either the last, or the next one has not left yet.
LEMMA FailLoop ==
    ASSUME TypeOK, LoopInv, NEW c \in Calls, NEW e \in Remote!RequestErrors,
           loop[c].pc \in {"fetch", "body", "stalled"}, Fail(c, e)
    PROVE  LoopInv'
<1>1. loop[c] \in Loop /\ loop[c].attempt \in Nat /\ LoopOf(c) /\ gateway' = gateway
  BY ClientAssumption DEF TypeOK, Loop, Attempts, LoopInv, Fail
<1>2. CASE isRetryableError(e) /\ loop[c].attempt < Retries
  <2>1. loop' = [loop EXCEPT ![c] = [pc |-> "sleep", attempt |-> loop[c].attempt + 1,
                                     timer |-> FALSE]] /\ result' = result
    BY <1>2 DEF Fail
  <2>2. loop'[c].pc = "sleep" /\ loop'[c].attempt = loop[c].attempt + 1
    BY <2>1 DEF TypeOK
  <2>3. Others(c)
    BY <1>1, <2>1 DEF Others, TypeOK
  <2>4. result[c] = Remote!Pending
    BY <1>1 DEF LoopOf, Awaiting
  <2>5. Sent(c)' \subseteq 0 .. loop'[c].attempt /\ loop'[c].attempt \notin Sent(c)'
    BY <1>1, <2>2 DEF LoopOf, Sent
  <2>6. LoopOf(c)'
    BY <1>1, <2>1, <2>2, <2>4, <2>5, States DEF LoopOf, At, Awaiting
  <2> QED BY <2>3, <2>6, OthersKeep
<1>3. CASE ~ (isRetryableError(e) /\ loop[c].attempt < Retries)
  <2>1. /\ loop' = [loop EXCEPT ![c].pc = "settled", ![c].timer = FALSE]
        /\ result' = [result EXCEPT ![c] = Remote!Rejected(e)]
    BY <1>3 DEF Fail
  <2>2. loop'[c].pc = "settled" /\ loop'[c].attempt = loop[c].attempt
    BY <1>1, <2>1 DEF TypeOK, Loop
  <2>3. Others(c) /\ result'[c] = Remote!Rejected(e)
    BY <1>1, <2>1 DEF Others, TypeOK
  <2>4. LoopOf(c)'
    BY <1>1, <2>2, <2>3, States DEF LoopOf, At, Awaiting, Sent
  <2> QED BY <2>3, <2>4, OthersKeep
<1> QED BY <1>2, <1>3

\* An attempt leaves at most once: none has left of a new call, and the one
\* that a backoff precedes has not.
LEMMA SendLoop ==
    ASSUME TypeOK, LoopInv, NEW c \in Calls, NEW a \in Attempts, SendAttempt(c, a),
           \/ At(c, "new") /\ a = 0 /\ result' = [result EXCEPT ![c] = Remote!Pending]
           \/ At(c, "sleep") /\ a = loop[c].attempt /\ result' = result
    PROVE  LoopInv'
<1>1. LoopOf(c) /\ a \in Nat /\ gateway[c] \in Gateway
  BY ClientAssumption DEF LoopInv, Attempts, TypeOK
<1>2. loop'[c] = [pc |-> "fetch", attempt |-> a, timer |-> TRUE]
  BY DEF SendAttempt, TypeOK
<1>3. /\ gateway'[c].out = IF c \in aborted THEN gateway[c].out ELSE gateway[c].out \cup {a}
      /\ gateway'[c].served = gateway[c].served
      /\ gateway'[c].answer = NoAnswer
  BY <1>1 DEF SendAttempt, TypeOK, Gateway
<1>4. Others(c)
  BY DEF SendAttempt, Others, TypeOK
<1>5. result'[c] = Remote!Pending
  BY <1>1 DEF LoopOf, At, Awaiting, TypeOK
<1>6. a \notin Sent(c) /\ Sent(c) \subseteq 0 .. a
  BY <1>1 DEF LoopOf, At
<1>7. Sent(c)' \subseteq 0 .. a /\ (gateway'[c].out \cap gateway'[c].served = {})
  BY <1>1, <1>3, <1>6 DEF Sent, LoopOf
<1>8. LoopOf(c)'
  BY <1>2, <1>3, <1>5, <1>7, States DEF LoopOf, At, Awaiting
<1> QED BY <1>4, <1>8, OthersKeep

\* Every step keeps what is known of each call's loop.
LEMMA LoopStep ==
    ASSUME TypeOK, LoopInv, [Next]_vars
    PROVE  LoopInv'
<1> DEFINE Goal == LoopInv'
<1>1. CASE UNCHANGED vars
  BY <1>1 DEF LoopInv, LoopOf, Sent, At, vars
<1>2. ASSUME NEW c \in Calls, CallStep(c) PROVE Goal
  <2> USE DEF Goal
  <2>a. /\ loop[c] \in Loop /\ loop[c].attempt \in Attempts
        /\ LoopOf(c) /\ gateway[c] \in Gateway
    BY DEF TypeOK, Loop, LoopInv
  <2>1. CASE Request(c)
    <3>1. 0 \in Attempts
      BY ClientAssumption DEF Attempts
    <3> QED BY <2>1, <3>1, SendLoop DEF Request
  <2>2. CASE Wake(c)
    BY <2>2, <2>a, SendLoop DEF Wake
  <2>3. CASE Timeout(c)
    <3>1. CASE c \in Signals
      <4>1. loop' = [loop EXCEPT ![c].timer = FALSE] /\ UNCHANGED <<result, gateway>>
        BY <2>3, <3>1 DEF Timeout
      <4>2. \A d \in Calls : /\ loop'[d].pc = loop[d].pc
                             /\ loop'[d].attempt = loop[d].attempt
        BY <4>1 DEF TypeOK, Loop
      <4> QED BY <4>1, <4>2 DEF LoopInv, LoopOf, Sent, At
    <3>2. CASE c \notin Signals
      BY <2>3, <3>2, FailLoop, ErrorTypes DEF Timeout, At
    <3> QED BY <3>1, <3>2
  <2>4. CASE Aborted(c)
    BY <2>4, FailLoop, ErrorTypes DEF Aborted
  <2>5. CASE Headers(c)
    <3>1. /\ loop' = [loop EXCEPT ![c].pc = "body", ![c].timer = FALSE]
          /\ UNCHANGED <<result, gateway>>
          /\ At(c, "fetch") /\ gateway[c].answer # NoAnswer
      BY <2>5 DEF Headers
    <3>2. loop'[c].pc = "body" /\ loop'[c].attempt = loop[c].attempt /\ Others(c)
      BY <3>1, <2>a DEF Others, TypeOK, Loop
    <3>3. LoopOf(c)'
      BY <2>a, <3>1, <3>2, States DEF LoopOf, At, Awaiting, Sent
    <3> QED BY <3>2, <3>3, OthersKeep
  <2>6. CASE ParseResponse(c)
    <3>1. gateway[c].answer \in Answers /\ At(c, "body")
      BY <2>6, <2>a DEF ParseResponse, Gateway, LoopOf, At
    <3>2. CASE gateway[c].answer.status = 200
      <4>1. /\ result' = [result EXCEPT ![c] = Remote!Resolved(gateway[c].answer.body)]
            /\ loop' = [loop EXCEPT ![c].pc = "settled"]
            /\ gateway' = gateway
        BY <2>6, <3>2 DEF ParseResponse
      <4>2. /\ loop'[c].pc = "settled" /\ loop'[c].attempt = loop[c].attempt
            /\ result'[c] = Remote!Resolved(gateway[c].answer.body) /\ Others(c)
        BY <4>1, <2>a DEF Others, TypeOK, Loop
      <4>3. gateway[c].answer.body \in Bodies
        BY <3>1, <3>2, AnswerTypes
      <4>4. LoopOf(c)'
        BY <2>a, <3>1, <4>1, <4>2, <4>3, States DEF LoopOf, At, Awaiting, Sent
      <4> QED BY <4>2, <4>4, OthersKeep
    <3>3. CASE gateway[c].answer.status # 200
      <4>1. parseApiError(gateway[c].answer.status) \in Remote!RequestErrors
        BY <3>1, <3>3, AnswerTypes, ErrorTypes
      <4>2. Fail(c, parseApiError(gateway[c].answer.status))
        BY <2>6, <3>3 DEF ParseResponse
      <4> QED BY <3>1, <4>1, <4>2, FailLoop DEF At
    <3> QED BY <3>2, <3>3
  <2>7. CASE UserAbort(c)
    BY <2>7 DEF UserAbort, LoopInv, LoopOf, Sent, At
  <2>8. CASE ConnectionFails(c)
    BY <2>8, FailLoop, ErrorTypes DEF ConnectionFails
  <2>9. CASE ParseFails(c)
    BY <2>9, FailLoop, ErrorTypes DEF ParseFails, At
  <2>10. CASE BodyStalls(c)
    <3>1. /\ loop' = [loop EXCEPT ![c].pc = "stalled"]
          /\ UNCHANGED <<result, gateway>> /\ At(c, "body")
      BY <2>10 DEF BodyStalls
    <3>2. loop'[c].pc = "stalled" /\ loop'[c].attempt = loop[c].attempt /\ Others(c)
      BY <3>1, <2>a DEF Others, TypeOK, Loop
    <3>3. LoopOf(c)'
      BY <2>a, <3>1, <3>2, States DEF LoopOf, At, Awaiting, Sent
    <3> QED BY <3>2, <3>3, OthersKeep
  <2>11. ASSUME NEW a \in Attempts, Serve(c, a) PROVE Goal
    <3>1. PICK answer \in Answers : gateway' = [gateway EXCEPT
              ![c].out = @ \ {a},
              ![c].served = @ \cup {a},
              ![c].answer = IF At(c, "fetch") /\ loop[c].attempt = a THEN answer ELSE @]
      BY <2>11 DEF Serve
    <3>2. /\ gateway'[c].out = gateway[c].out \ {a}
          /\ gateway'[c].served = gateway[c].served \cup {a}
          /\ gateway'[c].answer = IF At(c, "fetch") /\ loop[c].attempt = a
                                  THEN answer ELSE gateway[c].answer
          /\ \A d \in Calls \ {c} : gateway'[d] = gateway[d]
      BY <3>1, <2>a DEF TypeOK, Gateway
    <3>3. UNCHANGED <<result, loop>> /\ a \in gateway[c].out
      BY <2>11 DEF Serve
    <3>4. Sent(c)' = Sent(c)
      BY <3>2, <3>3 DEF Sent
    <3>5. (gateway'[c].out \cap gateway'[c].served = {}) /\ ~ At(c, "new")
      BY <3>2, <3>3, <2>a DEF LoopOf, Sent
    <3>6. LoopOf(c)'
      BY <2>a, <3>2, <3>3, <3>4, <3>5 DEF LoopOf, At, Awaiting
    <3> QED BY <3>2, <3>3, <3>6, OthersKeep DEF Others
  <2> QED
    BY <1>2, <2>1, <2>2, <2>3, <2>4, <2>5, <2>6, <2>7, <2>8, <2>9, <2>10, <2>11
    DEF CallStep, ClientStep
<1> QED BY <1>1, <1>2 DEF Next, Done

-----------------------------------------------------------------------------
(* Theorems. *)

\* The initial values have their types, and every call is yet to be made.
LEMMA Start ==
    ASSUME Init
    PROVE  TypeOK /\ LoopInv
<1>1. 0 \in Attempts /\ Remote!Unissued \in Remote!Promises
  BY ClientAssumption DEF Attempts, Remote!Promises
<1>2. TypeOK
  BY <1>1 DEF Init, TypeOK, Loop, Gateway, Remote!Idle
<1>3. LoopInv
  BY States DEF Init, LoopInv, LoopOf, At, Awaiting, Sent, Remote!Idle
<1> QED BY <1>2, <1>3

\* Types: a loop never makes more attempts than config.retries allows, and a
\* promise is rejected with a documented error only.
THEOREM TypesHold == Spec => []TypeOK
<1>1. TypeOK /\ LoopInv /\ [Next]_vars => (TypeOK /\ LoopInv)'
  BY TypesStep, LoopStep
<1> QED BY <1>1, Start, PTL DEF Spec

\* The invariant of the retry loop.
LEMMA LoopHolds == Spec => []LoopInv
<1>1. TypeOK /\ LoopInv /\ [Next]_vars => (TypeOK /\ LoopInv)'
  BY TypesStep, LoopStep
<1> QED BY <1>1, Start, PTL DEF Spec

\* The gateway executes no attempt twice, and a promise is resolved with the
\* answer to the attempt the loop is at, not to an abandoned one.
THEOREM ExecutionsHold == Spec => []ExecutionsAccounted
<1>1. LoopInv => ExecutionsAccounted
  BY DEF LoopInv, LoopOf, Sent, ExecutionsAccounted
<1> QED BY <1>1, LoopHolds, PTL

\* Nothing leaves for a call that has settled or was aborted.
THEOREM QuietHolds == Spec => QuietAfter
<1>1. ASSUME TypeOK, [Next]_vars PROVE Quiet
  <2>1. CASE UNCHANGED vars
    BY <2>1 DEF vars, Quiet
  <2>2. ASSUME NEW c \in Calls, CallStep(c) PROVE Quiet
    <3>0. ASSUME gateway' = gateway PROVE Quiet
      BY <3>0 DEF Quiet
    <3>1. ASSUME NEW a, SendAttempt(c, a), ~ At(c, "settled") PROVE Quiet
      <4>1. \A d \in Calls \ {c} : gateway'[d] = gateway[d]
        BY <1>1, <3>1 DEF SendAttempt, TypeOK
      <4>2. c \in aborted => gateway'[c].out = gateway[c].out
        BY <1>1, <3>1 DEF SendAttempt, TypeOK, Gateway
      <4> QED BY <3>1, <4>1, <4>2 DEF Quiet, At
    <3>2. ASSUME NEW e, Fail(c, e) PROVE gateway' = gateway
      BY <3>2 DEF Fail
    <3>3. CASE Request(c)
      BY <3>1, <3>3 DEF Request, At
    <3>4. CASE Wake(c)
      BY <3>1, <3>4 DEF Wake, At
    <3>5. CASE Timeout(c)
      BY <3>0, <3>2, <3>5 DEF Timeout
    <3>6. CASE Aborted(c) \/ ConnectionFails(c) \/ ParseFails(c)
      BY <3>0, <3>2, <3>6 DEF Aborted, ConnectionFails, ParseFails
    <3>7. CASE Headers(c) \/ UserAbort(c) \/ BodyStalls(c)
      BY <3>0, <3>7 DEF Headers, UserAbort, BodyStalls
    <3>8. CASE ParseResponse(c)
      BY <3>0, <3>2, <3>8 DEF ParseResponse
    <3>9. ASSUME NEW a \in Attempts, Serve(c, a) PROVE Quiet
      <4>1. PICK answer \in Answers : gateway' = [gateway EXCEPT
                ![c].out = @ \ {a},
                ![c].served = @ \cup {a},
                ![c].answer = IF At(c, "fetch") /\ loop[c].attempt = a THEN answer ELSE @]
        BY <3>9 DEF Serve
      <4>2. /\ \A d \in Calls \ {c} : gateway'[d] = gateway[d]
            /\ gateway'[c].out \subseteq gateway[c].out
        BY <1>1, <4>1 DEF TypeOK, Gateway
      <4> QED BY <4>2 DEF Quiet
    <3> QED
      BY <2>2, <3>3, <3>4, <3>5, <3>6, <3>7, <3>8, <3>9 DEF CallStep, ClientStep
  <2>3. (\E c \in Calls : CallStep(c)) \/ UNCHANGED vars
    BY <1>1 DEF Next, Done
  <2> QED BY <2>1, <2>2, <2>3
<1>2. TypeOK /\ [Next]_vars => [Quiet]_vars
  BY <1>1
<1> QED BY <1>2, TypesHold, PTL DEF Spec, QuietAfter

\* Every step of the loop is a step of RemoteCall or none of its business.
LEMMA PromiseStep ==
    ASSUME TypeOK, LoopInv, [Next]_vars
    PROVE  [Remote!CallNext]_result
<1>1. CASE UNCHANGED vars
  BY <1>1 DEF vars
<1>2. ASSUME NEW c \in Calls, CallStep(c) PROVE [Remote!CallNext]_result
  <2>a. LoopOf(c)
    BY DEF LoopInv
  <2>b. ASSUME NEW e \in Remote!RequestErrors, Fail(c, e),
               loop[c].pc \in {"fetch", "body", "stalled"}
        PROVE  [Remote!CallNext]_result
    <3>1. result[c] = Remote!Pending
      BY <2>a, <2>b DEF LoopOf, Awaiting
    <3>2. result' = result \/ result' = [result EXCEPT ![c] = Remote!Rejected(e)]
      BY <2>b DEF Fail
    <3> QED BY <3>1, <3>2 DEF Remote!CallNext, Remote!Settle, Remote!Reject
  <2>1. CASE Request(c)
    BY <2>1, <2>a DEF Request, LoopOf, Remote!CallNext, Remote!Issue
  <2>2. CASE Wake(c)
    BY <2>2 DEF Wake
  <2>3. CASE Timeout(c)
    BY <2>3, <2>b, ErrorTypes DEF Timeout, At
  <2>4. CASE Aborted(c)
    BY <2>4, <2>b, ErrorTypes DEF Aborted
  <2>5. CASE ConnectionFails(c)
    BY <2>5, <2>b, ErrorTypes DEF ConnectionFails
  <2>6. CASE ParseFails(c)
    BY <2>6, <2>b, ErrorTypes DEF ParseFails, At
  <2>7. CASE Headers(c) \/ UserAbort(c) \/ BodyStalls(c)
    BY <2>7 DEF Headers, UserAbort, BodyStalls
  <2>8. CASE ParseResponse(c)
    <3>1. gateway[c].answer \in Answers /\ result[c] = Remote!Pending /\ At(c, "body")
      BY <2>8, <2>a DEF ParseResponse, TypeOK, Gateway, LoopOf, At, Awaiting
    <3>2. CASE gateway[c].answer.status = 200
      <4>1. gateway[c].answer.body \in Bodies
        BY <3>1, <3>2, AnswerTypes
      <4>2. result' = [result EXCEPT ![c] = Remote!Resolved(gateway[c].answer.body)]
        BY <2>8, <3>2 DEF ParseResponse
      <4> QED BY <3>1, <4>1, <4>2 DEF Remote!CallNext, Remote!Settle, Remote!Resolve
    <3>3. CASE gateway[c].answer.status # 200
      <4>1. parseApiError(gateway[c].answer.status) \in Remote!RequestErrors
        BY <3>1, <3>3, AnswerTypes, ErrorTypes
      <4>2. Fail(c, parseApiError(gateway[c].answer.status))
        BY <2>8, <3>3 DEF ParseResponse
      <4> QED BY <3>1, <4>1, <4>2, <2>b DEF At
    <3> QED BY <3>2, <3>3
  <2>9. ASSUME NEW a \in Attempts, Serve(c, a) PROVE [Remote!CallNext]_result
    BY <2>9 DEF Serve
  <2> QED
    BY <1>2, <2>1, <2>2, <2>3, <2>4, <2>5, <2>6, <2>7, <2>8, <2>9 DEF CallStep, ClientStep
<1> QED BY <1>1, <1>2 DEF Next, Done

\* The retry loop implements RemoteCall: whatever fails, each promise is
\* issued once and settles at most once, with a body or a documented error.
THEOREM PromiseHolds == Spec => PromiseKept
<1>1. Init => Remote!Idle
  BY DEF Init
<1>2. TypeOK /\ LoopInv /\ [Next]_vars => [Remote!CallNext]_result
  BY PromiseStep
<1> QED BY <1>1, <1>2, TypesHold, LoopHolds, PTL DEF Spec, PromiseKept, Remote!CallSpec
=============================================================================
