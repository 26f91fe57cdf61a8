------------------------------ MODULE SdkErrors ------------------------------
(***************************************************************************)
(* The errors of the Node SDK (sdk/node/src/errors.ts): a class is its code *)
(* and its statusCode; messages and the fields a handler only prints are    *)
(* left out.                                                                *)
(***************************************************************************)
EXTENDS Integers

\* new SecureLensError(message, code, {statusCode})
SecureLensError(code, statusCode) == [code |-> code, status |-> statusCode]

SecureLensAuthError       == SecureLensError("AUTH_ERROR", 401)
SecureLensRateLimitError  == SecureLensError("RATE_LIMIT_ERROR", 429)
SecureLensPolicyError     == SecureLensError("POLICY_ERROR", 403)
SecureLensConnectionError == SecureLensError("CONNECTION_ERROR", 503)
SecureLensValidationError == SecureLensError("VALIDATION_ERROR", 400)
SecureLensTimeoutError    == SecureLensError("TIMEOUT_ERROR", 408)
SecureLensServerError(statusCode) == SecureLensError("SERVER_ERROR", statusCode)

\* The class an HTTP status is mapped to.
parseApiError(statusCode) ==
    CASE statusCode = 400 -> SecureLensValidationError
      [] statusCode = 401 -> SecureLensAuthError
      [] statusCode = 403 -> SecureLensPolicyError
      [] statusCode = 408 -> SecureLensTimeoutError
      [] statusCode = 429 -> SecureLensRateLimitError
      [] statusCode = 503 -> SecureLensConnectionError
      [] statusCode >= 500 /\ statusCode # 503 -> SecureLensServerError(statusCode)
      [] OTHER -> SecureLensError("UNKNOWN_ERROR", statusCode)

\* A connection error's retryable flag is TRUE wherever the SDK makes one.
isRetryableError(e) ==
    \/ e.code \in {"RATE_LIMIT_ERROR", "CONNECTION_ERROR", "TIMEOUT_ERROR"}
    \/ e.code = "SERVER_ERROR" /\ e.status \in 500 .. 599

=============================================================================
