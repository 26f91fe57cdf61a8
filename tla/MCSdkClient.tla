---------------------------- MODULE MCSdkClient ----------------------------
EXTENDS SdkClient

\* One status of each outcome of parseApiError and isRetryableError.
MCStatuses == {400, 429, 503, 500}
=============================================================================
