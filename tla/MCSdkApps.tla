----------------------------- MODULE MCSdkApps -----------------------------
EXTENDS SdkApps

\* The policy error; a connection error and a timeout may come without a status.
MCStatuses == {403}
MCCalls == {Ask, Classify} \cup Children
=============================================================================
