---------------------------- MODULE MCTaskWatch ----------------------------
EXTENDS TaskWatch
============================================================================
