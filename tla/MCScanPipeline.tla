--------------------------- MODULE MCScanPipeline ---------------------------
(* Small instances of ScanPipeline for TLC. *)
EXTENDS ScanPipeline, TLC

\* Nothing is delivered twice.
OnceFaults == FaultKinds \ {"worker", "ambiguous"}
AllFaults  == FaultKinds

AnyKind == {"update", "delete", "reclassify"}
=============================================================================
