--------------------------- MODULE MCJobScheduler ---------------------------
(* Small instances of JobScheduler for TLC. *)
EXTENDS JobScheduler, TLC

CONSTANTS j1, j2, w1, w2

NoRetries == [j \in Jobs |-> 0]
OneRetry  == [j \in Jobs |-> 1]
TwoTries  == [j \in Jobs |-> 2]
MixedRetries == (j1 :> 2) @@ (j2 :> 0)

QueueFaults  == {"insert", "produce"}
SettleFaults == {"produce", "timeout"}
SteadyFaults == {"insert", "update", "produce", "leave", "age", "timeout"}
LockFaults   == {"produce", "ambiguous", "crash", "age"}

WorkerSymmetry == Permutations(Workers)
=============================================================================
