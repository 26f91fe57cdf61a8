---------------------------- MODULE JobLifecycle ----------------------------
(***************************************************************************)
(* What the scheduler promises of every row of job_executions, whoever      *)
(* created it: it is pending, it runs at most once, and it ends completed   *)
(* or failed for good. Only deleting its job takes it away.                 *)
(***************************************************************************)
EXTENDS Naturals, Sequences

CONSTANT Jobs

VARIABLE life   \* the executions: their job and status, in order of creation

Entry == [job : Jobs, status : {"pending", "running", "completed", "failed", "deleted"}]

Init == life = <<>>

Submit == \E j \in Jobs : life' = Append(life, [job |-> j, status |-> "pending"])

Step(from, to) == \E e \in DOMAIN life : /\ life[e].status = from
                                         /\ life' = [life EXCEPT ![e].status = to]

Begin == Step("pending", "running")
Drop  == Step("pending", "failed")
End   == Step("running", "completed") \/ Step("running", "failed")

Purge == \E j \in Jobs :
    life' = [e \in DOMAIN life |-> IF life[e].job = j
                                   THEN [life[e] EXCEPT !.status = "deleted"] ELSE life[e]]

Next == Submit \/ Begin \/ Drop \/ End \/ Purge

Spec == Init /\ [][Next]_life
=============================================================================
