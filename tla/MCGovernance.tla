---------------------------- MODULE MCGovernance -----------------------------
(* A small instance of Governance for TLC. *)
EXTENDS Governance, TLC

Rule(c, l, p) == [classification |-> c, label |-> l, priority |-> p]

\* The gateway requires RESTRICTED for PHI and CONFIDENTIAL for EMAIL. The
\* worker's table does not know PHI.
Health == {{}, {"EMAIL"}, {"PHI", "EMAIL"}}
LowRules == {Rule("PHI", "PUBLIC", 1), Rule("PHI", "HIGHLY_CONFIDENTIAL", 2),
             Rule("PHI", "RESTRICTED", -5)}

Callbacks == {"callback"}

AllParts == {"labels", "residency", "dpia"}

\* Two rules that no region satisfies together.
EuOrUs == [r \in {"eu_only", "us_only"} |-> IF r = "eu_only" THEN {"eu"} ELSE {"us"}]

Alike == Permutations(ResidencyRequests) \cup Permutations(DpiaRequests)
         \cup Permutations(EarlierSteps)
=============================================================================
