----------------------------- MODULE Governance ------------------------------
(***************************************************************************)
(* The tables of the governance handlers side by side: the label of a       *)
(* dataset (Labels), residency (Residency) and an assessment (Dpia). The    *)
(* handlers of one part read and write no row of another, so that a         *)
(* behaviour in which several parts move shows nothing that each of them    *)
(* alone does not: in a behaviour, one part moves.                          *)
(***************************************************************************)
EXTENDS Labels

CONSTANTS
    Parts,          \* the parts that may move
    Sources, ResidencyRules, Regions, Allowed, ResidencyRequests,
    EarlierSteps, DpiaRequests,
    MaxAbandons     \* bound: requests whose client goes away

VARIABLES
    part,           \* the part that moves
    region, residencyRules, violations, residencyRequests, unchecked,
    steps, dpiaStatus, consulted, dpiaRequests,
    abandons        \* clients gone so far

residencyVars == <<region, residencyRules, violations, residencyRequests, unchecked>>
dpiaVars == <<steps, dpiaStatus, consulted, dpiaRequests>>
governanceVars == <<vars, part, residencyVars, dpiaVars, abandons>>

Residency == INSTANCE Residency WITH Rules <- ResidencyRules, Requests <- ResidencyRequests,
                                     rules <- residencyRules, requests <- residencyRequests
Dpia == INSTANCE Dpia WITH Earlier <- EarlierSteps, Requests <- DpiaRequests,
                           status <- dpiaStatus, requests <- dpiaRequests

-----------------------------------------------------------------------------
\* Only the part that moves starts from any of its initial states.
GovernanceInit ==
    /\ part \in Parts
    /\ Init
    /\ Residency!Init
    /\ part # "residency" => residencyRules = {} /\ Residency!Stored = {}
    /\ Dpia!Init

MoveLabels == part = "labels" /\ Next /\ UNCHANGED <<residencyVars, dpiaVars, abandons>>
MoveResidency == part = "residency" /\ Residency!Next /\ UNCHANGED <<vars, dpiaVars>>
MoveDpia == part = "dpia" /\ Dpia!Next /\ UNCHANGED <<vars, residencyVars>>

GovernanceNext == (MoveLabels \/ MoveResidency \/ MoveDpia) /\ UNCHANGED part

GovernanceSpec == GovernanceInit /\ [][GovernanceNext]_governanceVars

-----------------------------------------------------------------------------
\* Residency: no violation of a source whose region was evaluated undisturbed
\* is missing once the handlers that ran side by side are done.
NoViolationMissed == Residency!NoViolationMissed

\* Assessments: nothing that lost updates and requests cut short do completes
\* the officer's step or the assessment without the consultation on record.
CompletedWasConsulted == Dpia!CompletedWasConsulted

=============================================================================
