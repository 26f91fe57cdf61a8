CONSTANTS
    g1 = g1
    g2 = g2
    w1 = w1
    w2 = w2
    u1 = u1
    q1 = q1
    q2 = q2
    q3 = q3
    p1 = p1
    p2 = p2
    p3 = p3
    e1 = e1
    e2 = e2
    Jobs = {g1, g2}
    Workers = {w1, w2}
    Users = {u1}
    Contents <- Health
    RuleChoices <- LowRules
    MaxRules = 2
    Faults <- Callbacks
    Parts <- AllParts
    Sources = {"crm"}
    ResidencyRules = {"eu_only", "us_only"}
    Regions = {"eu", "us"}
    Allowed <- EuOrUs
    ResidencyRequests = {q1, q2, q3}
    EarlierSteps = {e1, e2}
    DpiaRequests = {p1, p2, p3}
    MaxAbandons = 2
SPECIFICATION GovernanceSpec
INVARIANTS
    TypeOK
    Labelled
    LabelSufficient
    NoViolationMissed
    CompletedWasConsulted
SYMMETRY Alike
CHECK_DEADLOCK FALSE
