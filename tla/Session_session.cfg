SPECIFICATION Spec
CONSTANTS
    t1 = t1
    t2 = t2
    alice = alice
    bob = bob
    Nobody = Nobody
    Tabs <- MCTabs
    Users <- MCUsers
    MaxTokens = 1
SYMMETRY Symmetry
INVARIANTS TypeOK SetterAgrees NoForeignData
PROPERTY LogoutSignsOut
