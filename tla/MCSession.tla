----------------------------- MODULE MCSession -----------------------------
EXTENDS Session, TLC

CONSTANTS t1, t2, alice, bob

MCTabs == {t1, t2}
MCUsers == {alice, bob}
Symmetry == Permutations(MCTabs) \union Permutations(MCUsers)
============================================================================
