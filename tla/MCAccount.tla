------------------------------ MODULE MCAccount ------------------------------
EXTENDS Account, TLC
CONSTANTS u1, u2, t1, t2, b

\* Two tabs of one browser, at a first visit.
MCHome == [d \in Tabs |-> b]
MCMaxOps == [d \in Tabs |-> 2]
MCFirst == {Empty}

\* The accounts are alike, and so are the tabs.
MCSymmetry == Permutations({u1, u2}) \cup Permutations({t1, t2})
=============================================================================
