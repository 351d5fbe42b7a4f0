SPECIFICATION FairSpec
CONSTANTS
    Users <- TwoUsers
    Requests = {r1, r2}
    Operations <- EveryOperation
    Nobody = Nobody
    r1 = r1
    r2 = r2
INVARIANTS LockoutNeedsPromotion GuardsNeverDeadlock
PROPERTIES GuardedChangeKeepsAnAdmin LedgerSpec EveryRequestEnds
