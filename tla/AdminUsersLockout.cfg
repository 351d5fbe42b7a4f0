SPECIFICATION Spec
CONSTANTS
    Users <- TwoUsers
    Requests = {r1, r2, r3}
    Operations <- RoleOperations
    Nobody = Nobody
    r1 = r1
    r2 = r2
    r3 = r3
SYMMETRY RequestSymmetry
INVARIANT NoLockout
