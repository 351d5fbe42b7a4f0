SPECIFICATION Spec
CONSTANTS
  Requests = {r1, r2, r3}
  Kinds <- Takeover
  FirstPassword = FirstPassword
  AccessLife = 1
  ReauthWindow = 1
  MaxTime = 1
  CommitMayFail = FALSE

SYMMETRY RequestSymmetry
PROPERTIES ChangeVerifiesCurrent
