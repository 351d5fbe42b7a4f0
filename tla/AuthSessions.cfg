SPECIFICATION Spec
CONSTANTS
  Requests = {r1, r2, r3, r4}
  Kinds <- EveryKind
  FirstPassword = FirstPassword
  AccessLife = 2
  ReauthWindow = 1
  MaxTime = 3
  CommitMayFail = FALSE

SYMMETRY RequestSymmetry
INVARIANTS LiveSessionsKnowThePassword FreshMeansPresent
PROPERTIES BumpRevokesAll DeviceStaysSignedIn
