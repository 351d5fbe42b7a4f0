SPECIFICATION Spec
CONSTANTS
  NULL = NULL
  u1 = u1
  u2 = u2
  t1 = t1
  t2 = t2
  b = b
  Users = {u1, u2}
  Tabs = {t1, t2}
  Browsers = {b}
  Home <- MCHome
  Listings = {l}
  Unlisted = {}
  Leftovers <- MCFirst
  MaxOps <- MCMaxOps
SYMMETRY MCSymmetry
INVARIANTS
  AccountsKeepApart
  ImportedOnce
  ShownIsHeld
