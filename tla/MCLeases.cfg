SPECIFICATION Spec
CONSTANTS
  Accounts = {ann, bob}
  Cases = {case}
  Persons = {screen}
  Unreadable = FALSE
  None = None
  Browsers = {b1, b2, b3}
  MaxGen = 1
SYMMETRY Symmetry
INVARIANTS
  ReusedIsLastSignIn
  NoneKeptBesideUse
  OneOwner
  NothingKeptAfterExit
PROPERTIES
  InUseUndisturbed
  ImplementsUse
CHECK_DEADLOCK FALSE
