SPECIFICATION Spec
CONSTANTS
  NAttempts = 2
  Procs = {p1, p2}
  NoProc = NoProc
  Runs = {r1, r2}
  NIdentities = 2
  NSessions = 2
CONSTRAINT OneWriter
INVARIANTS TypesOK StatusFaithful HelperAccounted PinNeverTorn IdentityLasts MacLeftClean
PROPERTIES MenuFollowsStatus StopTakesEffect InputComesBack
CHECK_DEADLOCK FALSE
