SPECIFICATION FairSpec
CONSTANTS
  n1 = n1
  n2 = n2
  None = None
  Conns <- MCConns
  Period = 1
  Deadline = 4
  MaxDelay = 1
  BackoffInitial = 1
  BackoffMax = 2
  MaxFaults = 3
INVARIANTS
  TypeOK
  NoFalseAlarm
  DeadWithinDeadline
PROPERTY
  ComesBack
