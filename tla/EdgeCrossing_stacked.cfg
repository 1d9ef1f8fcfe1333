SPECIFICATION Spec
CONSTANTS
  Displays <- MCDisplays
  WinW = 4
  WinH = 2
  Inset = 2
  SafeX = 3
  BackWarp = 2
  Cooldown = 2
  Steps <- MCSteps
  MaxTap = 2
  MaxOut = 2
INVARIANTS TypeOK CursorFrozenWhileRemote
PROPERTIES CooldownHolds EntryDoesNotBounce
