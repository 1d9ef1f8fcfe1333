SPECIFICATION Spec
CONSTANTS
  k1 = k1
  k2 = k2
  Keys <- MCKeys
  ModKeys <- MCKeys
  Remap <- MCMerged
  MaxTap = 1
  BrainCap = 1
  OutCap = 1
  BackCap = 1
VIEW WithoutMacDown
INVARIANTS
  TypeOK
  KeysAgree
  WindowsLeftClean
  NoGhostHold
  EntryDrainIsEmpty
  ControlToken
