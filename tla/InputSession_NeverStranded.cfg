SPECIFICATION Spec
CONSTANTS
  k1 = k1
  k2 = k2
  Keys <- MCOneKey
  ModKeys <- MCNoMods
  Remap <- MCOneIdentity
  MaxTap = 1
  BrainCap = 1
  OutCap = 1
  BackCap = 1
INVARIANT
  NeverStranded
