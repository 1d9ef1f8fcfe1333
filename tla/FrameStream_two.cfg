SPECIFICATION Spec
CONSTANTS
  Radix = 16
  HmacLen = 3
  ChunkSize = 16
  MaxFrames = 2
  Mice <- MCMice
  Presses <- MCPresses
  Samples <- MCSamples
  Remaps <- MCRemaps
PROPERTY ImplementsChannel
INVARIANTS TypeOK InputIntact ChordsMatchKeys NothingKeptBack
CHECK_DEADLOCK FALSE
