CONSTANTS
  Nil = Nil
  Wires <- MC_Wires
  MaxChunk = 3

SPECIFICATION FairSpec

INVARIANT TypeOK

PROPERTIES
  Refinement
  EveryMessageHandled
