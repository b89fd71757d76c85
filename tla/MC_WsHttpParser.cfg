CONSTANTS
  Nil = Nil
  Wires <- MC_Wires
  MaxChunk = 3

SPECIFICATION FairSpec

INVARIANTS
  TypeOK
  ErrorDescriptionFits

PROPERTIES
  WsRefinement
  EveryRequestHandled
