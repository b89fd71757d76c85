CONSTANTS
  Nil = Nil
  Wires <- MC_PortOverflowWires
  MaxChunk = 3

SPECIFICATION Spec

INVARIANT PortIsDecimal
