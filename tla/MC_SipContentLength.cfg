CONSTANTS
  Nil = Nil
  Wires <- MC_LeadingZeroWires
  MaxChunk = 3

SPECIFICATION Spec

INVARIANT ContentLengthIsDecimal
