CONSTANTS
  Nil = Nil
  Wires <- MC_UnknownMethodWires
  MaxChunk = 3

SPECIFICATION Spec

INVARIANT UnknownMethodFlagVisible
