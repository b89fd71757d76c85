CONSTANT Names <- MC_Names
CONSTANT Nil = Nil
SPECIFICATION HeaderizeSpec
INVARIANT HeaderizeMatchesSpec
CHECK_DEADLOCK FALSE
