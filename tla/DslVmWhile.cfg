SPECIFICATION Spec
CONSTANTS
  ByteBits = 2
  MaxWidth = 4
  MCPrograms = "Revisited"
  MaxBits = 6
  Programs <- ProgramsOf
  Inputs <- AllInputs
  Limits <- AllLimits
INVARIANT IterationsWhole
CHECK_DEADLOCK FALSE
