SPECIFICATION Spec
CONSTANTS
  ByteBits = 2
  MaxWidth = 4
  MCPrograms = "Plain"
  MaxBits = 6
  Programs <- ProgramsOf
  Inputs <- AllInputs
  Limits <- AllLimits
INVARIANTS
  DecodesAsWritten
  AcceptedIsExecutable
CHECK_DEADLOCK FALSE
