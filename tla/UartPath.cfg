SPECIFICATION Spec
CONSTANTS
  DataBits = 2
  MaxDivider = 3
  MaxBytes = 3
  Builds <- BOOLEAN
  Bytes <- MCBytes
  DividerWord <- MCDivider
INVARIANTS ReturnsWhenSent
PROPERTY PrintsEveryByte
