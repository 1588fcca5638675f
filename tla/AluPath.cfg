SPECIFICATION Spec
CONSTANTS
  W = 4
  Ops <- AluOp
  Pcs <- MCPcs
  Leftovers <- MCLeftovers
  MaxResets = 1
INVARIANTS ResultCorrect ImplementsPrototype FlagsCorrect AnswersInTime
