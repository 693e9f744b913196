SPECIFICATION Spec
CONSTANTS
  MAXINDEXRK = 1
  MAXARG_C = 1
  LFIELDS_PER_FLUSH = 2
  MAXSTACK = 20
  LUAI_MAXVARS = 12
  LUAI_MAXUPVALUES = 4
  LUAI_MAXCCALLS = 10
  StackSize = 40
  Instructions = 100
  MAXTAGLOOP = 4
  Menus <- ConstantOperand
  Args <- ArgsV
  MaxBlocks = 400
  Cuts = {1, 2, 4, 9}
PROPERTIES
  Computes
