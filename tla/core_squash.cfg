CONSTANTS
  Size = 5
  Mtvec = 3
  Code <- MCDivCode
  Target <- MCTarget
  DivSteps = 4
SPECIFICATION Spec
INVARIANTS NoStrayWrite
