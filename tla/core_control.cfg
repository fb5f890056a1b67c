CONSTANTS
  Size = 5
  Mtvec = 3
  Code <- MCCode
  Target <- MCTarget
  DivSteps = 4
SPECIFICATION Spec
INVARIANTS PipelineExact WritesExact NoNestedTrap
PROPERTIES LooksSequential Progress InterruptTaken
