SPECIFICATION Spec
CONSTANTS
  Half = 128
  Functions <- MCFunctions
  InputLists <- MCInputLists
PROPERTY EveryMergePreserves
