SPECIFICATION Spec
CONSTANTS
  Half = 128
  Functions <- MCFunctions
  InputLists <- MCInputLists
INVARIANTS GraphIsReal DoneForGood
PROPERTIES StepsPreserve Terminates
