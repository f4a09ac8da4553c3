SPECIFICATION Spec
CONSTANTS
  Half = 128
  Trees <- SampleTrees
  Others <- MCOthers
  InputLists <- MCInputLists
PROPERTY Returns
