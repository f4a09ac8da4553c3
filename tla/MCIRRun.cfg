SPECIFICATION Spec
CONSTANTS
  Half = 128
  Trees <- MCTrees
  Others <- MCOthers
  InputLists <- MCInputLists
INVARIANTS RunsStraight LoweredIsValid
PROPERTIES DoesWhatItSays
