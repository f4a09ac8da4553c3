SPECIFICATION Spec
CONSTANTS
  Half = 128
  Jobs <- MCJobs
  InputLists <- MCInputLists
INVARIANTS CodeInShape StaysValid
PROPERTIES NothingLeft PassPreserves Terminates
