SPECIFICATION Spec
CONSTANTS
  Half = 128
  Runs <- MCRuns
INVARIANTS InLockstep Inv
