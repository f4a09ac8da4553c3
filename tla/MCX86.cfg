SPECIFICATION Spec
CONSTANTS
  Half = 16384
  StackTop = 1280
  Terminal = TRUE
  Programs <- X86Programs
  InputLists <- MCInputLists
INVARIANTS StackHolds TrapsAreDeserved SameInAndOut
