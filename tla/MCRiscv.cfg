SPECIFICATION Spec
CONSTANTS
  Half = 16384
  StackTop = 640
  Programs <- MCPrograms
  InputLists <- MCInputLists
INVARIANTS CacheTrue StackHolds SameOutput
PROPERTIES Halts
