SPECIFICATION Spec
CONSTANTS
  Half = 16384
  Strings = 0
  Programs <- CppPrograms
  InputLists <- MCInputLists
INVARIANTS CompilesClean StateHolds SameOutput
