SPECIFICATION Spec
CONSTANTS
  Inputs <- MCInputs
INVARIANTS RoundTrip AcceptedIsWritten RecoveryAdvances FunctionsKept
PROPERTIES Terminates
