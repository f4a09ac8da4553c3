SPECIFICATION Spec
CONSTANTS
  Sources <- MCSources
  Programs <- MCPrograms
  Statements <- MCStatements
  Expressions <- MCExpressions
INVARIANTS TypedIffAccepted DepthsRestored GlobalsAreFunctions AcceptedCompiles TypedCode ReadsMeetTheirScope
