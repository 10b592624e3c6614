SPECIFICATION Spec
CONSTANTS
  NStations = 4
  Invalid <- MCInvalid
  Graphs <- MCDirected
CHECK_DEADLOCK FALSE
INVARIANTS
  TransitivelyClosed
