SPECIFICATION FairSpec
CONSTANTS
  NStations = 5
  Invalid <- MCInvalid
  Graphs <- MCGraphs
CHECK_DEADLOCK FALSE
INVARIANTS
  ComponentsClosed
  ClosedIfSymmetric
  IncomingMatchesOutgoing
PROPERTY
  Terminates
