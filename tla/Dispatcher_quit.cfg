SPECIFICATION Spec
CONSTANTS
  o1 = o1
  o2 = o2
  o3 = o3
  m1 = m1
  m2 = m2
  NoOp = NoOp
  NoMsg = NoMsg
  NoJob = NoJob
  Unknown = Unknown
  OpId <- MCOpId
  Msg <- MCMsg
  Operations <- RisOperations
  AccessOfOp <- RisAccessOfOp
  Topics <- RisTopics
  Subs <- RisSubs
  Awaited = {}
  Thrown = {}
CHECK_DEADLOCK FALSE
INVARIANT
  ParentOutlivesChildren
