SPECIFICATION Spec
CONSTANTS
  a = a
  b = b
  c = c
  d = d
  Host = Host
  Unknown = Unknown
  NoUplink = NoUplink
  Nil = Nil
  StatusType = "status"
  MaxBody = 512
  MaxPayload = 64
  Types <- MCTypes
  PortId <- MCPortId
  Suffix <- MCSuffix
  NodeIds <- MCNodeIds
  Families <- MCFamilies
INVARIANTS VerifierExact RoutesReach FramesFindTheirPort DeadManKept StatusIsOwn
CHECK_DEADLOCK FALSE
