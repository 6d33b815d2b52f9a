CONSTANTS
  Cids = {a}
  Other = b
  HostIds = {h1, h2}
  Gens = {1}
  NoHost = NoHost
  NoMsg = NoMsg
  NoBody = NoBody
  RDV_PREV_MAX = 1
  MaxAsk = 2
  MaxIdent = 2
  MaxRev = 1
  MaxSeq = 2
  MaxHostSeq = 2
INIT MCInit
NEXT MCNext
INVARIANTS
  ClientTypeOK
  AskNumbersFresh
  LaggingCopyIsNoOp
PROPERTIES
  TakesOnce
CHECK_DEADLOCK FALSE
