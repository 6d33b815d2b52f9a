CONSTANTS
  Cids = {a}
  HostIds = {1}
  Gens = {1}
  NoBody = NoBody
  NoCid = NoCid
  NoHost = NoHost
  NoMsg = NoMsg
  Grant = 0
  RDV_HOST_MAX = 2
  RDV_PREV_MAX = 1
  MaxAsk = 2
  MaxHSeq = 5
  MaxIdent = 2
  MaxRev = 0
  Nodes = {n}
  HOST_MAX_WORKERS = 1
  Events = {"refuse", "spent", "dropped", "amend", "hold", "regather"}
  MaxSeq = 5
  Bodies <- IdentBodies
SPECIFICATION Spec

  
PROPERTIES
  AnswerIsRead
CHECK_DEADLOCK FALSE
