CONSTANTS
  Cids = {a}
  HostIds = {1}
  Gens = {1}
  NoBody = NoBody
  NoCid = NoCid
  NoHost = NoHost
  NoMsg = NoMsg
  Grant = 0
  RDV_HOST_MAX = 2
  RDV_PREV_MAX = 1
  MaxAsk = 0
  MaxHSeq = 4
  MaxIdent = 1
  MaxRev = 0
  Nodes = {n1, n2}
  HOST_MAX_WORKERS = 1
  Events = {"loss", "expire", "restore"}
  MaxSeq = 4
  Bodies <- IdentBodies
SPECIFICATION LiveSpec
PROPERTIES
  HostHeals
CHECK_DEADLOCK FALSE
