CONSTANTS
  Cids = {a}
  HostIds = {1}
  Gens = {1}
  NoBody = NoBody
  NoCid = NoCid
  NoHost = NoHost
  NoMsg = NoMsg
  Grant = 0
  RDV_HOST_MAX = 2
  RDV_PREV_MAX = 1
  MaxAsk = 3
  MaxHSeq = 7
  MaxIdent = 1
  MaxRev = 0
  Nodes = {n}
  HOST_MAX_WORKERS = 1
  Events = {"announce", "restore"}
  MaxSeq = 9
  Bodies <- IdentBodies
SPECIFICATION LiveSpec
PROPERTIES
  Joins
CHECK_DEADLOCK FALSE
