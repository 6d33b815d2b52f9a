CONSTANTS
  Cids = {a}
  HostIds = {1, 2}
  Gens = {1, 2}
  NoBody = NoBody
  NoCid = NoCid
  NoHost = NoHost
  NoMsg = NoMsg
  Grant = 0
  RDV_HOST_MAX = 2
  RDV_PREV_MAX = 1
  MaxAsk = 1
  MaxHSeq = 3
  MaxIdent = 1
  MaxRev = 0
  Nodes = {n}
  HOST_MAX_WORKERS = 1
  Events = {"roam", "restart", "reserve", "rebuild", "relay", "reaped"}
  MaxSeq = 4
  Bodies <- IdentBodies
SPECIFICATION Spec
INVARIANTS
  TypeOK
PROPERTIES
  ImplementsCell
CHECK_DEADLOCK FALSE
