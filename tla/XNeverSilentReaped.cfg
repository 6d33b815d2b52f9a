CONSTANTS
  Cids = {a}
  HostIds = {1}
  Gens = {1}
  NoBody = NoBody
  NoCid = NoCid
  NoHost = NoHost
  NoMsg = NoMsg
  Grant = 0
  RDV_HOST_MAX = 2
  RDV_PREV_MAX = 1
  MaxAsk = 3
  MaxHSeq = 8
  MaxIdent = 2
  MaxRev = 0
  Nodes = {n}
  HOST_MAX_WORKERS = 2
  Events = {"reaped", "regather"}
  MaxSeq = 8
  Bodies <- IdentBodies
SPECIFICATION Spec
INVARIANTS
  NeverSilent
CHECK_DEADLOCK FALSE
