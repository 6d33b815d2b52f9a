CONSTANTS
  Cids = {a, b}
  HostIds = {1}
  Gens = {1}
  NoBody = NoBody
  NoCid = NoCid
  NoHost = NoHost
  NoMsg = NoMsg
  Grant = 0
  RDV_HOST_MAX = 2
  RDV_PREV_MAX = 1
  MaxAsk = 1
  MaxHSeq = 4
  MaxIdent = 1
  MaxRev = 0
  Nodes = {n}
  HOST_MAX_WORKERS = 1
  Events = {}
  MaxSeq = 5
  Bodies <- IdentBodies
SYMMETRY Sym
SPECIFICATION Spec

  
PROPERTIES
  ImplementsCell
  AnswerIsRead
CHECK_DEADLOCK FALSE
