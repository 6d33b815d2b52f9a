CONSTANTS
  Cids = {a, b, c}
  HostIds = {h1}
  Gens = {1, 2}
  Bodies = {p}
  NoBody = NoBody
  NoCid = NoCid
  Grant = 1
  RDV_HOST_MAX = 2
  MaxAsk = 2
  MaxHSeq = 3
SYMMETRY Sym
INIT HostInit
NEXT HostNext
INVARIANTS
  HostTypeOK
  OneRowEach
  AnsweredExact
  OneStands
PROPERTIES
  EngagedKeepsRow
  SeqMonotone
CHECK_DEADLOCK FALSE
