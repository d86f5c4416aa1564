SPECIFICATION Spec
CONSTANTS
  s1 = s1 s2 = s2 rA = rA rAgit = rAgit b1 = b1 b2 = b2 d1 = d1 d2 = d2
  uA = uA uB = uB me = me claude = claude codex = codex None = None
  SessionId = {s1}
  User = {me}
  Repo = {rA, rAgit}
  Branch = {b1}
  Cwd = {d1, d2}
  Url = {uA, uB}
  Title = {}
  Stamp = {1}
  NormalizeRepo <- MCNormalizeRepo
  Agent = {claude}
  Codex = {}
  Proc = {p1, p2}
  Launches <- Mixed
  Checkouts <- OneCheckout
  InitIndex <- OneLine
  InitPulls <- OnePull
  Dead = {}
  Resumable = {}
  GHCap = 1
  WorkerCooldown = 0
  MetaCheckInterval = 0
  Horizon = 2
  MaxRows = 1
  MaxNow = 1
  MaxEvents = 2
SYMMETRY Symmetry
INVARIANTS SingleFlight MergedIsTrue
PROPERTIES PinForever
CHECK_DEADLOCK FALSE
