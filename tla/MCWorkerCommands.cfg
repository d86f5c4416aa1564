SPECIFICATION Spec
CONSTANTS
  s1 = s1 s2 = s2 rA = rA rAgit = rAgit b1 = b1 b2 = b2 d1 = d1 d2 = d2
  uA = uA uB = uB me = me claude = claude codex = codex None = None
  SessionId = {s1, s2}
  User = {me}
  Repo = {rA, rAgit}
  Branch = {b1, b2}
  Cwd = {d1, d2}
  Url = {uA, uB}
  Title = {}
  Stamp = {1, 2}
  NormalizeRepo <- MCNormalizeRepo
  Agent = {codex}
  Codex = {codex}
  Proc = {p1}
  Launches <- Commands
  Checkouts <- TwoBranches
  InitIndex <- OneLine
  InitPulls <- NoPulls
  Dead = {uB}
  Resumable = {s1}
  GHCap = 1
  WorkerCooldown = 1
  MetaCheckInterval = 1
  Horizon = 2
  MaxRows = 2
  MaxNow = 2
  MaxEvents = 3
INVARIANTS TypeOK PinnedToOwnBranch  NoneForgotten 
CHECK_DEADLOCK FALSE
