SPECIFICATION FairSpec
CONSTANTS
  s1 = s1 s2 = s2 rA = rA rAgit = rAgit b1 = b1 dir = dir
  uA = uA uB = uB t1 = t1 me = me None = None
  SessionId = {s1, s2}
  User = {me}
  Repo = {rA, rAgit}
  Branch = {b1}
  Cwd = {dir}
  Url = {uA, uB}
  Title = {t1}
  Stamp = {1, 2}
  NormalizeRepo <- MCNormalizeRepo
  Writer = {w1, w2}
  Op <- MCOp
  InitIndex <- MCInitIndex
  MaxCalls = 3
  MaxCrashes = 1
INVARIANTS TypeOK LockInv PinnedIsSingle
PROPERTIES RowsAdvance PinnedUrlStable Linearizable EveryCallReturns
CHECK_DEADLOCK FALSE
