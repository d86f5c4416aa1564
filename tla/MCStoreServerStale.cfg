SPECIFICATION Spec
CONSTANTS
  claude = claude codex = codex s1 = s1 s2 = s2
  pull = pull dummy = dummy title = title None = None
  Agent = {claude, codex}
  Session = {s1, s2}
  AgentOf <- BothAgentOf
  IndexOf <- BothIndexOf
  Detected <- Both
  Dummy = dummy
  Syncer = {p1, p2}
  InitHash = {"current"}
  TornRebuilds = FALSE
  MaxSaid <- OneSaid
  MaxSerial = 0
  MaxMishaps = 1
INVARIANTS ServerShowsLatest
CHECK_DEADLOCK FALSE
