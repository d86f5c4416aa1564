SPECIFICATION Spec
CONSTANTS
  claude = claude codex = codex s1 = s1 s2 = s2
  pull = pull dummy = dummy title = title None = None
  Agent = {claude, codex}
  Session = {s1, s2}
  AgentOf <- BothAgentOf
  IndexOf <- BothIndexOf
  Detected <- Both
  Dummy = dummy
  Syncer = {p1}
  InitHash = {"current"}
  TornRebuilds = FALSE
  MaxSaid <- OneSaid
  MaxSerial = 16
  MaxMishaps = 1
PROPERTIES ResyncAddsNothing
CHECK_DEADLOCK FALSE
