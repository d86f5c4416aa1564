SPECIFICATION ClientSpec
CONSTANTS
  claude = claude codex = codex s1 = s1 s2 = s2
  pull = pull dummy = dummy title = title None = None
  Agent = {claude}
  Session = {s1}
  AgentOf <- OneAgentOf
  IndexOf <- OneIndexOf
  Detected <- One
  Dummy = dummy
  Syncer = {p1, p2}
  InitHash = {"old"}
  TornRebuilds = FALSE
  MaxSaid <- OneSaid
  MaxSerial = 0
  MaxMishaps = 1
  m1 = m1 m2 = m2
  ClaudeLine <- MCClaudeLine
  CodexLine <- MCCodexLine
  Model = {m1, m2}
  MaxLines = 3
  ConfigLine <- MCConfigLine
  Environment = {None}
  GitEmail = None
  Expand <- MCExpand
  MaxConfigLines = 4
  Command = {c1, c2}
  InitFiles <- MCInitFiles
  MaxKills = 1
INVARIANTS TypeOK ServerStatsAreCurrent 
    LoadedAsWritten NoTargetIsDeaf
  MovedBeforeRun 
PROPERTIES ShowsWhatWasRead 
  CountsOnlyGrow  NothingOverwritten
CHECK_DEADLOCK FALSE
