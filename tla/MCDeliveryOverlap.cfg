SPECIFICATION Spec
CONSTANTS
  claude = claude codex = codex e1 = e1 e2 = e2 e3 = e3
  server = server collector = collector None = None
  Agent = {claude}
  Event = {e1, e3}
  AgentOf <- MCAgentOf
  Target = {collector}
  LogsTargets <- OverlapLogsTargets
  MetricsTargets <- MCMetricsTargets
  Legacy = server
  Up = {collector}
  OwnServer = {}
  Refused <- MCRefused
  ShownBy <- MCShownBy
  BatchSize = 1
  Flusher = {f1, f2}
  InitEvents <- OverlapInitEvents
  MaxSequence = 2
  MaxSaves = 0
  MaxAborts = 1
SYMMETRY Symmetry
INVARIANTS AtLeastOnce GaugesAtLeastOnce
CHECK_DEADLOCK FALSE
