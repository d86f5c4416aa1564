SPECIFICATION Spec
CONSTANTS
  claude = claude codex = codex e1 = e1 e2 = e2 e3 = e3
  server = server collector = collector None = None
  Agent = {claude}
  Event = {e1, e2, e3}
  AgentOf <- MCAgentOf
  Target = {server, collector}
  LogsTargets <- MCLogsTargets
  MetricsTargets <- MCMetricsTargets
  Legacy = server
  Up = {collector}
  OwnServer = {server}
  Refused <- MCRefused
  ShownBy <- MCShownBy
  BatchSize = 1
  Flusher = {f1}
  InitEvents <- MCInitEvents
  MaxSequence = 3
  MaxSaves = 1
  MaxAborts = 1
INVARIANTS TypeOK AtLeastOnce GaugesAtLeastOnce SentOnce
CHECK_DEADLOCK FALSE
