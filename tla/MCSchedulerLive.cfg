\* Liveness: two agents, one permit, mail.
CONSTANTS
  orch = orch
  m1 = m1
  NumAgents = 2
  Meta = {}
  Orchestrator = orch
  Parallel = 1
  Threshold = 2
  MaxTask = 1
  MaxMail = 1
  MaxNudging = 1

SPECIFICATION FairSpec

PROPERTIES
  TerminationReturns
  StallReachesOrchestrator
  OrchestratorHears
