\* Permits: two agents, a meta-agent that retunes them, no mail.
CONSTANTS
  orch = orch
  m1 = m1
  NumAgents = 2
  Meta <- MCMeta
  Orchestrator = orch
  Parallel = 2
  Threshold = 2
  MaxTask = 1
  MaxMail = 0
  MaxNudging = 1

SPECIFICATION Spec

INVARIANTS
  PermitsAccounted
  OwnedWithinConfigured
  NoLostWakeup
  PermitWhenQuiet
