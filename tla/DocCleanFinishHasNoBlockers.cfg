\* What the documents say; see README.md.
CONSTANTS
  a1 = a1
  a2 = a2
  g1 = g1
  orch = orch
  m1 = m1
  noAgent = noAgent
  noTeam = noTeam
  free = free
  Agent <- MCAgent
  Task <- MCTask
  Team = {}
  Meta <- MCMeta
  Orchestrator = orch
  Free = free
  NoAgent = noAgent
  NoTeam = noTeam
  ParkK = 2
  MaxTask = 1
  MaxDirective = 1

SPECIFICATION Spec

INVARIANT CleanFinishHasNoBlockers
