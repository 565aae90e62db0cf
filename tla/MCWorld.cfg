CONSTANTS
  a1 = a1
  a2 = a2
  g1 = g1
  orch = orch
  m1 = m1
  noAgent = noAgent
  noTeam = noTeam
  free = free
  Agent <- MCAgent
  Task <- MCTask
  Team = {}
  Meta <- MCMeta
  Orchestrator = orch
  Free = free
  NoAgent = noAgent
  NoTeam = noTeam
  ParkK = 3
  MaxTask = 2
  MaxDirective = 1

SPECIFICATION Spec
SYMMETRY Symmetry

INVARIANTS
  OneClaimPerAgent
  AgentMatchesBoard
  ParkedAtK
  IInv

PROPERTIES
  FinishFreezesWorld
  ImplementsWorkforce
