\* One team, so that every team and citing verb fires; two malformed turns park.
CONSTANTS
  a1 = a1
  a2 = a2
  g1 = g1
  orch = orch
  m1 = m1
  noAgent = noAgent
  noTeam = noTeam
  free = free
  Agent <- MCAgent
  Task <- MCTask
  Team <- MCTeam
  Meta <- MCMeta
  Orchestrator = orch
  Free = free
  NoAgent = noAgent
  NoTeam = noTeam
  ParkK = 2
  MaxTask = 1
  MaxDirective = 1

SPECIFICATION PSpec
SYMMETRY Symmetry

INVARIANTS
  TaggedTeamLive
  FoldedBoardIsBoard
  FoldsExactWhenAwake
  WireParkedIsParked

PROPERTIES
  DirectiveResolvedOnce
