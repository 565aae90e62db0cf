\* "No seed can produce a non-terminating run": one task, one agent, one
\* meta-agent, one turn at a time, the code's quota and cadence.
CONSTANTS
  a1 = a1
  a2 = a2
  m1 = m1
  t1 = t1
  NoAgent = NoAgent
  NoTeam = NoTeam
  Orchestrator = Orchestrator
  Agent <- MCAgent
  Task <- MCTask
  Team <- MCTeam
  Meta <- MCMeta
  Crew <- SerialCrew
  MaxWork = 3
  Threshold = 6

SPECIFICATION Spec
CHECK_DEADLOCK FALSE

PROPERTY
  NoSeedHangs
