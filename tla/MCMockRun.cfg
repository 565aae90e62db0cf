\* Two tasks of three with one work action each: two agents, or one agent and one
\* meta-agent, in concurrent turns; all three in serial turns.  The meta cadence
\* is the code's.  A run ends, so deadlock is not checked.
CONSTANTS
  a1 = a1
  a2 = a2
  m1 = m1
  t1 = t1
  NoAgent = NoAgent
  NoTeam = NoTeam
  Orchestrator = Orchestrator
  Agent <- MCAgent
  Task <- MCTask
  Team <- MCTeam
  Meta <- MCMeta
  Crew <- MCCrew
  MaxWork = 1
  Threshold = 6

SPECIFICATION Spec
CHECK_DEADLOCK FALSE

INVARIANTS
  ArcBounds
  FinishNeverRefused

PROPERTY
  Converges
