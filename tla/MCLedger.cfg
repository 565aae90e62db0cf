\* Two agents, of which one speaks, as does the orchestrator; one team, whole
\* or with an agent listed twice; two messages and a note among six events.
CONSTANTS
  a1 = a1
  a2 = a2
  g1 = g1
  Orchestrator = orch
  Agent <- MCAgent
  Team <- MCTeam
  Sender <- MCSender
  MemberList <- MCMemberList
  MaxMessage = 2
  MaxNote = 1
  MaxEvent = 6

SPECIFICATION LSpec

INVARIANTS
  CrossReferenced
  MailboxIsOwed
  FoldedMailboxIsMailbox
  VolumeIsStore

PROPERTY
  ImplementsPostOffice

CHECK_DEADLOCK FALSE
