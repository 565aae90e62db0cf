SPECIFICATION Spec
CONSTANTS
  a1 = a1
  a2 = a2
  gen = gen
  rev = rev
  TeamAgent <- MCTeam
  Meta = {}
  Orchestrator = o
  Slug <- MCSlug
  Generalist = gen
  MaxLlmCalls = 5
  MaxToolIters = 2
  MaxTicks = 2
  Scripts <- MCScripts
  Arc <- MCArc
INVARIANTS
  SpansTile
  RecordsTell
  OneVoicePerTurn
  ScriptInOrder
  CallsWithinCap
