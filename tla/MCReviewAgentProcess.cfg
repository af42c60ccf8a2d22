SPECIFICATION FairAgentSpec
CONSTANTS
  a1 = a1
  a2 = a2
  Agent <- TwoAgents
INVARIANTS
  AgentTypeOK
  TimeoutSettlesDead
  SuccessIsGenuine
  CompletesOnce
PROPERTY AgentSettles
CHECK_DEADLOCK FALSE
