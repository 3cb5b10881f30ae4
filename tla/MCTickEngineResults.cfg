\* Two acts that share an identifier.
SPECIFICATION Spec
CONSTANTS
  Simfiles <- AllSimfiles
  ActQueues <- AllQueues
  Draws <- SomeDraws
  Agents <- AllAgents
  Nowhere = Nowhere
  None = None
INVARIANT ResultsNameTheirEvents
CHECK_DEADLOCK FALSE
