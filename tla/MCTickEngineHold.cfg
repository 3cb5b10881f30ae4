\* A hold behind a condition that is false in the tick in which it breaks.
SPECIFICATION Spec
CONSTANTS
  Simfiles <- PassedOver
  ActQueues <- NoActs
  Draws <- AllDraws
  Agents <- AllAgents
  Nowhere = Nowhere
  None = None
INVARIANT HoldIsContinuous
CHECK_DEADLOCK FALSE
