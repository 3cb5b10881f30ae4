\* The engine: three simfiles, three draws of the first tick and two of each of the next three, every queue of
\* at most two acts.  The recorder: two ports, three exchanges, two ticks.
\* The recorder of a run: two runs after one directory, of two ticks each.
\* The session: four attempts of three actions, two queued and two kept, two ticks, one misbehaviour.
SPECIFICATION TraceRuntime
CONSTANTS
  Simfiles <- RealOrIdle
  ActQueues <- AllQueues
  Draws <- SomeDraws
  Agents <- AllAgents
  Nowhere = Nowhere
  None = None
  Ports = {agent, nudge}
  Minimum <- AtLeastOne
  Correlations = {c1, c2}
  MaxTick = 2
  MaxExchanges = 3
  NoRecording = NoRecording
  Run = {r1, r2}
  RunTicks = 2
  ActionsPerTick = 2
  RefusalsKept = 1
  Retained = 1
  MaxActions = 2
  MaxLogged = 2
  Attempts <- SomeAttempts
  OutcomeSets <- SomeOutcomes
  QueueLimit = 2
  AcceptedAbove = 1
  DrainsEarly = FALSE
  SessionTicks = 2
  MaxSpoils = 1
SYMMETRY Symmetry
INVARIANT TraceExact
INVARIANT ReplayReproduces
INVARIANT RecordSound
INVARIANT SessionExact
PROPERTY SlotSpec
CHECK_DEADLOCK FALSE
