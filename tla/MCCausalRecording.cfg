\* Segmented replay of every recording of two ticks and two exchanges.
SPECIFICATION RecSpec
CONSTANTS
  Ports = {agent}
  Minimum <- AtLeastOne
  Correlations = {c1, c2}
  MaxTick = 2
  MaxExchanges = 2
  NoRecording = NoRecording
INVARIANT SegmentsOnce
CHECK_DEADLOCK FALSE
