CONSTANTS
    Procs = {p1}
    Overlap = FALSE
    MaxFaults = 2
    Chain = {a, b}
    LastTick = 1
    MaxMishaps = 1
    NoAnswer = NoAnswer
SPECIFICATION FairComposed
INVARIANTS
    ReceiptsKept
    AuthorityExact
    EffectBeforePhase
    ReceiptsTied
PROPERTIES
    NoBlindRetry
    ImplementsDurableRun
    RunsEnd
CHECK_DEADLOCK FALSE
