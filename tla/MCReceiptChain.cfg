CONSTANTS
    Chain = {a}
    LastTick = 1
    MaxMishaps = 1
    NoAnswer = NoAnswer
SPECIFICATION FairChain
PROPERTIES
    EvidenceRecoverable
CHECK_DEADLOCK FALSE
