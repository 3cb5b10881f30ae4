CONSTANTS
    Procs = {p1, p2}
    Overlap = TRUE
    MaxFaults = 0
SPECIFICATION Spec
PROPERTIES
    NeverOverwritesIntervening
CHECK_DEADLOCK FALSE
