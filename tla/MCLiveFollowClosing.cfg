CONSTANTS
    MaxLines = 5
    MaxExtension = 1
    HighWater = 2
    ExtensionSize = 1
SPECIFICATION Spec
INVARIANTS
    FramesClose
CHECK_DEADLOCK FALSE
