CONSTANTS
    MaxLines = 5
    MaxExtension = 1
    HighWater = 2
    ExtensionSize = 1
    MaxTick = 2
    MaxFaults = 3
    Agents = {"p1", "p2"}
    ToolUsers = {"p1"}
    ClaimEnabled = TRUE
    Messages <- CallMessages
    NestingDepth = 2
    MaxBytes = 2
    Slots = {"k1"}
    MaxMinted = 2
    MaxMishaps = 1
    Correlations = {"a", "b"}
    OperationOf <- MachineOperations
    MaxActive = 2
    Oddities <- MachineOddities
    MaxRequests = 3
    Events <- RunEvents
    NetworkId = "net"
    NoNetwork = "nonet"
    Limit = 2
    MaxDeliveries = 2
    MaxChatter = 1
    MaxCalls = 2
    MaxPolls = 1
    MaxRefusals = 1
    Runs <- RunRecords
    Links <- PastedLinks
    Refs = {"a"}
    Second = 4
    FrameTimes = {1, 3}
    PlaySpeeds = {1, 2}
    MaxTroubles = 1
    MaxTouches = 2
    MaxReloads = 1
    Ticks <- SampleTicks
    TickUnits = 2
    BufferUnits = 2
    CapUnits = 1
    FrameSteps = {1, 3}
    Speeds = {1, 2}
    MaxFlight = 2
    MaxLost = 1
    MaxActs = 2
SPECIFICATION FairClients
INVARIANTS
    StreamHonest
    ProjectionExact
    CallsHonest
    MessagesHonest
    SupervisionExact
    ShellExact
    PlayheadExact
PROPERTIES
    FramesOnlyExtend
    PlayheadForward
    ClientsSettle
CHECK_DEADLOCK FALSE
