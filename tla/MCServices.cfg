CONSTANTS
    t1 = t1
    Timers = {t1, t2}
    NoTimer = NoTimer
    Procs = {p1}
    SEC = 4
    DIV = 2
    SHORT = 1
    RELAX = 2
    MaxTime = 7
    MaxNeeded = 1
    SlowFunctions = FALSE
    MaxSets = 0
    Threads = {n1, n2}
    Adapters = {"root", "a", "b", "c", "d"}
    Root = "root"
    Parent <- MCParent
    Mux <- MCMux
    MuxLocked = {"b", "c"}
    Retries = 1
    MaxJobs = 1
    NoThread = NoThread
    NoAdapter = NoAdapter
    Bytes = {3, 200}
    Commands = {0, 1}
    Addr = 80
    I2C_SMBUS_BLOCK_MAX = 2
    MaxLength = 3
    MaxWrites = 2
    Damages = {1, 128}
    Drivers = {"d1", "d2"}
    NoDriver = NoDriver
    Names <- MCNames
    ChipNames = {"d1", "d2"}
    CoreAdapters = {a1, a2, a3}
    BoardNumbers = {1, 128}
    FirstNumber = 128
    LastNumber = 130
    MaxAdapters = 1
    Clients = {c1}
    Chips = {2}
    Lists <- MCLists
    OwnProbe = TRUE
SPECIFICATION SuiteSpec
CHECK_DEADLOCK FALSE
INVARIANT TimersExact
 
 
INVARIANT CoreRight
PROPERTY OnTime
