CONSTANTS
    p1 = p1
    p2 = p2
    Procs = {p1, p2}
    Daemons = {p1, p2}
    VideoUnits <- McVideoUnits
    Cdevs <- McCdevs
    Mm <- McMm
    Count <- McCount
    dvb_swap_fe = 1
    KernelNodes <- McNodes
    MaxUnit = 1
    Bus <- McBus
    Tables <- McTables
    Options <- McOptions
    Configs <- McConfigs
    IfaceMax = 2
    MaxIads = 2
    MaxAlt = 2
    None = None
    f1 = f1
    f2 = f2
    Files = {f1, f2}
    Workers = {w1, w2}
    Slots = {0, 1}
    PAGE_SIZE = 2
    Offsets = {0, 2, 3, 4}
    Lens = {0, 1, 3, 4}
    ALLOC_MAX = 2
    Methods <- McMethods
    MaxFailed = 1
    IDLE = IDLE
    NULL = NULL
    FAILED = FAILED
    MaxIds = 2
SPECIFICATION SuiteSpec
CHECK_DEADLOCK FALSE
INVARIANT DriverFits
INVARIANT TreeRight
INVARIANT FilesRight
INVARIANT TableRight
PROPERTY MappingsStay
