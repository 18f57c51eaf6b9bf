CONSTANTS
    NSEC_PER_USEC = 3
    USEC_PER_MSEC = 2
    MSEC_PER_SEC = 2
    MaxNs = 40
    NULL = NULL
    item = item
    p1 = p1
    w1 = w1
    w2 = w2
SPECIFICATION SuiteSpec
INVARIANT TimesRight
 
 
 
PROPERTY IdsAsPromised
