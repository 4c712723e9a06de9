CONSTANTS
    a = a  b = b  d = d
    c1 = c1  c2 = c2  c3 = c3
    NULL = NULL
    IP <- AllIP
    DevIP <- Dev
    Client <- Three
    EN_MAX_RECD_SPRS = 4
    EN_SEC_Trim = 2
    EN_Limit_Cnct = 3
    TimesWidth = 65536
    Horizon = 4
    MaxTimes = 5
SPECIFICATION WatchSpec
INVARIANT ChkIPReturns
CHECK_DEADLOCK FALSE
