\* Clients to spare in the pool: users register, reconnect, exceed the limit,
\* and the handlers they leave behind run late.
CONSTANTS
    visitor1 = visitor1  visitor2 = visitor2  developer = developer
    buf1 = buf1
    NULL = NULL
    Client <- Clients
    Buf = {buf1}
    IP <- Visitors
    DevIP <- None
    NUM_CLIENT = 6
    EN_MAX_RECD_SPRS = 4
    EN_SEC_Trim = 2
    EN_Limit_Cnct = 2
    TimesWidth = 65536
    Horizon = 1
    MaxTimes = 3
    EN_NUM_KUInfo = 2
    WaitInitRI = 1
    WaitCrtUsr = 1
    Command = {"CrtUsr"}
    AtOnce = {TRUE, FALSE}
    MaxOpen = 2
SPECIFICATION Spec
VIEW Named
INVARIANTS TypeOK OneOperation LateHandlersHarmless PoolPartition UserRecordsOwned NoUserLeft
PROPERTIES ReplacementInherits
\* The server may hang in S_Trim, and the bounds stop the environment.
CHECK_DEADLOCK FALSE
