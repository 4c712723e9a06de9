\* One large buffer, two clients that ask for the room list.
CONSTANTS
    visitor1 = visitor1  visitor2 = visitor2  developer = developer
    buf1 = buf1
    NULL = NULL
    Client <- Clients
    Buf = {buf1}
    IP <- Mixed
    DevIP <- Dev
    NUM_CLIENT = 3
    EN_MAX_RECD_SPRS = 4
    EN_SEC_Trim = 2
    EN_Limit_Cnct = 3
    TimesWidth = 65536
    Horizon = 1
    MaxTimes = 1
    EN_NUM_KUInfo = 2
    WaitInitRI = 1
    WaitCrtUsr = 1
    Command = {"InitRI"}
    AtOnce = {TRUE, FALSE}
    MaxOpen = 2
SPECIFICATION Spec
INVARIANT DelayOnlyIfTold
\* The server may hang in S_Trim, and the bounds stop the environment.
CHECK_DEADLOCK FALSE
