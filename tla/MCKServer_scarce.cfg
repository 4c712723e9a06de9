\* As many connections as clients, one large buffer, fewer user records than
\* clients, a registered address; the watch time may end.
CONSTANTS
    visitor1 = visitor1  visitor2 = visitor2  developer = developer
    buf1 = buf1
    NULL = NULL
    Client <- Clients
    Buf = {buf1}
    IP <- Mixed
    DevIP <- Dev
    NUM_CLIENT = 3
    EN_MAX_RECD_SPRS = 3
    EN_SEC_Trim = 1
    EN_Limit_Cnct = 2
    TimesWidth = 65536
    Horizon = 2
    MaxTimes = 2
    EN_NUM_KUInfo = 2
    WaitInitRI = 1
    WaitCrtUsr = 1
    Command = {"InitRI", "CrtUsr"}
    AtOnce = {FALSE}
    MaxOpen = 3
SPECIFICATION Spec
VIEW Named
INVARIANTS OneAccept AcceptsWhileRoom BuffersOwned
PROPERTY DrivesWatch
\* The server may hang in S_Trim, and the bounds stop the environment.
CHECK_DEADLOCK FALSE
