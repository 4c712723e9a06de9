CONSTANTS
    mc_max_bytes_wrt = 26
    bytes_buf_utf8 = 3000
    mc_bytes_pad = 40
    Hellos <- MCHellos
    Frames <- MCFrames
    Parts = {5, 9}
    EN_MAX_LEN_uname = 4
    Peers <- MCPeers
    uview = 7
    FirstUsr = 2
    Paddings = {0, 5}
    MaxFrames = 2
    MaxConns = 2
    MaxActed = 2
    MaxSaid = 4
    Messages <- MCMessages
    Times = {272}
    Ends <- MCEnds
SPECIFICATION Spec
INVARIANTS
    SessionTypeOK
    ActsOnWhatWasSent
    UnmaskInBuffer
    UsersNest
    TextTells
    StopsForCause
    TextOnDisk
CHECK_DEADLOCK FALSE
