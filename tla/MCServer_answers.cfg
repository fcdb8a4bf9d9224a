SPECIFICATION FairSpec
CONSTANTS
    Peers = {p1, p2}
    Conns = {c1}
    None = None
    Frame = 3
    Datagrams <- MCDatagrams
    Messages <- MCMessages
    RetryLimit = 1
    SetupMayFail = TRUE
    Emulation = 6
INVARIANTS TypeOK FrameAligned ReplyToAsker
PROPERTIES UdpAnswered ClientAccepted
