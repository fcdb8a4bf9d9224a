SPECIFICATION FairSpec
CONSTANTS
    p1 = p1
    p2 = p2
    c1 = c1
    c2 = c2
    t1 = t1
    t2 = t2
    t3 = t3
    Peers = {p1}
    Conns = {c1}
    Threads = {t1, t2}
    None = None
    RetryLimit = 1
    SeqMod = 1
    SpawnMayFail = FALSE
INVARIANT ActiveMeansStreaming
PROPERTIES WaitEnds StopSilences ServiceSpec
