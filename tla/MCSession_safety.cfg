SPECIFICATION Spec
CONSTANTS
    p1 = p1
    p2 = p2
    c1 = c1
    c2 = c2
    t1 = t1
    t2 = t2
    t3 = t3
    Peers = {p1, p2}
    Conns = {c1, c2}
    Threads = {t1, t2, t3}
    None = None
    RetryLimit = 1
    SeqMod = 1
    SpawnMayFail = TRUE
SYMMETRY Symmetry
INVARIANTS TypeOK OneStreamer SendSocketOpen StreamGoesToStarter
