SPECIFICATION Spec
CONSTANTS
    Burst = 2
    TxLen = 2
    Half = 2
    Threads = {t1}
    None = None
    Silence = Silence
    Junk = Junk
INVARIANT InBounds
