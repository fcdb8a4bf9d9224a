SPECIFICATION FairRadioSpec
CONSTANTS
    Burst = 1
    TxLen = 2
    Half = 1
    Threads = {t1, t2, t3}
    None = None
    Silence = Silence
    Junk = Junk
INVARIANTS RadioTypeOK StreamOrder InPayload SilentWhenStopped
PROPERTIES RingServiceSpec Quiet
