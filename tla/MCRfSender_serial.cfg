SPECIFICATION FairSpec
CONSTANTS
    h1 = h1
    h2 = h2
    h3 = h3
    Handles = {h1, h2, h3}
    None = None
    Freqs <- MCFreqs
    Lowest = 2000
    Highest = 3000
    Overlap = FALSE
    GraceEnough = TRUE
INVARIANTS TypeOK NoSenderLost  CommandObeyed NoUseAfterDeinit OffAtExit
PROPERTY SamplesFlow
