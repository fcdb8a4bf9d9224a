SPECIFICATION Spec
CONSTANTS
    Conf = Conf
    Cfg = Cfg
    NoFile = NoFile
    Missing = Missing
    Bad = Bad
    MaxBands = 3
    DefaultBands = 2
    UserContents <- MCUserContents
INVARIANTS TypeOK RunsWithWholeFile
PROPERTY ValidAccepted
