CONSTANTS
    Forks <- MCForks
    Signers <- MCSigners
    dkgInterval = 3
    dkgMiningWindowStart = 1
    dkgMiningWindowEnd = 2
    MaxHeight = 4
    MaxUndo = 2
    MaxPool = 2
    Readers = {}
    Scanners = {s1}
    NoQc = NoQc
SPECIFICATION Spec
INVARIANT ScanNeverAborts
CHECK_DEADLOCK FALSE
