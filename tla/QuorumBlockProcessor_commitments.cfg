CONSTANTS
    Forks <- MCForks
    Signers <- MCSigners
    dkgInterval = 4
    dkgMiningWindowStart = 2
    dkgMiningWindowEnd = 3
    MaxHeight = 6
    MaxUndo = 2
    MaxPool = 2
    Readers = {r1}
    Scanners = {s1}
    NoQc = NoQc
SPECIFICATION Spec
CONSTRAINT QueryBound
INVARIANTS TypeOK ChosenIsMinable DbMatchesChain SessionProtocol CacheMatchesDb HeightIndexMatchesChain
PROPERTY UndoneCommitmentMinable
CHECK_DEADLOCK FALSE
