CONSTANTS
    id1 = id1
    m1 = m1
    m2 = m2
    q1 = q1
    q2 = q2
    RecSigs <- MCRecSigs
    Msgs = {m1, m2}
    maxAge = 1
    Readers = {"msghand"}
    TimeModulus = 16
    StartTime = 2
    MaxTime = 4
    MaxHandled = 2
    MaxQueued = 2
    Nothing = Nothing
SPECIFICATION Spec
SYMMETRY QuorumSymmetry
INVARIANT KnownByHash
