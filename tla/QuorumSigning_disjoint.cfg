CONSTANTS
    n1 = n1
    n2 = n2
    n3 = n3
    n4 = n4
    q1 = q1
    q2 = q2
    id1 = id1
    m1 = m1
    m2 = m2
    Nodes = {n1, n2, n3, n4}
    Honest = {n1, n2, n3, n4}
    Ids = {id1}
    Msgs = {m1, m2}
    Quorums <- TwoQuorums
    Members <- DisjointMembers
    threshold = 2
    Chains <- TwoChains
    signingActiveQuorumCount = 1
    SIGN_HEIGHT_OFFSET = 1
    RpcQuorums = {}
    Score <- TwoScore
    MaxRestarts = 1
    None = None
SPECIFICATION Spec
INVARIANT OneMsgHashPerId
