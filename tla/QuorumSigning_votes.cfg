CONSTANTS
    n1 = n1
    n2 = n2
    n3 = n3
    n4 = n4
    q1 = q1
    q2 = q2
    id1 = id1
    m1 = m1
    m2 = m2
    Nodes = {n1, n2, n3, n4}
    Honest = {n1, n2, n3}
    Ids = {id1}
    Msgs = {m1, m2}
    Quorums <- TwoQuorums
    Members <- TwoMembers
    threshold = 3
    Chains <- TwoChains
    signingActiveQuorumCount = 1
    SIGN_HEIGHT_OFFSET = 1
    RpcQuorums = {q1}
    Score <- TwoScore
    MaxRestarts = 1
    None = None
SPECIFICATION Spec
SYMMETRY MsgSymmetry
INVARIANTS TypeOK HonestSignsItsVote OneMsgHashPerId NodesAgree
PROPERTY VoteIsFinal
