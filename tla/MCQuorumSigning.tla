--------------------------- MODULE MCQuorumSigning ---------------------------
(* Small instances of QuorumSigning.                                         *)
EXTENDS QuorumSigning, TLC

CONSTANTS n1, n2, n3, n4, q1, q2, id1, m1, m2

TwoQuorums == {q1, q2}

\* The newer quorum has the lower hash.
TwoScore == [p \in {q1, q2} \X Ids |-> IF p[1] = q1 THEN 1 ELSE 0]

\* Two branches above the block that mines q1: on the first q2 was mined and has
\* passed the offset, on the second it was not.
TwoChains == {<<q1, None, q2, None>>, <<q1, None, None, None>>}

TwoMembers == [q \in {q1, q2} |-> IF q = q1 THEN {n1, n2, n3, n4} ELSE {n2, n3, n4}]
DisjointMembers == [q \in {q1, q2} |-> IF q = q1 THEN {n1, n2} ELSE {n3, n4}]

MsgSymmetry == Permutations(Msgs)
=============================================================================
