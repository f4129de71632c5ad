--------------------------- MODULE MCSigningManager ---------------------------
(* Small instance of SigningManager: one request id, signed for the same       *)
(* message by two quorums (nodes on both sides of a new quorum).               *)
EXTENDS SigningManager, TLC

CONSTANTS id1, m1, m2, q1, q2

MCRecSigs == {[id |-> id1, msg |-> m1, q |-> q] : q \in {q1, q2}}
QuorumSymmetry == Permutations({q1, q2})
=============================================================================
