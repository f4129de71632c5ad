----------------------- MODULE MCQuorumBlockProcessor -----------------------
(* Small instances of QuorumBlockProcessor.  Sibling blocks differ in the    *)
(* commitment they carry.                                                    *)
EXTENDS QuorumBlockProcessor

MCForks == {1}
MCSigners == {1, 2}

\* With readers and scanners: shorter chains, one disconnection and one signer
\* count are enough for their interleavings with a reorganisation.
QueryBound ==
    \/ Alone
    \/ /\ Len(chain) <= 3
       /\ undone <= 1
       /\ \A c \in minable : c.n = 1
       /\ Cardinality(minable) <= 1
=============================================================================
