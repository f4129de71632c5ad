---------------------------- MODULE QuorumSigning ----------------------------
(***************************************************************************)
(* Threshold signing across the network: CSigningManager's vote database   *)
(* and quorum selection (llmq/quorums_signing.cpp) on every smartnode, the *)
(* worker of CSigSharesManager that signs and recovers                     *)
(* (llmq/quorums_signing_shares.cpp), and the network between them.        *)
(*                                                                         *)
(* Signature shares and recovered signatures that were sent stay in `sent' *)
(* and `wire': a node may use any part of them at any time, which covers   *)
(* delay, reordering, duplication and loss.  Members outside Honest sign   *)
(* whatever they like.  Time is shorter than -maxrecsigsage, so votes and  *)
(* recovered signatures do not expire (see SigningManager for expiry).     *)
(***************************************************************************)
EXTENDS Integers, Sequences, FiniteSets, Functions

CONSTANTS
    Nodes,          \* proTxHashes of the smartnodes
    Honest,         \* the nodes that run this code
    Ids,            \* request ids
    Msgs,           \* message hashes
    Quorums,        \* quorum hashes
    Members,        \* valid members of each quorum
    threshold,      \* Consensus::LLMQParams::threshold
    Chains,         \* the active chains a node may have: per height the quorum
                    \* whose commitment the block mines, or None
    signingActiveQuorumCount,
    SIGN_HEIGHT_OFFSET,
    RpcQuorums,     \* the quorums that the "quorum sign" RPC may name
    Score,          \* hash(llmqType, quorumHash, selectionHash)
    MaxRestarts,    \* bound on restarts of nodes
    None

ASSUME SigningAssumption ==
    /\ IsFiniteSet(Nodes)
    /\ Honest \subseteq Nodes
    /\ Members \in [Quorums -> SUBSET Nodes]
    /\ threshold \in Nat \ {0}
    /\ Chains \subseteq Seq(Quorums \cup {None})
    /\ signingActiveQuorumCount \in Nat \ {0}
    /\ SIGN_HEIGHT_OFFSET \in Nat
    /\ RpcQuorums \subseteq Quorums
    /\ Score \in [Quorums \X Ids -> Nat]
    /\ MaxRestarts \in Nat
    /\ None \notin Msgs \cup Quorums

VARIABLES
    chain,          \* per node: its active chain
    vote,           \* per node: "rs_v", the msgHash voted for on each id, on disk
    pendingSigns,   \* per node: queue of AsyncSign, in memory
    recovered,      \* per node: recovered signatures, on disk
    sent,           \* signature shares on the network
    wire,           \* recovered signatures on the network
    restarts        \* restarts of all nodes, for the bound only

vars == <<chain, vote, pendingSigns, recovered, sent, wire, restarts>>

Session == [q : Quorums, id : Ids, msg : Msgs]
SigShare == [q : Quorums, id : Ids, msg : Msgs, member : Nodes]
Share(s, n) == [q |-> s.q, id |-> s.id, msg |-> s.msg, member |-> n]
Signers(s) == {n \in Nodes : Share(s, n) \in sent}

HasRecoveredSigForId(n, id) == \E r \in recovered[n] : r.id = id

(***************************************************************************)
(* SelectQuorumForSigning: of the last signingActiveQuorumCount quorums    *)
(* that the node's chain had SIGN_HEIGHT_OFFSET blocks ago, the one whose  *)
(* hash with the id is lowest.                                             *)
(***************************************************************************)
\* The last count quorums of chain c up to height h.
ScanQuorums(c, h, count) ==
    {q \in Quorums : \E i \in 1 .. h :
        /\ c[i] = q
        /\ Cardinality({j \in (i + 1) .. h : c[j] # None}) < count}

SelectQuorumForSigning(n, id) ==
    LET quorums == ScanQuorums(chain[n], Len(chain[n]) - SIGN_HEIGHT_OFFSET,
                               signingActiveQuorumCount)
    IN  {q \in quorums : \A p \in quorums : Score[<<q, id>>] <= Score[<<p, id>>]}

\* GetQuorum: any quorum mined on the node's chain.
GetQuorum(n, quorumHash) == {q \in Quorums : q = quorumHash /\ q \in Range(chain[n])}

\* Shares and recovered signatures are accepted from one quorum more, at the tip.
IsQuorumActive(n, q) ==
    q \in ScanQuorums(chain[n], Len(chain[n]), signingActiveQuorumCount + 1)

-----------------------------------------------------------------------------
Init ==
    /\ chain \in [Honest -> Chains]
    /\ vote = [n \in Honest |-> [id \in Ids |-> None]]
    /\ pendingSigns = [n \in Honest |-> {}]
    /\ recovered = [n \in Honest |-> {}]
    /\ sent = {}
    /\ wire = {}
    /\ restarts = 0

\* The node's chain grows, or is reorganised onto another branch.
UpdatedBlockTip(n) ==
    \E c \in Chains \ {chain[n]} :
        /\ chain' = [chain EXCEPT ![n] = c]
        /\ UNCHANGED <<vote, pendingSigns, recovered, sent, wire, restarts>>

\* Mutant: the vote database is not consulted.
MayVote_always(n, id, msg, allowReSign) == TRUE

\* Whether the vote database lets n sign msg for id.
MayVote(n, id, msg, allowReSign) ==
    \/ vote[n][id] = None
    \/ vote[n][id] = msg /\ allowReSign

\* Mutant: the share is made for the vote as it was read before it was written.
AsyncSignIfMember_staleVote(n, id, msg, quorumHash, allowReSign) ==
    /\ MayVote(n, id, msg, allowReSign)
    /\ \E q \in SelectQuorumForSigning(n, id) :
         pendingSigns' = [pendingSigns EXCEPT ![n] =
                           @ \cup {[q |-> q, id |-> id, msg |-> vote[n][id]]}]
    /\ vote' = [vote EXCEPT ![n][id] = msg]
    /\ UNCHANGED <<chain, recovered, sent, wire, restarts>>

\* AsyncSignIfMember, with the quorum that the RPC names or the one selected: the
\* vote is written before the share is queued.  The early returns (no quorum, no
\* member, a conflicting or a repeated vote, a recovered signature known) change
\* nothing.
AsyncSignIfMember(n, id, msg, quorumHash, allowReSign) ==
    /\ MayVote(n, id, msg, allowReSign)
    /\ ~HasRecoveredSigForId(n, id)
    /\ \E q \in IF quorumHash = None THEN SelectQuorumForSigning(n, id)
                                     ELSE GetQuorum(n, quorumHash) :
         /\ n \in Members[q]
         /\ pendingSigns' = [pendingSigns EXCEPT ![n] =
                               @ \cup {[q |-> q, id |-> id, msg |-> msg]}]
    /\ vote' = [vote EXCEPT ![n][id] = msg]
    /\ UNCHANGED <<chain, recovered, sent, wire, restarts>>

\* SignPendingSigShares, CreateSigShare and the part of ProcessSigShare that hands
\* the own share out.  Once a recovered signature is known the share stays here.
SignPendingSigShares(n) ==
    \E s \in pendingSigns[n] :
        /\ pendingSigns' = [pendingSigns EXCEPT ![n] = @ \ {s}]
        /\ sent' = IF HasRecoveredSigForId(n, s.id) THEN sent ELSE sent \cup {Share(s, n)}
        /\ UNCHANGED <<chain, vote, recovered, wire, restarts>>

\* ProcessRecoveredSig: the first recovered signature of an id is stored and
\* relayed, any other is dropped.
ProcessRecoveredSig(n, s) ==
    /\ ~HasRecoveredSigForId(n, s.id)
    /\ recovered' = [recovered EXCEPT ![n] = @ \cup {s}]
    /\ wire' = wire \cup {s}
    /\ UNCHANGED <<chain, vote, pendingSigns, sent, restarts>>

\* Mutant: one share too few is enough.
HasThreshold_offByOne(s) == Cardinality(Signers(s)) + 1 >= threshold

\* ProcessSigShare and TryRecoverSig on a member that gets the last of threshold
\* shares: one it accepts from a peer, or its own.
HasThreshold(s) == Cardinality(Signers(s)) >= threshold

TryRecoverSig(n, s) ==
    /\ n \in Members[s.q]
    /\ HasThreshold(s)
    /\ n \in Signers(s) \/ IsQuorumActive(n, s.q)
    /\ ProcessRecoveredSig(n, s)

ReceiveRecoveredSig(n, s) ==
    /\ s \in wire
    /\ IsQuorumActive(n, s.q)
    /\ ProcessRecoveredSig(n, s)

\* Mutant: votes are kept in memory only.
Restart_losesVotes(n) ==
    /\ restarts < MaxRestarts
    /\ restarts' = restarts + 1
    /\ pendingSigns' = [pendingSigns EXCEPT ![n] = {}]
    /\ vote' = [vote EXCEPT ![n] = [id \in Ids |-> None]]
    /\ UNCHANGED <<chain, recovered, sent, wire>>

\* The queue of shares to sign is lost, and so are the shares collected so far (a
\* node may use any part of `sent'); what is on disk is kept.
Restart(n) ==
    /\ restarts < MaxRestarts
    /\ restarts' = restarts + 1
    /\ pendingSigns' = [pendingSigns EXCEPT ![n] = {}]
    /\ UNCHANGED <<chain, vote, recovered, sent, wire>>

\* A faulty member signs every message (any part of `sent' may arrive), a faulty
\* node publishes what it recovers.
FaultyShare(n) ==
    /\ sent' = sent \cup {Share(s, n) : s \in {t \in Session : n \in Members[t.q]}}
    /\ UNCHANGED <<chain, vote, pendingSigns, recovered, wire, restarts>>

FaultyRecover(s) ==
    /\ HasThreshold(s)
    /\ wire' = wire \cup {s}
    /\ UNCHANGED <<chain, vote, pendingSigns, recovered, sent, restarts>>

Next ==
    \/ \E n \in Honest :
         \/ UpdatedBlockTip(n)
         \/ \E id \in Ids, msg \in Msgs, allowReSign \in BOOLEAN,
               quorumHash \in RpcQuorums \cup {None} :
              AsyncSignIfMember(n, id, msg, quorumHash, allowReSign)
         \/ SignPendingSigShares(n)
         \/ \E s \in Session : TryRecoverSig(n, s) \/ ReceiveRecoveredSig(n, s)
         \/ Restart(n)
    \/ \E n \in Nodes \ Honest : FaultyShare(n)
    \/ \E s \in Session : FaultyRecover(s)

Spec == Init /\ [][Next]_vars

-----------------------------------------------------------------------------
\* Type invariant.
TypeOK ==
    /\ chain \in [Honest -> Chains]
    /\ vote \in [Honest -> [Ids -> Msgs \cup {None}]]
    /\ pendingSigns \in [Honest -> SUBSET Session]
    /\ recovered \in [Honest -> SUBSET Session]
    /\ sent \subseteq SigShare
    /\ wire \subseteq Session
    /\ restarts \in 0 .. MaxRestarts

\* "each smartnode is participating in only one vote, even if it's a member of
\* multiple quorums": all shares that an honest member ever signs or queues for an
\* id are for the message it voted for, across quorums, re-signing and restarts.
HonestSignsItsVote ==
    /\ \A x \in sent : x.member \in Honest => x.msg = vote[x.member][x.id]
    /\ \A n \in Honest : \A s \in pendingSigns[n] : s.msg = vote[n][s.id]

\* "a majority is only possible on one quorum and one msgHash per id": no two
\* recovered signatures for one id carry different messages.
OneMsgHashPerId == \A r, s \in wire : r.id = s.id => r.msg = s.msg

\* Every node agrees: what one honest node holds as recovered for an id no other
\* honest node holds differently.
NodesAgree ==
    \A m, n \in Honest : \A r \in recovered[m], s \in recovered[n] :
        r.id = s.id => r.msg = s.msg

\* A vote on disk is never replaced, neither by a second request nor by a restart.
VoteIsFinal ==
    [][ \A n \in Honest, id \in Ids :
          vote[n][id] # None => vote'[n][id] = vote[n][id] ]_vars
=============================================================================
