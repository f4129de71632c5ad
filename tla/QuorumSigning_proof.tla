------------------------ MODULE QuorumSigning_proof ------------------------
(***************************************************************************)
(* Theorems about QuorumSigning: agreement on one message per request id,  *)
(* for any number of nodes, ids, messages, quorums and restarts, from the  *)
(* single hypothesis that two sets of threshold members share an honest    *)
(* node; and the cardinalities from which that hypothesis follows.         *)
(***************************************************************************)
EXTENDS QuorumSigning, FiniteSetTheorems, TLAPS

\* The default prover of the leaves that name none.
USE SMTT(60)

\* Any two sets of members able to recover a signature share an honest node.
QuorumsIntersect ==
    \A p, q \in Quorums : \A A \in SUBSET Members[p], B \in SUBSET Members[q] :
        Cardinality(A) >= threshold /\ Cardinality(B) >= threshold
            => \E n \in Honest : n \in A /\ n \in B

(***************************************************************************)
(* The inductive invariant: shares come from members, a recovered          *)
(* signature is backed by threshold shares, and what a node holds as       *)
(* recovered is on the network.                                            *)
(***************************************************************************)
SharesFromMembers ==
    /\ \A x \in sent : x.member \in Members[x.q]
    /\ \A n \in Honest : \A s \in pendingSigns[n] : n \in Members[s.q]

WireIsBacked == \A s \in wire : HasThreshold(s)

RecoveredOnWire == \A n \in Honest : recovered[n] \subseteq wire

IInv ==
    /\ TypeOK
    /\ HonestSignsItsVote
    /\ SharesFromMembers
    /\ WireIsBacked
    /\ RecoveredOnWire

-----------------------------------------------------------------------------
LEMMA TypeStep == ASSUME TypeOK, [Next]_vars PROVE TypeOK'
<1> USE SigningAssumption DEF TypeOK, Session, SigShare, Share
<1>1. ASSUME NEW n \in Honest, UpdatedBlockTip(n) PROVE TypeOK'
  BY <1>1 DEF UpdatedBlockTip
<1>2. ASSUME NEW n \in Honest, NEW id \in Ids, NEW msg \in Msgs, NEW a \in BOOLEAN,
             NEW h \in RpcQuorums \cup {None}, AsyncSignIfMember(n, id, msg, h, a)
      PROVE  TypeOK'
  <2>1. PICK q \in Quorums :
          pendingSigns' = [pendingSigns EXCEPT ![n] = @ \cup {[q |-> q, id |-> id, msg |-> msg]}]
    BY <1>2, Zenon DEF AsyncSignIfMember, SelectQuorumForSigning, ScanQuorums, GetQuorum
  <2>2. /\ vote' = [vote EXCEPT ![n][id] = msg]
        /\ UNCHANGED <<chain, recovered, sent, wire, restarts>>
    BY <1>2, Zenon DEF AsyncSignIfMember
  <2> QED BY <2>1, <2>2
<1>3. ASSUME NEW n \in Honest, SignPendingSigShares(n) PROVE TypeOK'
  BY <1>3 DEF SignPendingSigShares
<1>4. ASSUME NEW n \in Honest, NEW s \in Session, ProcessRecoveredSig(n, s) PROVE TypeOK'
  BY <1>4, Zenon DEF ProcessRecoveredSig
<1>5. ASSUME NEW n \in Honest, Restart(n) PROVE TypeOK'
  BY <1>5 DEF Restart
<1>6. ASSUME NEW n \in Nodes, FaultyShare(n) PROVE TypeOK'
  BY <1>6 DEF FaultyShare
<1>7. ASSUME NEW s \in Session, FaultyRecover(s) PROVE TypeOK'
  BY <1>7, Zenon DEF FaultyRecover
<1>8. CASE UNCHANGED vars
  BY <1>8, Zenon DEF vars
<1> QED
  BY <1>1, <1>2, <1>3, <1>4, <1>5, <1>6, <1>7, <1>8
     DEF Next, TryRecoverSig, ReceiveRecoveredSig

-----------------------------------------------------------------------------
\* The set of signers of a session only grows, and stays finite.
LEMMA SignersGrow ==
    ASSUME NEW s, sent \subseteq sent', HasThreshold(s)
    PROVE  HasThreshold(s)'
<1>1. Signers(s) \subseteq Signers(s)'
  BY Zenon DEF Signers, Share
<1>2. IsFiniteSet(Signers(s)')
  BY SigningAssumption, FS_Subset, Zenon DEF Signers
<1>3. /\ Cardinality(Signers(s)) <= Cardinality(Signers(s)')
      /\ Cardinality(Signers(s)) \in Nat
      /\ Cardinality(Signers(s)') \in Nat
  BY <1>1, <1>2, FS_Subset, FS_CardinalityType, Zenon
<1> QED BY <1>3, SigningAssumption DEF HasThreshold

\* No step removes a share from the network.
LEMMA SentGrows == ASSUME [Next]_vars PROVE sent \subseteq sent'
BY DEF Next, vars, UpdatedBlockTip, AsyncSignIfMember, SignPendingSigShares,
       TryRecoverSig, ReceiveRecoveredSig, ProcessRecoveredSig, Restart,
       FaultyShare, FaultyRecover

\* The vote on disk is written once: AsyncSignIfMember returns before
\* WriteVoteForId when the node has voted, and a restart keeps the database.
LEMMA VoteStep ==
    ASSUME TypeOK, [Next]_vars, NEW n \in Honest, NEW id \in Ids, vote[n][id] # None
    PROVE  vote'[n][id] = vote[n][id]
<1>1. ASSUME NEW m \in Honest, NEW i \in Ids, NEW msg \in Msgs, NEW a \in BOOLEAN,
             NEW h \in RpcQuorums \cup {None}, AsyncSignIfMember(m, i, msg, h, a)
      PROVE  vote'[n][id] = vote[n][id]
  <2>1. vote' = [vote EXCEPT ![m][i] = msg] /\ MayVote(m, i, msg, a)
    BY <1>1, Zenon DEF AsyncSignIfMember
  <2>2. CASE m = n /\ i = id
    BY <2>1, <2>2, Zenon DEF TypeOK, MayVote
  <2>3. CASE m # n \/ i # id
    BY <2>1, <2>3, Zenon DEF TypeOK
  <2> QED BY <2>2, <2>3, Zenon
<1>2. CASE UNCHANGED vote
  BY <1>2, Zenon
<1> QED
  BY <1>1, <1>2, Zenon DEF Next, vars, UpdatedBlockTip, SignPendingSigShares, TryRecoverSig,
       ReceiveRecoveredSig, ProcessRecoveredSig, Restart, FaultyShare, FaultyRecover

LEMMA HonestStep ==
    ASSUME TypeOK, HonestSignsItsVote, [Next]_vars
    PROVE  HonestSignsItsVote'
<1> USE SigningAssumption
<1>0. TypeOK'
  BY TypeStep, Zenon
<1>1. /\ \A x \in sent : x.member \in Honest => x.msg = vote'[x.member][x.id]
      /\ \A n \in Honest : \A s \in pendingSigns[n] : s.msg = vote'[n][s.id]
  <2>1. ASSUME NEW x \in sent, x.member \in Honest
        PROVE  x.msg = vote'[x.member][x.id]
    <3>1. x.id \in Ids /\ x.msg \in Msgs /\ x.msg = vote[x.member][x.id]
      BY <2>1, Zenon DEF TypeOK, SigShare, HonestSignsItsVote
    <3> QED BY <2>1, <3>1, VoteStep, Zenon
  <2>2. ASSUME NEW n \in Honest, NEW s \in pendingSigns[n]
        PROVE  s.msg = vote'[n][s.id]
    <3>1. s.id \in Ids /\ s.msg \in Msgs /\ s.msg = vote[n][s.id]
      BY DEF TypeOK, Session, HonestSignsItsVote
    <3> QED BY <3>1, VoteStep, Zenon
  <2> QED BY <2>1, <2>2, Zenon
<1>2. ASSUME NEW m \in Honest, NEW i \in Ids, NEW msg \in Msgs, NEW a \in BOOLEAN,
             NEW h \in RpcQuorums \cup {None}, AsyncSignIfMember(m, i, msg, h, a)
      PROVE  HonestSignsItsVote'
  <2>1. PICK q : /\ vote' = [vote EXCEPT ![m][i] = msg]
                 /\ pendingSigns' = [pendingSigns EXCEPT ![m] =
                                       @ \cup {[q |-> q, id |-> i, msg |-> msg]}]
                 /\ sent' = sent
    BY <1>2, Zenon DEF AsyncSignIfMember
  <2>2. vote'[m][i] = msg
    BY <2>1, Zenon DEF TypeOK
  <2>3. ASSUME NEW n \in Honest, NEW s \in pendingSigns'[n]
        PROVE  s.msg = vote'[n][s.id]
    <3>1. s \in pendingSigns[n] \/ (n = m /\ s = [q |-> q, id |-> i, msg |-> msg])
      BY <2>1, <2>3, Zenon DEF TypeOK
    <3> QED BY <1>1, <2>2, <3>1
  <2> QED BY <1>1, <2>1, <2>3, Zenon DEF HonestSignsItsVote
<1>3. ASSUME NEW m \in Honest, SignPendingSigShares(m)
      PROVE  HonestSignsItsVote'
  <2>1. PICK s \in pendingSigns[m] :
          /\ pendingSigns' = [pendingSigns EXCEPT ![m] = @ \ {s}]
          /\ sent' = sent \/ sent' = sent \cup {Share(s, m)}
    BY <1>3, Zenon DEF SignPendingSigShares
  <2>2. ASSUME NEW n \in Honest, NEW t \in pendingSigns'[n]
        PROVE  t \in pendingSigns[n]
    BY <2>1, <2>2, Zenon DEF TypeOK
  <2>3. ASSUME NEW x \in sent', x.member \in Honest
        PROVE  x.msg = vote'[x.member][x.id]
    <3>1. CASE x \in sent
      BY <1>1, <2>3, <3>1, Zenon
    <3>2. CASE x = Share(s, m)
      <4>1. s.msg = vote'[m][s.id]
        BY <1>1, Zenon
      <4> QED BY <3>2, <4>1 DEF Share
    <3> QED BY <2>1, <2>3, <3>1, <3>2, Zenon
  <2> QED BY <1>1, <2>2, <2>3 DEF HonestSignsItsVote
<1>4. ASSUME NEW m \in Nodes \ Honest, FaultyShare(m)
      PROVE  HonestSignsItsVote'
  BY <1>1, <1>4 DEF FaultyShare, HonestSignsItsVote, Share
<1>5. ASSUME NEW m \in Honest, Restart(m)
      PROVE  HonestSignsItsVote'
  BY <1>1, <1>5, Zenon DEF Restart, HonestSignsItsVote, TypeOK
<1>6. CASE UNCHANGED <<sent, pendingSigns>>
  BY <1>1, <1>6, Zenon DEF HonestSignsItsVote
<1> QED
  BY <1>2, <1>3, <1>4, <1>5, <1>6
     DEF Next, vars, UpdatedBlockTip, TryRecoverSig, ReceiveRecoveredSig,
         ProcessRecoveredSig, FaultyRecover

LEMMA MembersStep ==
    ASSUME TypeOK, SharesFromMembers, [Next]_vars
    PROVE  SharesFromMembers'
<1> USE DEF SharesFromMembers
<1>1. ASSUME NEW m \in Honest, NEW i \in Ids, NEW msg \in Msgs, NEW a \in BOOLEAN,
             NEW h \in RpcQuorums \cup {None}, AsyncSignIfMember(m, i, msg, h, a)
      PROVE  SharesFromMembers'
  <2>1. PICK q : /\ m \in Members[q]
                 /\ pendingSigns' = [pendingSigns EXCEPT ![m] =
                                       @ \cup {[q |-> q, id |-> i, msg |-> msg]}]
                 /\ sent' = sent
    BY <1>1, Zenon DEF AsyncSignIfMember
  <2>2. ASSUME NEW n \in Honest, NEW s \in pendingSigns'[n]
        PROVE  n \in Members[s.q]
    <3>1. s \in pendingSigns[n] \/ (n = m /\ s = [q |-> q, id |-> i, msg |-> msg])
      BY <2>1, <2>2, Zenon DEF TypeOK
    <3> QED BY <2>1, <3>1
  <2> QED BY <2>1, <2>2, Zenon
<1>2. ASSUME NEW m \in Honest, SignPendingSigShares(m)
      PROVE  SharesFromMembers'
  BY <1>2 DEF SignPendingSigShares, Share, TypeOK
<1>3. ASSUME NEW m \in Nodes \ Honest, FaultyShare(m)
      PROVE  SharesFromMembers'
  BY <1>3 DEF FaultyShare, Share
<1>4. ASSUME NEW m \in Honest, Restart(m)
      PROVE  SharesFromMembers'
  BY <1>4, Zenon DEF Restart, TypeOK
<1>5. CASE UNCHANGED <<sent, pendingSigns>>
  BY <1>5, Zenon
<1> QED
  BY <1>1, <1>2, <1>3, <1>4, <1>5
    , Zenon DEF Next, vars, UpdatedBlockTip, TryRecoverSig, ReceiveRecoveredSig,
         ProcessRecoveredSig, FaultyRecover

LEMMA WireStep ==
    ASSUME TypeOK, WireIsBacked, RecoveredOnWire, [Next]_vars
    PROVE  WireIsBacked' /\ RecoveredOnWire'
<1>1. \A s \in wire : HasThreshold(s)'
  BY SentGrows, SignersGrow, Zenon DEF WireIsBacked
<1>2. ASSUME NEW n \in Honest, NEW s \in Session, TryRecoverSig(n, s) \/ ReceiveRecoveredSig(n, s)
      PROVE  WireIsBacked' /\ RecoveredOnWire'
  <2>1. HasThreshold(s)'
    <3>1. HasThreshold(s)
      BY <1>2, Zenon DEF TryRecoverSig, ReceiveRecoveredSig, WireIsBacked
    <3> QED BY <3>1, SentGrows, SignersGrow, Zenon
  <2>2. wire' = wire \cup {s} /\ recovered' = [recovered EXCEPT ![n] = @ \cup {s}]
    BY <1>2, Zenon DEF TryRecoverSig, ReceiveRecoveredSig, ProcessRecoveredSig
  <2>3. RecoveredOnWire'
    BY <2>2, Zenon DEF RecoveredOnWire, TypeOK
  <2> QED BY <1>1, <2>1, <2>2, <2>3, Zenon DEF WireIsBacked
<1>3. ASSUME NEW s \in Session, FaultyRecover(s)
      PROVE  WireIsBacked' /\ RecoveredOnWire'
  <2>1. HasThreshold(s)'
    BY <1>3, SentGrows, SignersGrow, Zenon DEF FaultyRecover
  <2> QED BY <1>1, <1>3, <2>1, Zenon DEF FaultyRecover, WireIsBacked, RecoveredOnWire
<1>4. CASE UNCHANGED <<wire, recovered>>
  BY <1>1, <1>4, Zenon DEF WireIsBacked, RecoveredOnWire
<1> QED
  BY <1>2, <1>3, <1>4
     DEF Next, vars, UpdatedBlockTip, AsyncSignIfMember, SignPendingSigShares, Restart,
         FaultyShare

LEMMA Invariance == Spec => []IInv
<1>1. Init => IInv
  BY SigningAssumption
     DEF Init, IInv, TypeOK, HonestSignsItsVote, SharesFromMembers, WireIsBacked,
         RecoveredOnWire
<1>2. IInv /\ [Next]_vars => IInv'
  BY TypeStep, HonestStep, MembersStep, WireStep, Zenon DEF IInv
<1> QED BY <1>1, <1>2, PTL DEF Spec

-----------------------------------------------------------------------------
\* Every variable keeps its type, for any number of nodes.
THEOREM TypeCorrect == Spec => []TypeOK
BY Invariance, PTL DEF IInv

\* "each smartnode is participating in only one vote, even if it's a member of
\* multiple quorums".
THEOREM HonestNodesSignTheirVote == Spec => []HonestSignsItsVote
BY Invariance, PTL DEF IInv

\* AsyncSignIfMember never overwrites a vote, across requests and restarts.
THEOREM VotesAreFinal == Spec => VoteIsFinal
<1>1. TypeOK /\ [Next]_vars =>
        [\A n \in Honest, id \in Ids :
           vote[n][id] # None => vote'[n][id] = vote[n][id]]_vars
  BY VoteStep, Zenon
<1> QED BY <1>1, TypeCorrect, PTL DEF Spec, VoteIsFinal

\* Agreement in a state of the invariant: two recovered signatures of one id have a
\* common honest signer, who signed one message.
LEMMA AgreementInState ==
    ASSUME QuorumsIntersect, IInv
    PROVE  OneMsgHashPerId /\ NodesAgree
<1>1. ASSUME NEW r \in wire, NEW s \in wire, r.id = s.id
      PROVE  r.msg = s.msg
  <2>1. r \in Session /\ s \in Session
    BY Zenon DEF IInv, TypeOK
  <2>2. ASSUME NEW t \in Session
        PROVE  Signers(t) \subseteq Members[t.q]
    BY <2>2, Zenon DEF IInv, SharesFromMembers, Signers, Share
  <2>3. Cardinality(Signers(r)) >= threshold /\ Cardinality(Signers(s)) >= threshold
    BY Zenon DEF IInv, WireIsBacked, HasThreshold
  <2>4. PICK n \in Honest : n \in Signers(r) /\ n \in Signers(s)
    BY <2>1, <2>2, <2>3, Zenon DEF QuorumsIntersect, Session
  <2>5. r.msg = vote[n][r.id] /\ s.msg = vote[n][s.id]
    BY <2>4, Zenon DEF Signers, Share, IInv, HonestSignsItsVote
  <2> QED BY <1>1, <2>5, Zenon
<1> QED BY <1>1, Zenon DEF OneMsgHashPerId, NodesAgree, IInv, RecoveredOnWire

\* "a majority is only possible on one quorum and one msgHash per id" holds for any
\* network whose signing quorums pairwise intersect in an honest node.
THEOREM Agreement == ASSUME QuorumsIntersect PROVE Spec => [](OneMsgHashPerId /\ NodesAgree)
<1>1. IInv => OneMsgHashPerId /\ NodesAgree
  BY AgreementInState, Zenon
<1> QED BY <1>1, Invariance, PTL

\* What the hypothesis asks of the parameters when all nodes sign in one quorum:
\* twice the threshold exceeds the members and the faulty among them.  It holds of
\* LLMQ_3_60 (2 of 3), LLMQ_5_60 (3 of 5) and LLMQ_20_60 (12 of 20) without faulty
\* members and fails of llmq200_2 (2 of up to 200).
THEOREM ThresholdIntersects ==
    ASSUME NEW q, Quorums = {q},
           2 * threshold > Cardinality(Members[q]) + Cardinality(Members[q] \ Honest)
    PROVE  QuorumsIntersect
<1> DEFINE M == Members[q]
<1>1. IsFiniteSet(M) /\ M \subseteq Nodes /\ threshold \in Nat
  BY SigningAssumption, FS_Subset, Zenon
<1>2. SUFFICES ASSUME NEW A \in SUBSET M, NEW B \in SUBSET M,
                      Cardinality(A) >= threshold, Cardinality(B) >= threshold,
                      A \cap B \subseteq M \ Honest
               PROVE  FALSE
  BY Zenon DEF QuorumsIntersect
<1>3. IsFiniteSet(A) /\ IsFiniteSet(B) /\ IsFiniteSet(M \ Honest) /\ IsFiniteSet(A \cap B)
      /\ IsFiniteSet(A \cup B)
  BY <1>1, FS_Subset, FS_Union, Zenon
<1>4. Cardinality(A \cup B) = Cardinality(A) + Cardinality(B) - Cardinality(A \cap B)
  BY <1>3, FS_Union, Zenon
<1>5. Cardinality(A \cup B) <= Cardinality(M)
  BY <1>1, FS_Subset, Zenon
<1>6. Cardinality(A \cap B) <= Cardinality(M \ Honest)
  BY <1>2, <1>3, FS_Subset, Zenon
<1>7. /\ Cardinality(A) \in Nat /\ Cardinality(B) \in Nat /\ Cardinality(M) \in Nat
      /\ Cardinality(A \cap B) \in Nat /\ Cardinality(M \ Honest) \in Nat
      /\ Cardinality(A \cup B) \in Nat
  BY <1>1, <1>3, FS_CardinalityType, Zenon
<1> HIDE DEF M
<1> QED BY <1>1, <1>2, <1>4, <1>5, <1>6, <1>7 DEF M
=============================================================================
