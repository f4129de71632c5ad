-------------------- MODULE QuorumBlockProcessor_proof --------------------
(***************************************************************************)
(* Theorems about QuorumBlockProcessor for every choice of the constants:  *)
(* any number of readers and scanners, any DKG window, chains of any       *)
(* height and reorganisations of any depth.                                *)
(***************************************************************************)
EXTENDS QuorumBlockProcessor, SequenceTheorems, TLAPS

\* The default prover of the leaves that name none.
USE SMTT(60)

-----------------------------------------------------------------------------
(* The pool of minable commitments.                                        *)

\* AddMinableCommitment keeps one chosen commitment per quorum, present in
\* minableCommitments, whatever is in the pool.
LEMMA AddMinableKeepsChosen ==
    ASSUME NEW fqc, ChosenIsMinable, AddMinableCommitment(fqc)
    PROVE  ChosenIsMinable'
BY Zenon DEF ChosenIsMinable, AddMinableCommitment, Chosen

\* ProcessCommitment erases a mined commitment from both maps.
LEMMA StoreCommitmentKeepsChosen ==
    ASSUME NEW h, NEW blockHash, NEW qc, ChosenIsMinable,
           StoreCommitment(h, blockHash, qc)
    PROVE  ChosenIsMinable'
BY Zenon DEF ChosenIsMinable, StoreCommitment, Chosen

\* A step that leaves both maps alone keeps the invariant.
LEMMA PoolUnchangedKeepsChosen ==
    ASSUME ChosenIsMinable, UNCHANGED pool
    PROVE  ChosenIsMinable'
BY Zenon DEF ChosenIsMinable, pool

LEMMA ChosenIsMinableStep ==
    ASSUME ChosenIsMinable, [Next]_vars
    PROVE  ChosenIsMinable'
<1> USE PoolUnchangedKeepsChosen
<1>1. CASE Validation
  <2>1. CASE CheckOnly
    BY <2>1, Zenon DEF CheckOnly
  <2>2. ASSUME NEW b, ProcessBlock(b)
        PROVE  ChosenIsMinable'
    BY <2>2, Zenon DEF ProcessBlock
  <2>3. CASE ConnectCommit \/ ConnectFail \/ DisconnectCommit \/ DisconnectFail
    BY <2>3, Zenon DEF ConnectCommit, ConnectFail, DisconnectCommit, DisconnectFail
  <2>4. CASE UndoBlock
    BY <2>4, AddMinableKeepsChosen, ZenonT(60) DEF UndoBlock, pool
  <2>5. CASE ProcessCommitment
    <3>1. CASE NothingMined(step.block.qc)
      BY <2>5, <3>1, ZenonT(60) DEF ProcessCommitment, pool
    <3>2. CASE ~NothingMined(step.block.qc)
      BY <2>5, <3>2, StoreCommitmentKeepsChosen DEF ProcessCommitment
    <3> QED BY <3>1, <3>2, ZenonT(60)
  <2>6. CASE RejectCommitment
    BY <2>6, Zenon DEF RejectCommitment
  <2> QED BY <1>1, <2>1, <2>2, <2>3, <2>4, <2>5, <2>6, Zenon DEF Validation
<1>2. CASE Network
  <2>1. ASSUME NEW qc, ReceiveCommitment(qc) \/ DropCommitment(qc)
        PROVE  ChosenIsMinable'
    BY <2>1, Zenon DEF ReceiveCommitment, DropCommitment, vars, pool
  <2>2. CASE VerifiedCommitment
    BY <2>2, AddMinableKeepsChosen, ZenonT(60) DEF VerifiedCommitment
  <2>3. CASE InvalidCommitment
    BY <2>3, Zenon DEF InvalidCommitment
  <2> QED BY <1>2, <2>1, <2>2, <2>3 DEF Network
<1>3. CASE Dkg
  BY <1>3, AddMinableKeepsChosen, ZenonT(60) DEF Dkg, InitNewQuorum, FinalizeCommitment
<1>4. CASE GetQuorum
  BY <1>4, Zenon DEF GetQuorum, ReaderInsert, ReaderMiss
<1>5. CASE ScanQuorums
  BY <1>5, Zenon DEF ScanQuorums, ScanStart, ScanRead, ScanDone, ScanInsert, ScanGetCached, ScanMiss
<1>6. CASE UNCHANGED vars
  BY <1>6, Zenon DEF vars, pool
<1> QED BY <1>1, <1>2, <1>3, <1>4, <1>5, <1>6 DEF Next

\* minableCommitments.at() never throws in AddMinableCommitment or
\* GetMinableCommitment, in any interleaving of any number of threads.
THEOREM ChosenAlwaysMinable == Spec => []ChosenIsMinable
<1>1. Init => ChosenIsMinable
  BY Zenon DEF Init, ChosenIsMinable
<1> QED BY <1>1, ChosenIsMinableStep, PTL DEF Spec

-----------------------------------------------------------------------------
(* The height index of EvoDB.                                              *)

\* The height index that the blocks of a chain imply.
IndexOf(c) == {[h |-> h, qh |-> QuorumHeight(h)] :
                 h \in {i \in 1 .. Len(c) : ~NothingMined(c[i].qc)}}

\* The chain is a sequence (of whatever blocks it holds).
IsChain == \E S : chain \in Seq(S)

\* The inductive strengthening: the committed index follows the chain, and the
\* open EvoDB transaction is one block ahead or one block behind while a block is
\* being connected or disconnected.
IndexInv ==
    /\ IsChain
    /\ db.byHeight = IndexOf(chain)
    /\ step.op \in {"idle", "check", "connect", "disconnect"}
    /\ step.op \in {"idle", "check"} => cur.byHeight = IndexOf(chain)
    /\ step.op = "connect" => cur.byHeight = IndexOf(Append(chain, step.block))
    /\ step.op = "disconnect" => /\ chain # <<>>
                                 /\ cur.byHeight = IndexOf(Front(chain))

\* Connecting a block adds its height to the index exactly when it mines one.
LEMMA IndexOfAppend ==
    ASSUME NEW S, NEW c \in Seq(S), NEW b
    PROVE  IndexOf(Append(c, b)) =
             IF NothingMined(b.qc) THEN IndexOf(c)
             ELSE {e \in IndexOf(c) : e.h # Len(c) + 1}
                    \cup {[h |-> Len(c) + 1, qh |-> QuorumHeight(Len(c) + 1)]}
<1> DEFINE d == Append(c, b)
<1>1. /\ Len(d) = Len(c) + 1
      /\ Len(c) \in Nat
      /\ \A i \in 1 .. Len(c) : d[i] = c[i]
      /\ d[Len(c) + 1] = b
  <2>1. c \in Seq(S \cup {b}) /\ b \in S \cup {b}
    OBVIOUS
  <2> QED BY <2>1
<1> HIDE DEF d
<1>2. \A i : (i \in 1 .. Len(d) /\ ~NothingMined(d[i].qc)) <=>
             \/ (i \in 1 .. Len(c) /\ ~NothingMined(c[i].qc))
             \/ (i = Len(c) + 1 /\ ~NothingMined(b.qc))
  BY <1>1
<1>3. \A e \in IndexOf(c) : e.h # Len(c) + 1
  BY <1>1 DEF IndexOf
<1>4. CASE NothingMined(b.qc)
  <2>1. {i \in 1 .. Len(d) : ~NothingMined(d[i].qc)} = {i \in 1 .. Len(c) : ~NothingMined(c[i].qc)}
    BY <1>2, <1>4
  <2> QED BY <2>1, <1>4, ZenonT(60) DEF IndexOf, d
<1>5. CASE ~NothingMined(b.qc)
  <2>1. {i \in 1 .. Len(d) : ~NothingMined(d[i].qc)}
          = {i \in 1 .. Len(c) : ~NothingMined(c[i].qc)} \cup {Len(c) + 1}
    BY <1>1, <1>2, <1>5
  <2>2. IndexOf(d) = IndexOf(c) \cup {[h |-> Len(c) + 1, qh |-> QuorumHeight(Len(c) + 1)]}
    BY <2>1, Zenon DEF IndexOf
  <2> QED BY <2>2, <1>3, <1>5 DEF d
<1> QED BY <1>4, <1>5, ZenonT(60)

\* Disconnecting the last block removes its height from the index.
LEMMA IndexOfFront ==
    ASSUME NEW S, NEW c \in Seq(S), c # <<>>
    PROVE  IndexOf(Front(c)) =
             IF NothingMined(Last(c).qc) THEN IndexOf(c)
             ELSE {e \in IndexOf(c) : e.h # Len(c)}
<1>1. /\ Len(c) \in Nat \ {0}
      /\ Front(c) \in Seq(S)
      /\ Len(Front(c)) = Len(c) - 1
      /\ \A i \in 1 .. (Len(c) - 1) : Front(c)[i] = c[i]
  <2>1. Len(c) \in Nat \ {0}
    BY EmptySeq, Zenon
  <2> DEFINE n == Len(c) - 1
  <2>2. n \in Nat /\ n <= Len(c) /\ Front(c) = SubSeq(c, 1, n)
    BY <2>1 DEF Front
  <2> HIDE DEF n
  <2>3. SubSeq(c, 1, n) \in Seq(S)
    BY <2>2
  <2>4. Len(SubSeq(c, 1, n)) = n
    BY <2>2
  <2>5. \A i \in 1 .. n : SubSeq(c, 1, n)[i] = c[i]
    BY <2>2
  <2> QED BY <2>1, <2>2, <2>3, <2>4, <2>5 DEF n
<1>2. Last(c) = c[Len(c)]
  BY Zenon DEF Last
<1>3. \A i : (i \in 1 .. Len(Front(c)) /\ ~NothingMined(Front(c)[i].qc)) <=>
             (i \in 1 .. Len(c) /\ ~NothingMined(c[i].qc) /\ i # Len(c))
  BY <1>1
<1>4. {i \in 1 .. Len(Front(c)) : ~NothingMined(Front(c)[i].qc)}
        = {i \in 1 .. Len(c) : ~NothingMined(c[i].qc)} \ {Len(c)}
  BY <1>3, ZenonT(60)
<1>5. IndexOf(Front(c)) = {e \in IndexOf(c) : e.h # Len(c)}
  BY <1>4 DEF IndexOf
<1>6. NothingMined(Last(c).qc) => \A e \in IndexOf(c) : e.h # Len(c)
  BY <1>2 DEF IndexOf
<1> QED BY <1>5, <1>6, ZenonT(60)

LEMMA IndexInvStep ==
    ASSUME IndexInv, [Next]_vars
    PROVE  IndexInv'
<1> PICK S : chain \in Seq(S)
  BY Zenon DEF IndexInv, IsChain
<1> USE DEF IsChain
<1>1. CASE UNCHANGED chainState
  BY <1>1, ZenonT(60) DEF IndexInv, chainState
<1>2. ASSUME NEW b, ProcessBlock(b)
      PROVE  IndexInv'
  <2>1. step.op = "idle" /\ step' = [op |-> "check", block |-> b] /\ UNCHANGED <<chain, db, cur>>
    BY <1>2, ZenonT(60) DEF ProcessBlock, Idle
  <2> QED BY <2>1, ZenonT(60) DEF IndexInv
<1>3. CASE ProcessCommitment
  <2> DEFINE b == step.block
  <2>1. /\ step.op = "check" /\ step' = [op |-> "connect", block |-> b]
        /\ UNCHANGED <<chain, db>>
    BY <1>3, ZenonT(60) DEF ProcessCommitment, IndexInv
  <2>2. cur'.byHeight = IndexOf(Append(chain, b))
    <3>1. cur.byHeight = IndexOf(chain)
      BY <2>1, Zenon DEF IndexInv
    <3>2. cur'.byHeight =
            IF NothingMined(b.qc) THEN cur.byHeight
            ELSE {e \in cur.byHeight : e.h # Len(chain) + 1}
                   \cup {[h |-> Len(chain) + 1, qh |-> QuorumHeight(Len(chain) + 1)]}
      <4>1. CASE NothingMined(b.qc)
        BY <1>3, <4>1, ZenonT(60) DEF ProcessCommitment
      <4>2. CASE ~NothingMined(b.qc)
        BY <1>3, <4>2 DEF ProcessCommitment, StoreCommitment
      <4> QED BY <4>1, <4>2, Zenon
    <3> QED BY <3>1, <3>2, IndexOfAppend, Zenon
  <2> QED BY <2>1, <2>2, ZenonT(60) DEF IndexInv
<1>4. CASE RejectCommitment
  <2>1. step.op = "check" /\ step' = Idle /\ UNCHANGED <<chain, db, cur>>
    BY <1>4, ZenonT(60) DEF RejectCommitment
  <2> QED BY <2>1, ZenonT(60) DEF IndexInv, Idle
<1>5. CASE ConnectCommit
  <2>1. chain' \in Seq(S \cup {step.block})
    BY <1>5 DEF ConnectCommit
  <2> QED BY <1>5, <2>1, ZenonT(60) DEF ConnectCommit, IndexInv, Idle
<1>6. CASE ConnectFail \/ DisconnectFail
  BY <1>6 DEF ConnectFail, DisconnectFail, IndexInv, Idle
<1>7. CASE UndoBlock
  <2>1. /\ step.op = "idle" /\ step' = [op |-> "disconnect", block |-> Last(chain)] /\ chain # <<>>
        /\ UNCHANGED <<chain, db>>
    BY <1>7, ZenonT(60) DEF UndoBlock, Idle
  <2>2. cur'.byHeight = IndexOf(Front(chain))
    <3>1. cur.byHeight = IndexOf(chain)
      BY <2>1, ZenonT(60) DEF IndexInv
    <3>2. cur'.byHeight = IF NothingMined(Last(chain).qc) THEN cur.byHeight
                          ELSE {e \in cur.byHeight : e.h # Len(chain)}
      <4>1. CASE NothingMined(Last(chain).qc)
        BY <1>7, <4>1, ZenonT(60) DEF UndoBlock
      <4>2. CASE ~NothingMined(Last(chain).qc)
        BY <1>7, <4>2 DEF UndoBlock
      <4> QED BY <4>1, <4>2, ZenonT(60)
    <3> QED BY <2>1, <3>1, <3>2, IndexOfFront
  <2> QED BY <2>1, <2>2, ZenonT(60) DEF IndexInv
<1>8. CASE DisconnectCommit
  <2>1. chain' \in Seq(S)
    BY <1>8 DEF DisconnectCommit, IndexInv, Front
  <2> QED BY <1>8, <2>1, ZenonT(60) DEF DisconnectCommit, IndexInv, Idle
<1>9. CASE CheckOnly
  BY <1>9, <1>1, ZenonT(60) DEF CheckOnly
<1>10. CASE Network
  BY <1>10, <1>1, ZenonT(60) DEF Network, ReceiveCommitment, DropCommitment, VerifiedCommitment,
                    InvalidCommitment, vars, chainState
<1>11. CASE Dkg
  BY <1>11, <1>1, ZenonT(60) DEF Dkg, InitNewQuorum, FinalizeCommitment
<1>12. CASE GetQuorum
  BY <1>12, <1>1, ZenonT(60) DEF GetQuorum, ReaderInsert, ReaderMiss
<1>13. CASE ScanQuorums
  BY <1>13, <1>1, ZenonT(60) DEF ScanQuorums, ScanStart, ScanRead, ScanDone, ScanInsert,
                     ScanGetCached, ScanMiss
<1>14. CASE UNCHANGED vars
  BY <1>14, <1>1, ZenonT(60) DEF vars, chainState
<1> QED
  BY <1>2, <1>3, <1>4, <1>5, <1>6, <1>7, <1>8, <1>9, <1>10, <1>11, <1>12, <1>13, <1>14
    , ZenonT(60) DEF Next, Validation

\* Whatever stale answers unlocked readers leave in the cache, the height index
\* from which ScanQuorums selects quorums lists exactly the commitments of the
\* active chain, through failed, connected and disconnected blocks.
THEOREM HeightIndexFollowsChain == Spec => []HeightIndexMatchesChain
<1>1. Init => IndexInv
  <2> SUFFICES ASSUME Init PROVE IndexInv
    BY Zenon
  <2>1. chain \in Seq({}) /\ IndexOf(chain) = {}
    BY DEF Init, IndexOf
  <2> QED BY <2>1, ZenonT(60) DEF Init, IndexInv, IsChain, EmptyDb, Idle
<1>2. IndexInv => HeightIndexMatchesChain
  BY Zenon DEF IndexInv, HeightIndexMatchesChain, MinedBy, IndexOf
<1> QED BY <1>1, <1>2, IndexInvStep, PTL DEF Spec
=============================================================================
