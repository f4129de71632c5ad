------------------------ MODULE QuorumBlockProcessor ------------------------
(***************************************************************************)
(* CQuorumBlockProcessor (llmq/quorums_blockprocessor.cpp) together with   *)
(* the part of ConnectTip/DisconnectTip that wraps it in an EvoDB          *)
(* transaction and with CQuorumManager::ScanQuorums, its main reader.      *)
(*                                                                         *)
(* One LLMQ type is modelled: every map of the code is keyed by the type.  *)
(*                                                                         *)
(* The threads are the validation thread (holder of cs_main), the message  *)
(* handler that receives QFCOMMITMENT messages, the DKG phase handler that *)
(* finalizes commitments locally, the readers that call HasMinedCommitment *)
(* without cs_main (through CQuorumManager::HasQuorum), and a scanner that *)
(* runs ScanQuorums on a tip it read earlier.                              *)
(***************************************************************************)
EXTENDS Integers, Sequences, FiniteSets, SequencesExt

CONSTANTS
    Forks,                 \* what distinguishes sibling blocks of equal content
    Signers,               \* possible numbers of signers of a final commitment
    dkgInterval,           \* Consensus::LLMQParams
    dkgMiningWindowStart,
    dkgMiningWindowEnd,
    MaxHeight,             \* bound on the height of the active chain
    MaxUndo,               \* bound on the number of disconnected blocks
    MaxPool,               \* bound on commitments in the pool when one arrives
    Readers,               \* threads that call HasMinedCommitment without cs_main
    Scanners,              \* threads that call ScanQuorums
    NoQc                   \* "no commitment"

ASSUME ParamsAssumption ==
    /\ dkgInterval \in Nat \ {0}
    /\ dkgMiningWindowStart \in 1 .. dkgMiningWindowEnd
    /\ dkgMiningWindowEnd \in 1 .. (dkgInterval - 1)
    /\ Signers \subseteq Nat \ {0}
    /\ MaxHeight \in Nat
    /\ MaxUndo \in Nat
    /\ MaxPool \in Nat

VARIABLES
    \* validation thread
    chain,       \* chainActive above genesis: a sequence of blocks [fork, qc]
    db,          \* EvoDB, committed: mined commitments and the height index
    cur,         \* EvoDB, the view of curDBTransaction that every reader sees
    step,        \* what the validation thread is in the middle of
    undone,      \* number of blocks disconnected so far (for the bound only)
    \* guarded by minableCommitmentsCs
    byQuorum,    \* minableCommitmentsByQuorum: the commitment chosen per quorum
    minable,     \* minableCommitments
    cache,       \* mapHasMinedCommitmentCache: a set of [q, has]
    \* other threads
    msg,         \* QFCOMMITMENT that passed the checks and is being verified
    session,     \* quorum hash of the DKG session being run, or NoQc
    asking,      \* the readers and scanners this node runs; fixed from the start
    reader,      \* per reader: the value read from EvoDB, not yet cached
    scan         \* per scanner: the tip it works on and the quorums still to get

vars == <<chain, db, cur, step, undone, byQuorum, minable, cache, msg, session,
          asking, reader, scan>>
pool == <<byQuorum, minable>>
chainState == <<chain, db, cur, step, undone>>
queries == <<asking, reader, scan>>

(***************************************************************************)
(* Blocks and commitments.  The hash of a block is the sequence of blocks  *)
(* up to it, so it is injective the way a hash chain is.  A commitment is  *)
(* the quorum hash and its number of signers; 0 signers is the null one.   *)
(***************************************************************************)
BlockHash(c, h) == SubSeq(c, 1, h)

Commitment(qs) == [q : qs, n : Signers]
NullCommitment(q) == [q |-> q, n |-> 0]
IsNull(qc) == qc.n = 0
CountSigners(qc) == qc.n

\* Mutant: null commitments are treated as mined ones.
NothingMined_null(qc) == qc = NoQc

NothingMined(qc) == IF qc = NoQc THEN TRUE ELSE IsNull(qc)

QuorumHeight(h) == h - (h % dkgInterval)

\* GetQuorumBlockHash is null on the first block of an interval, whose own hash
\* is the quorum hash and is not in the chain yet.
HasQuorumBlockHash(c, h) == QuorumHeight(h) <= Len(c)
GetQuorumBlockHash(c, h) == BlockHash(c, QuorumHeight(h))

IsMiningPhase(h) == (h % dkgInterval) \in dkgMiningWindowStart .. dkgMiningWindowEnd

\* Quorum hashes a peer, the DKG thread or a reader can refer to.
KnownQuorums(c) == {BlockHash(c, h) : h \in {i \in 0 .. Len(c) : i % dkgInterval = 0}}

(***************************************************************************)
(* HasMinedCommitment: the cache first, then EvoDB.                        *)
(***************************************************************************)
Cached(q) == \E e \in cache : e.q = q
MinedIn(d, q) == \E m \in d.mined : m.qc.q = q
HasMinedCommitment(q) ==
    IF Cached(q) THEN [q |-> q, has |-> TRUE] \in cache ELSE MinedIn(cur, q)

\* Mutant: the entry of the cache is not erased.
Forget_keeps(c, q) == c

Forget(c, q) == {e \in c : e.q # q}
Remember(c, q, has) == Forget(c, q) \cup {[q |-> q, has |-> has]}

\* Mutant: IsCommitmentRequired without the mining phase.
IsCommitmentRequired_anytime(c, h) ==
    HasQuorumBlockHash(c, h) /\ ~HasMinedCommitment(GetQuorumBlockHash(c, h))

IsCommitmentRequired(c, h) ==
    /\ HasQuorumBlockHash(c, h)
    /\ IsMiningPhase(h)
    /\ ~HasMinedCommitment(GetQuorumBlockHash(c, h))

(***************************************************************************)
(* AddMinableCommitment.  A better commitment replaces the entry of        *)
(* minableCommitmentsByQuorum; the erase that follows names the new hash,  *)
(* so the commitment it replaces stays in minableCommitments.              *)
(***************************************************************************)
Chosen(q) == {c \in byQuorum : c.q = q}
AddMinableCommitment(fqc) ==
    LET old == Chosen(fqc.q)
        better == \A c \in old : CountSigners(fqc) > CountSigners(c)
    IN  /\ byQuorum' = IF better THEN (byQuorum \ old) \cup {fqc} ELSE byQuorum
        /\ minable' = IF better THEN (minable \ {fqc}) \cup {fqc} ELSE minable

\* GetMinableCommitment for the block after the tip: what a local miner may put in
\* it; empty when no commitment is to be mined.
GetMinableCommitment ==
    LET h == Len(chain) + 1
        q == GetQuorumBlockHash(chain, h)
    IN  IF ~IsCommitmentRequired(chain, h) THEN {}
        ELSE IF Chosen(q) = {} THEN {NullCommitment(q)} ELSE Chosen(q)

-----------------------------------------------------------------------------
EmptyDb == [mined |-> {}, byHeight |-> {}]
Idle == [op |-> "idle", block |-> NoQc]

Init ==
    /\ chain = <<>>
    /\ db = EmptyDb
    /\ cur = EmptyDb
    /\ step = Idle
    /\ undone = 0
    /\ byQuorum = {}
    /\ minable = {}
    /\ cache = {}
    /\ msg = NoQc
    /\ session = NoQc
    /\ asking \in SUBSET (Readers \cup Scanners)
    /\ reader = [r \in Readers |-> NoQc]
    /\ scan = [s \in Scanners |-> NoQc]

(***************************************************************************)
(* Validation thread: ProcessBlock inside ConnectBlock.  It asks           *)
(* HasMinedCommitment in IsCommitmentRequired and again in                 *)
(* ProcessCommitment; a reader may fill the cache between the two.  (Each  *)
(* question of this thread is one step: no other thread writes EvoDB.)     *)
(***************************************************************************)
\* IsCommitmentRequired asks HasMinedCommitment, which fills the cache.
CacheAfterCheck(h) ==
    IF HasQuorumBlockHash(chain, h)
    THEN LET q == GetQuorumBlockHash(chain, h) IN Remember(cache, q, HasMinedCommitment(q))
    ELSE cache

\* "bad-qc-not-allowed" or "bad-qc-missing", or a TestBlockValidity call
\* (fJustCheck): nothing changes but the cache.
CheckOnly ==
    /\ step = Idle
    /\ cache' = CacheAfterCheck(Len(chain) + 1)
    /\ UNCHANGED <<chainState, pool, msg, session, queries>>

ProcessBlock(b) ==
    /\ step = Idle
    /\ Len(chain) < MaxHeight
    /\ (b.qc # NoQc) <=> IsCommitmentRequired(chain, Len(chain) + 1)
    /\ cache' = CacheAfterCheck(Len(chain) + 1)
    /\ step' = [op |-> "check", block |-> b]
    /\ UNCHANGED <<chain, db, cur, undone, pool, msg, session, queries>>

\* Mutant: a mined commitment stays chosen for its quorum.
StoreCommitment_staysChosen(h, blockHash, qc) ==
    /\ cur' = [mined |-> cur.mined \cup {[qc |-> qc, block |-> blockHash]},
               byHeight |-> cur.byHeight \cup {[h |-> h, qh |-> QuorumHeight(h)]}]
    /\ cache' = Forget(cache, qc.q)
    /\ minable' = minable \ {qc}
    /\ UNCHANGED byQuorum

\* The end of ProcessCommitment: EvoDB, the cache and the pool.
StoreCommitment(h, blockHash, qc) ==
    /\ cur' = [mined |-> {m \in cur.mined : m.qc.q # qc.q}
                           \cup {[qc |-> qc, block |-> blockHash]},
               byHeight |-> {e \in cur.byHeight : e.h # h}
                              \cup {[h |-> h, qh |-> QuorumHeight(h)]}]
    /\ cache' = Forget(cache, qc.q)
    /\ byQuorum' = byQuorum \ Chosen(qc.q)
    /\ minable' = minable \ {qc}

\* "bad-qc-block"
ForThisQuorum(qc, h) ==
    /\ HasQuorumBlockHash(chain, h)
    /\ qc.q = GetQuorumBlockHash(chain, h)

ProcessCommitment ==
    LET h == Len(chain) + 1
        qc == step.block.qc
    IN  /\ step.op = "check"
        /\ step' = [op |-> "connect", block |-> step.block]
        /\ qc # NoQc => ForThisQuorum(qc, h)
        /\ IF NothingMined(qc)
           THEN UNCHANGED <<cur, cache, pool>>
           ELSE /\ ~HasMinedCommitment(qc.q)
                /\ IsMiningPhase(h)
                /\ StoreCommitment(h, Append(chain, step.block), qc)
        /\ UNCHANGED <<chain, db, undone, msg, session, queries>>

\* The commitment is for another quorum or a duplicate, or qc.Verify rejects it.
RejectCommitment ==
    LET h == Len(chain) + 1
        qc == step.block.qc
    IN  /\ step.op = "check"
        /\ qc # NoQc
        /\ step' = Idle
        /\ \/ ~ForThisQuorum(qc, h) /\ UNCHANGED cache
           \/ /\ ForThisQuorum(qc, h) /\ ~IsNull(qc)
              /\ cache' = Remember(cache, qc.q, HasMinedCommitment(qc.q))
        /\ UNCHANGED <<chain, db, cur, undone, pool, msg, session, queries>>

\* The rest of ConnectBlock succeeded: the transaction commits, the tip moves.
ConnectCommit ==
    /\ step.op = "connect"
    /\ chain' = Append(chain, step.block)
    /\ db' = cur
    /\ step' = Idle
    /\ UNCHANGED <<cur, undone, pool, cache, msg, session, queries>>

\* Mutant: the failed block's transaction is not rolled back.
ConnectFail_noRollback ==
    /\ step.op = "connect"
    /\ step' = Idle
    /\ UNCHANGED <<chain, db, cur, undone, pool, cache, msg, session, queries>>

\* The rest of ConnectBlock failed: CEvoDBScopedCommitter rolls back.
ConnectFail ==
    /\ step.op = "connect"
    /\ cur' = db
    /\ step' = Idle
    /\ UNCHANGED <<chain, db, undone, pool, cache, msg, session, queries>>

\* Mutants: the undone commitment does not return to the pool; it stays in the
\* height index.
UndoBlock_forgets ==
    /\ step = Idle /\ chain # <<>> /\ undone < MaxUndo
    /\ undone' = undone + 1
    /\ step' = [op |-> "disconnect", block |-> Last(chain)]
    /\ IF NothingMined(Last(chain).qc)
       THEN UNCHANGED <<cur, cache>>
       ELSE /\ cur' = [mined |-> {m \in cur.mined : m.qc.q # Last(chain).qc.q},
                       byHeight |-> {e \in cur.byHeight : e.h # Len(chain)}]
            /\ cache' = Forget(cache, Last(chain).qc.q)
    /\ UNCHANGED <<chain, db, pool, msg, session, queries>>

UndoBlock_keepsIndex ==
    /\ step = Idle /\ chain # <<>> /\ undone < MaxUndo
    /\ undone' = undone + 1
    /\ step' = [op |-> "disconnect", block |-> Last(chain)]
    /\ IF NothingMined(Last(chain).qc)
       THEN UNCHANGED <<cur, cache, pool>>
       ELSE /\ cur' = [cur EXCEPT !.mined = {m \in @ : m.qc.q # Last(chain).qc.q}]
            /\ cache' = Forget(cache, Last(chain).qc.q)
            /\ AddMinableCommitment(Last(chain).qc)
    /\ UNCHANGED <<chain, db, msg, session, queries>>

UndoBlock ==
    /\ step = Idle
    /\ chain # <<>>
    /\ undone < MaxUndo
    /\ undone' = undone + 1
    /\ step' = [op |-> "disconnect", block |-> Last(chain)]
    /\ LET qc == Last(chain).qc
       IN  IF NothingMined(qc)
           THEN UNCHANGED <<cur, cache, pool>>
           ELSE /\ cur' = [mined |-> {m \in cur.mined : m.qc.q # qc.q},
                           byHeight |-> {e \in cur.byHeight : e.h # Len(chain)}]
                /\ cache' = Forget(cache, qc.q)
                /\ AddMinableCommitment(qc)
    /\ UNCHANGED <<chain, db, msg, session, queries>>

DisconnectCommit ==
    /\ step.op = "disconnect"
    /\ chain' = Front(chain)
    /\ db' = cur
    /\ step' = Idle
    /\ UNCHANGED <<cur, undone, pool, cache, msg, session, queries>>

\* The rest of DisconnectBlock failed: EvoDB rolls back, while the pool and the
\* cache stay as UndoBlock left them.
DisconnectFail ==
    /\ step.op = "disconnect"
    /\ cur' = db
    /\ step' = Idle
    /\ UNCHANGED <<chain, db, undone, pool, cache, msg, session, queries>>

(***************************************************************************)
(* Message handler: ProcessMessage(QFCOMMITMENT).  The check against the   *)
(* local commitment and AddMinableCommitment are separate critical         *)
(* sections, with the signature verification between them.                 *)
(***************************************************************************)
\* The test "Check if we already got a better one locally" as it is coded.
AlreadyBetter(qc) ==
    \E c \in Chosen(qc.q) : c \in minable /\ CountSigners(c) <= CountSigners(qc)

ReceiveCommitment(qc) ==
    /\ msg = NoQc
    /\ qc.q \in KnownQuorums(chain)
    /\ Cardinality(minable) < MaxPool
    /\ ~AlreadyBetter(qc)
    /\ msg' = qc
    /\ UNCHANGED <<chainState, pool, cache, session, queries>>

DropCommitment(qc) ==
    /\ msg = NoQc
    /\ qc.q \in KnownQuorums(chain)
    /\ AlreadyBetter(qc)
    /\ UNCHANGED vars

VerifiedCommitment ==
    /\ msg # NoQc
    /\ AddMinableCommitment(msg)
    /\ msg' = NoQc
    /\ UNCHANGED <<chainState, cache, session, queries>>

InvalidCommitment ==
    /\ msg # NoQc
    /\ msg' = NoQc
    /\ UNCHANGED <<chainState, pool, cache, session, queries>>

\* DKG phase handler: a session is opened for a quorum block of the active chain
\* and runs to its end whatever happens to that block; its final commitment then
\* enters the pool.
InitNewQuorum(q) ==
    /\ session = NoQc
    /\ session' = q
    /\ UNCHANGED <<chainState, pool, cache, msg, queries>>

FinalizeCommitment(qc) ==
    /\ session # NoQc
    /\ qc.q = session
    /\ Cardinality(minable) < MaxPool
    /\ AddMinableCommitment(qc)
    /\ session' = NoQc
    /\ UNCHANGED <<chainState, cache, msg, queries>>

(***************************************************************************)
(* HasMinedCommitment outside cs_main, called by GetQuorum(quorumHash): the *)
(* read of EvoDB and the insertion into the cache are not in one critical  *)
(* section.                                                                *)
(***************************************************************************)
ReaderMiss(r, q) ==
    /\ reader[r] = NoQc
    /\ ~Cached(q)
    /\ reader' = [reader EXCEPT ![r] = [q |-> q, has |-> MinedIn(cur, q)]]
    /\ UNCHANGED <<chainState, pool, cache, msg, session, asking, scan>>

ReaderInsert(r) ==
    /\ reader[r] # NoQc
    /\ cache' = Remember(cache, reader[r].q, reader[r].has)
    /\ reader' = [reader EXCEPT ![r] = NoQc]
    /\ UNCHANGED <<chainState, pool, msg, session, asking, scan>>

(***************************************************************************)
(* ScanQuorums(llmqType, pindexStart): the height index of EvoDB is read   *)
(* for a block index chosen earlier, each height is resolved to an         *)
(* ancestor of that block, and GetQuorum, hence HasMinedCommitment, is     *)
(* called for each one.  When it is false GetQuorum returns nullptr and    *)
(* the assertion that follows aborts the process.                          *)
(***************************************************************************)
\* GetMinedCommitmentsUntilBlock(pindex): quorum blocks of entries up to its height.
MinedCommitmentsUntilBlock(pindex) ==
    {BlockHash(pindex, e.qh) : e \in {f \in cur.byHeight : f.h <= Len(pindex)}}

ScanAt(s, at) == scan[s] # NoQc /\ scan[s].at = at

ScanStart(s) ==
    /\ scan[s] = NoQc
    /\ scan' = [scan EXCEPT ![s] = [at |-> "tip", tip |-> chain, todo |-> {}, got |-> NoQc]]
    /\ UNCHANGED <<chainState, pool, cache, msg, session, asking, reader>>

ScanRead(s) ==
    /\ ScanAt(s, "tip")
    /\ scan' = [scan EXCEPT ![s].at = "get",
                            ![s].todo = MinedCommitmentsUntilBlock(scan[s].tip)]
    /\ UNCHANGED <<chainState, pool, cache, msg, session, asking, reader>>

ScanDone(s) ==
    /\ ScanAt(s, "get")
    /\ scan[s].todo = {}
    /\ scan' = [scan EXCEPT ![s] = NoQc]
    /\ UNCHANGED <<chainState, pool, cache, msg, session, asking, reader>>

\* GetQuorum answered: on to the next quorum, or assert(quorum != nullptr).
Got(sc, g) ==
    IF g.has THEN [sc EXCEPT !.at = "get", !.todo = @ \ {g.q}, !.got = NoQc]
             ELSE [sc EXCEPT !.at = "aborted"]

ScanGetCached(s, q) ==
    /\ ScanAt(s, "get")
    /\ Cached(q)
    /\ scan' = [scan EXCEPT ![s] = Got(@, [q |-> q, has |-> HasMinedCommitment(q)])]
    /\ UNCHANGED <<chainState, pool, cache, msg, session, asking, reader>>

ScanMiss(s, q) ==
    /\ ScanAt(s, "get")
    /\ ~Cached(q)
    /\ scan' = [scan EXCEPT ![s].at = "insert", ![s].got = [q |-> q, has |-> MinedIn(cur, q)]]
    /\ UNCHANGED <<chainState, pool, cache, msg, session, asking, reader>>

ScanInsert(s) ==
    /\ ScanAt(s, "insert")
    /\ cache' = Remember(cache, scan[s].got.q, scan[s].got.has)
    /\ scan' = [scan EXCEPT ![s] = Got(@, @.got)]
    /\ UNCHANGED <<chainState, pool, msg, session, asking, reader>>

-----------------------------------------------------------------------------
\* What a block may carry: nothing, or a commitment for some quorum of the chain.
BlockQcs == LET qs == KnownQuorums(chain)
            IN  {NoQc} \cup {NullCommitment(q) : q \in qs} \cup Commitment(qs)

Validation ==
    \/ CheckOnly
    \/ \E f \in Forks, qc \in BlockQcs : ProcessBlock([fork |-> f, qc |-> qc])
    \/ ProcessCommitment
    \/ RejectCommitment
    \/ ConnectCommit
    \/ ConnectFail
    \/ UndoBlock
    \/ DisconnectCommit
    \/ DisconnectFail

Network ==
    \/ \E qc \in Commitment(KnownQuorums(chain)) :
         ReceiveCommitment(qc) \/ DropCommitment(qc)
    \/ VerifiedCommitment
    \/ InvalidCommitment

Dkg ==
    \/ \E q \in KnownQuorums(chain) : InitNewQuorum(q)
    \/ \E qc \in Commitment({session}) : FinalizeCommitment(qc)

GetQuorum ==
    \E r \in Readers \cap asking : ReaderInsert(r) \/ \E q \in KnownQuorums(chain) : ReaderMiss(r, q)

ScanQuorums ==
    \E s \in Scanners \cap asking :
        \/ ScanStart(s) \/ ScanRead(s) \/ ScanDone(s) \/ ScanInsert(s)
        \/ ScanAt(s, "get") /\ \E q \in scan[s].todo : ScanGetCached(s, q) \/ ScanMiss(s, q)

\* A failed assertion ends the process.
Running == \A s \in Scanners : ~ScanAt(s, "aborted")

Next == Running /\ (Validation \/ Network \/ Dkg \/ GetQuorum \/ ScanQuorums)

Spec == Init /\ [][Next]_vars

-----------------------------------------------------------------------------
\* Type invariant.
TypeOK ==
    /\ Len(chain) <= MaxHeight
    /\ \A i \in 1 .. Len(chain) :
         /\ chain[i].fork \in Forks
         /\ chain[i].qc # NoQc => chain[i].qc.n \in Signers \cup {0}
    /\ step.op \in {"idle", "check", "connect", "disconnect"}
    /\ \A c \in byQuorum \cup minable : c.n \in Signers
    /\ \A e \in cache : e.has \in BOOLEAN

\* minableCommitments.at(...) in AddMinableCommitment and GetMinableCommitment
\* never throws: whatever the order of messages, locally finalized commitments,
\* mined and undone blocks, each quorum has at most one chosen commitment and it
\* is present in minableCommitments.
ChosenIsMinable ==
    /\ byQuorum \subseteq minable
    /\ \A c, d \in byQuorum : c.q = d.q => c = d

\* The commitments mined by the blocks of a chain, and the height index they imply.
MinedBy(c) ==
    [mined |-> {[qc |-> c[h].qc, block |-> BlockHash(c, h)] :
                  h \in {i \in 1 .. Len(c) : ~NothingMined(c[i].qc)}},
     byHeight |-> {[h |-> h, qh |-> QuorumHeight(h)] :
                  h \in {i \in 1 .. Len(c) : ~NothingMined(c[i].qc)}}]

\* No thread asks HasMinedCommitment without cs_main.
Alone == asking = {}

\* EvoDB is a function of the active chain: after any sequence of connected,
\* failed and disconnected blocks the mined commitments and the height index are
\* exactly those of the blocks of the active chain.
DbMatchesChain == Alone => db = MinedBy(chain)

\* The height index alone: whatever stale answer the cache of HasMinedCommitment
\* gives to the validation thread, the index that selects quorums for signing
\* lists exactly the blocks of the active chain that carry a commitment.
HeightIndexMatchesChain == db.byHeight = MinedBy(chain).byHeight

\* "After the non-null commitment, no other commitments are allowed" in
\* ProcessBlock: a session has at most one mined commitment, whoever asks
\* HasMinedCommitment meanwhile.
OneCommitmentPerSession ==
    \A i, j \in 1 .. Len(chain) :
        /\ ~NothingMined(chain[i].qc)
        /\ ~NothingMined(chain[j].qc)
        /\ chain[i].qc.q = chain[j].qc.q
        => i = j

\* The consensus rule of ProcessBlock: a commitment is for the quorum block of its
\* own interval on its own branch, is mined in the mining window, and until one is
\* mined every block of the window carries a null commitment, while afterwards
\* none carries any.
SessionProtocol ==
    Alone => \A h \in 1 .. Len(chain) :
        LET q == GetQuorumBlockHash(chain, h)
            minedBefore == \E i \in 1 .. (h - 1) :
                             ~NothingMined(chain[i].qc) /\ chain[i].qc.q = q
        IN  /\ (chain[h].qc # NoQc) <=> (IsMiningPhase(h) /\ ~minedBefore)
            /\ chain[h].qc # NoQc => chain[h].qc.q = q

\* HasMinedCommitment answers for the active chain: between block operations,
\* failed ones included, a cached answer is what EvoDB would say.
CacheMatchesDb ==
    Alone /\ step = Idle => \A e \in cache : e.has = MinedIn(db, e.q)

\* "if a reorg happened, we should allow to mine this commitment later": when a
\* block with a commitment has been disconnected, the commitment a miner would
\* put at that height has at least as many signers as the one undone.
UndoneCommitmentMinable ==
    [][ (Alone /\ step.op = "disconnect" /\ chain' # chain /\ ~NothingMined(step.block.qc))
        => \E c \in GetMinableCommitment' :
             CountSigners(c) >= CountSigners(step.block.qc) ]_vars

\* "assert(quorum != nullptr)" in ScanQuorums: every mined commitment found in the
\* height index resolves to a quorum, whatever the tip the scan started from.
ScanNeverAborts == \A s \in Scanners : scan[s] # NoQc => scan[s].at # "aborted"

\* "Check if we already got a better one locally": a commitment received from the
\* network is only dropped when the one held has at least as many signers.
OnlyWorseCommitmentsDropped ==
    \A qc \in Commitment(KnownQuorums(chain)) :
        AlreadyBetter(qc) => \E c \in Chosen(qc.q) : CountSigners(c) >= CountSigners(qc)
=============================================================================
