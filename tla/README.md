# TLA+ models of the Babacoin consensus services

This directory holds a verification project for the smartnode services of
Babacoin: long-living masternode quorums (LLMQ), threshold signing, ChainLocks,
and the parts of block validation they steer. The modules are translated from
the C++ under `src/src/`; `PROJECT.json` maps every definition to the lines it
stands for.

## The system

A node runs several threads over shared state that is guarded by a few locks:
`msghand` processes peers' messages; `sigshares` signs and recovers threshold
signatures; `isman` resolves InstantSend locks; `cl-schdlr` enforces and signs
ChainLocks; one `llmq-N` thread per quorum type runs key generation; RPC threads
submit blocks and query. `cs_main` guards the block index and the chain, each
manager has a `cs` of its own, and most hard cases come from what happens
between two critical sections of one operation.

| Part | State | Operations | Talks to |
|---|---|---|---|
| Mined commitments, `quorums_blockprocessor.cpp` | EvoDB entries by quorum and by height, cache of "is mined", pool of minable commitments | connect, reject, undo a block; receive or finalize a commitment; choose one for mining | validation, DKG, quorum selection |
| Quorum selection, `quorums.cpp` | caches of quorums | scan the active quorums for a tip, build a quorum | mined commitments, signing |
| Threshold signing, `quorums_signing.cpp` | recovered signatures and votes in LevelDB, lookup caches, queues | vote and sign, store, truncate, clean up, look up | shares, InstantSend, ChainLocks |
| Signature shares, `quorums_signing_shares.cpp` | shares, sessions, requests | sign, announce, request, recover | signing, peers |
| ChainLocks, `quorums_chainlocks.cpp` | best lock, best lock with a known block, last signed tip, seen locks | process a CLSIG, late header, enforce, sign, activate | signing, validation, sporks |
| Validation, `validation.cpp` | block index with failure and conflict flags, active chain | accept header, accept block, activate best chain, mark conflicting, reset failure | all of the above |
| InstantSend, `quorums_instantsend.cpp` | island locks, pending locks, non-locked transactions | sign inputs, sign lock, process, confirm, resolve conflicts | signing, mempool, ChainLocks |
| DKG, `quorums_dkgsession*.cpp` | session phases, contributions, complaints | six phases per interval | mined commitments |
| Smartnode list, `evo/deterministicmns.cpp` | list per block | apply and undo special transactions | EvoDB, quorums |
| CoinJoin, governance, sporks, network, mempool, wallet | | | see "Not modelled" |

What makes this code hard: reorganisations that undo quorum commitments;
stale cache fills by threads without `cs_main`; signatures that arrive through
three channels; members whose tips differ; restarts between writing a vote and
sending a share; locks that arrive before their block; a chain switch that
releases `cs_main` in the middle; expiry of entries under several keys. The
`hazards` of `PROJECT.json` list them at the lines where they bite.

## Modules

**QuorumBlockProcessor** models one LLMQ type. `chain` is the active chain, a
block being a fork label with an optional commitment; a block's hash is the
sequence of blocks up to it. `db` and `cur` are the committed and the current
EvoDB transaction. `ProcessBlock` is `ConnectBlock` up to the first check of the
commitments, `ProcessCommitment` or `RejectCommitment` the second one, which asks
`HasMinedCommitment` again; `ConnectCommit` and `ConnectFail` end the block.
`UndoBlock`, `DisconnectCommit` and `DisconnectFail` are `DisconnectTip`.
`byQuorum`, `minable` and `cache` are the maps under `minableCommitmentsCs`.
`ReceiveCommitment`, `DropCommitment`, `VerifiedCommitment` and
`InvalidCommitment` are the QFCOMMITMENT handler, split where it releases the
lock to verify; `InitNewQuorum` and `FinalizeCommitment` are the DKG thread;
`ReaderMiss`/`ReaderInsert` are `HasMinedCommitment` called without `cs_main`; the
`Scan...` actions are `ScanQuorums`, whose failed assertion is the state
"aborted". `asking` says which of these querying threads a behaviour has; it is
chosen at the start, so that one run covers validation with and without them.

**QuorumSigning** models the network of smartnodes: each honest node's active
chain, vote database, queue of shares to sign and recovered signatures, and the
shares and recovered signatures that were ever sent. A node may use any sent
message at any time or never, which covers loss, delay, repetition and reordering,
and also the shares a node drops when a session times out or it restarts. Nodes
outside `Honest` sign anything. `UpdatedBlockTip` moves a node to any of the
`Chains`, so reorganisations are included. `AsyncSignIfMember` selects the quorum
from the node's own chain `SIGN_HEIGHT_OFFSET` blocks below its tip, or takes the
one that the `quorum sign` RPC names; `Restart` loses the queue and keeps the disk.

**SigningManager** models the database of one node in detail: the five keys of a
recovered signature, votes and their time keys, the lookup caches by id and by
hash (a lookup is a read of the cache, a read of LevelDB and a cache fill,
interruptible in between), the queues of received and of reconstructed signatures,
the worker that stores and cleans up, truncation by InstantSend, and the clock with
`uint32_t` arithmetic. Simplifications: truncation is one step (a write that
falls between its read and its batch needs a stale answer about the id and only
removes keys); the caches never evict; the clock only moves forward; the batch
limit of 32 and the five seconds between clean-ups are left out, since a batch or
a clean-up may come at any time; `hasSigForSessionCache`, which nothing here asks,
is left out.

**ChainLocks** models `CChainLocksHandler` on one node with the chain selection of
`validation.cpp`. A block is the sequence of fork labels leading to it, so
ancestors are prefixes. `AcceptBlockHeader`, `RejectBlockHeader` and `AcceptBlock`
are the arrival of headers and blocks; `ActivateBestChain` runs one step per
holding of `cs_main` and keeps its target between steps. A CLSIG passes the spork
(`ReceiveClsig`) or the comparison with what the node signed last
(`HandleNewRecoveredSig`), and then the critical sections of
`ProcessNewChainLock`: `ProcessActiveState`, `CheckSeen`, `LookupBlock` or
`RejectClsig`, and the update `ProcessNewChainLock`. `StartRound` to `SkipSigning`
are a round of `cl-schdlr`. `TriggerArrives` is the superblock trigger whose
absence makes a block fail. `RejectClsig` leaves the hash in `seenChainLocks`, as
the code does, also for a valid CLSIG that comes before the node's chain can
select its quorum. A CLSIG is named by its block: members sign height and hash of
one block, so the branches "height does not match" are left out. Every block has
the same work, and which of several best candidates is taken is left open.
`Candidates` is larger than `setBlockIndexCandidates`: blocks that the code has
removed from the set are skipped by `FindMostWorkChain` in the model. Blocks in the
model break no rule besides the two of `ConnectBlockFails`.

`MC...` modules give the constants their values. `..._proof` modules hold the
theorems.

Definitions named `X_something` before a definition `X` are faulty variants of it:
each one states a plausible slip in the code that a property has to notice.

## Runs

| Run | Checks |
|---|---|
| `commitments` | Connecting, rejecting, failing and undoing blocks while commitments arrive: EvoDB equals the content of the active chain (`DbMatchesChain`), the cache agrees with it (`CacheMatchesDb`), at most one commitment per session, mined in its window (`SessionProtocol`), the chosen one is in the pool (`ChosenIsMinable`), an undone one is minable again (`UndoneCommitmentMinable`). These are stated for nodes on which nobody queries without `cs_main`, except `ChosenIsMinable`, which holds with readers and scanners too, as does the height index (`HeightIndexMatchesChain`). |
| `commitments_readers` | *Violated*: `OneCommitmentPerSession` with a reader that fills the cache late. |
| `commitments_scan` | *Violated*: the assertion of `ScanQuorums` (`ScanNeverAborts`). |
| `commitments_better` | *Violated*: the better commitment is dropped (`OnlyWorseCommitmentsDropped`). |
| `signing` | Two overlapping quorums, one replacing the other on some nodes' chains, one faulty node, threshold three: shares follow votes (`HonestSignsItsVote`), one message per id (`OneMsgHashPerId`), nodes agree (`NodesAgree`), votes are final (`VoteIsFinal`). |
| `signing_disjoint` | *Violated*: `OneMsgHashPerId` when the two quorums have no member in common. |
| `recsigs_store` | The keys of a signature stay together although a stale answer may let a second signature of the id overwrite it (`KeysAgree`); each vote has one time key (`VoteTimeKeys`); two votes for different messages of one id are more than `maxAge` apart (`ConflictingVotesApart`). |
| `recsigs_hash` | *Violated*: a truncated signature is still known by its hash (`KnownByHash`), by a lookup interrupted between LevelDB and the cache. |
| `chainlocks_enforce` | A locked block and a longer branch, CLSIGs from peers and from the local quorum, spork 19 off and on, a late trigger: an announced block stays (`NotifiedIsFinal`), the locked chain becomes active (`LockedChainActivated`). |
| `chainlocks_best` | *Violated*: the best lock is the highest relayed (`BestIsHighest`), by two threads between check and update. |
| `chainlocks_header` | *Violated*: a lock whose header comes late is enforced (`LateHeaderEnforced`), by an RPC thread that brings the header between the lookup and the update. |
| `chainlocks_stale` | *Violated*: locks dropped by a re-activation are not enforced (`StaleLocksNotEnforced`), by the marks they left on blocks. |

Each violated property quotes a comment or an assertion of the code; the
`findings` of `PROJECT.json` describe the runs.

### Bounds

The `commitments` run has an interval of 4 with the window 2..3, six blocks and two
disconnections: one full session and the start of the next, mined, undone and
mined again with another commitment. Sibling blocks differ in the commitment they
carry; there is one fork label. Two signer counts give a better and a worse
commitment, and the pool takes new ones while it holds fewer than two. With a
reader or a scanner the constraint `QueryBound` keeps chains to three blocks, one
disconnection and one signer count, which still contains a commitment mined,
undone and mined again. The violated runs use an interval of 3.

In the signing runs two messages compete for one id (a third adds nothing to a
disagreement), two chains differ in whether the newer quorum is mined, and one
restart happens on any node. `recsigs_store` has two signatures of one id from two
quorums, two queued signatures, two calls of the listeners and a clock that moves
two ticks with `maxAge` 1, so that entries and votes expire while newer ones are
written. Its `TimeModulus` is 16; the clock stays above `maxAge`, as it does with
the default of seven days, so the wrap of `endTime` is not exercised.

The ChainLocks tree has a locked block and a branch that becomes longer; two spork
changes include a re-activation. `chainlocks_best` has one more block and two
locks at different heights. Locks are on one branch: that quorums do not lock two
is what `QuorumSigning` is about. With a second lock on the other branch the first
one's marks stand in the way of the second, which `chainlocks_stale` shows at its
root. `NotifiedIsFinal` is stated until spork 19 is switched on a second time: a
round of `EnforceBestChainLock` that read a lock before the reset may announce it
afterwards.

Deadlock is checked, except in the runs with a scanner of mined commitments
(`commitments`, `commitments_scan`), where the failed assertion of `ScanQuorums`
really ends the process.

### Fairness

Only `ChainLocks` assumes fairness: the handler's scheduler runs a round every five
seconds, and a CLSIG or a chain activation once begun is completed. Nothing is
assumed about peers, sporks or triggers.

No liveness is claimed of signing, because the code does not provide it. A share
that a restart lost is not signed again in general: InstantSend passes
`allowReSign` only from `BlockConnected`, its retries of unlocked transactions do
not, and ChainLocks never signs a height twice. A threshold of shares need not
meet on one node: sessions are dropped 60 seconds after their last share, a restart
loses what was collected, and shares go to the recovery members only.

## Proofs

Both proof modules are checked by TLAPS with the SMT, Zenon and LS4 back ends.

`QuorumSigning_proof`: from `SigningAssumption`, for any nodes, quorums and ids.
- `TypeCorrect`, the type invariant.
- `HonestNodesSignTheirVote`. A share is only queued after the vote is written and
  votes are never replaced, so the invariant is the property with type correctness.
- `VotesAreFinal`, the action property, from the guard of `AsyncSignIfMember`.
- `Agreement`: if any two sets of `threshold` members of quorums share an honest
  node (`QuorumsIntersect`), `OneMsgHashPerId` and `NodesAgree` hold. Both
  speak about recovered signatures; the inductive strengthening (`IInv`) says that
  shares come from members of their quorum, that each recovered signature on the
  network has a threshold of shares in `sent`, and that databases hold only
  signatures that are on the network. Two of them for one id then share an honest
  signer, whose vote is one message.
- `ThresholdIntersects` derives the intersection within one quorum from
  cardinalities. Parameters such as `llmq200_2`, with a threshold of 2 of 200, do
  not meet its hypothesis. Between different quorums it has to be assumed, and
  `signing_disjoint` shows what happens without it.

`QuorumBlockProcessor_proof`: from `ParamsAssumption`, for any parameters, number
of readers and scanners.
- `ChosenAlwaysMinable`, which is inductive as it stands: every action changes the two
  maps together or leaves both alone.
- `HeightIndexFollowsChain`. The strengthening relates the uncommitted view `cur`
  to the block in `step`: during a connection it has the entry of the new block,
  during a disconnection it lacks that of the last.

`SigningManager`, `ChainLocks` and the properties of `QuorumBlockProcessor` not
named here are model-checked only. Liveness under fairness is out of the prover's
reach.

## Not modelled

- Cryptography: a signature is valid or not; BLS aggregation, batch verification
  and hashing are left out.
- Transactions, scripts, fees, the mempool and the wallet.
- CoinJoin, governance and the smartnode list, so far (see the plan).
- Sockets, peer scoring and bans: the network is an unreliable environment.
- Disk flushes and crashes of the node inside validation.
- Start-up migrations of databases.

## Plan

1. InstantSend: input locks, island locks, conflicts with blocks and ChainLocks,
   retries; composition with `SigningManager` through `TruncateRecoveredSig` and
   with `ChainLocks` through `HandleFullyConfirmedBlock`. Properties: two locks
   never share an input; every lock that is known is eventually resolved.
2. Signature shares: sessions, announcements, requests with time-outs and
   recovery members, refining the message set of `QuorumSigning`.
3. The transaction bookkeeping of ChainLocks (`blockTxs`, `txFirstSeenTime`) and a
   property of what `TrySignChainTip` may sign.
4. An abstract ledger of locked blocks that `ChainLocks` implements, and an
   abstract agreement that `QuorumSigning` implements (one value per id).
5. DKG phases with complaints and justifications; the smartnode list with
   snapshots and diffs; the CoinJoin server session.
6. Pure algorithms against references: `GetAncestor` with its skip list,
   the undo order of special transactions.
7. Proofs: `DbMatchesChain` for the serial validation thread; `VoteTimeKeys` and
   `ConflictingVotesApart` of `SigningManager`; the refinements of step 4.
