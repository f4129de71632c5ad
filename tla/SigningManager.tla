--------------------------- MODULE SigningManager ---------------------------
(***************************************************************************)
(* CSigningManager and CRecoveredSigsDb (llmq/quorums_signing.cpp) on one  *)
(* node, for one LLMQ type: the keys of the recovered-signature database,  *)
(* its lookup caches, the vote database with its clean-up, and the threads *)
(* that use them.  hasSigForSessionCache is left out: only                 *)
(* CSigSharesManager asks it, and nothing here depends on the answer.      *)
(*                                                                         *)
(* The worker (sigshares thread) stores recovered signatures and cleans    *)
(* up; InstantSend truncates; any thread may ask to sign; the readers are  *)
(* the threads that look signatures up without CSigningManager::cs, the    *)
(* message handler among them.  A lookup that misses the cache reads       *)
(* LevelDB and fills the cache in two steps of its thread.                 *)
(***************************************************************************)
EXTENDS Integers, FiniteSets

CONSTANTS
    RecSigs,     \* recovered signatures [id, msg, q] that can reach the node
    Msgs,        \* message hashes the node may be asked to sign
    maxAge,      \* -maxrecsigsage
    Readers,
    TimeModulus, \* 2^32: times are uint32_t
    StartTime,   \* clock at the start
    MaxTime,     \* bound on the clock
    MaxHandled,  \* bound on the number of times listeners are called
    MaxQueued,   \* bound on the signatures in the two queues
    Nothing

ASSUME SigningManagerAssumption ==
    /\ maxAge \in Nat
    /\ TimeModulus \in Nat /\ MaxTime \in 0 .. TimeModulus - 1
    /\ StartTime \in maxAge .. MaxTime
    /\ MaxHandled \in Nat
    /\ MaxQueued \in Nat
    /\ "worker" \notin Readers

VARIABLES
    rs_r,        \* id -> recSig, as the set of stored recSigs
    rs_rm,       \* (id, msgHash) -> write time, as a set of [id, msg, time]
    rs_h,        \* object hash -> id, as a set of recSigs
    rs_s,        \* signHash, as a set of recSigs
    rs_t,        \* (write time, id)
    rs_v,        \* id -> msgHash voted for
    rs_vt,       \* (write time, id) of votes
    cache,       \* hasSigForIdCache and hasSigForHashCache
    look,        \* per thread: a value read from LevelDB and not yet cached, or a
                 \* recSig found unknown and not yet queued
    worker,      \* what the worker thread is in the middle of
    batch,       \* recSigs the worker took from the queues, or recovered
    pending,     \* pendingRecoveredSigs
    reconstructed, \* pendingReconstructedRecoveredSigs
    now,         \* GetAdjustedTime
    handled,     \* number of calls of the listeners (for the bound only)
    voted        \* history: every vote ever written, [id, msg, time]

keys == <<rs_r, rs_rm, rs_h, rs_s, rs_t>>
votes == <<rs_v, rs_vt, voted>>
queues == <<batch, pending, reconstructed>>
vars == <<keys, votes, cache, look, worker, queues, now, handled>>

Ids == {r.id : r \in RecSigs}
Threads == {"worker"} \cup Readers

-----------------------------------------------------------------------------
(* Lookups: HasRecoveredSigForId and HasRecoveredSigForHash.                *)

ById(id) == [kind |-> "id", key |-> id]
ByHash(r) == [kind |-> "hash", key |-> r]
Keys == {ById(id) : id \in Ids} \cup {ByHash(r) : r \in RecSigs}

Exists(k) == IF k.kind = "id" THEN \E r \in rs_r : r.id = k.key ELSE k.key \in rs_h

Entry(k, has) == [k |-> k, has |-> has]
Cached(k) == \E e \in cache : e.k = k
Forget(c, ks) == {e \in c : e.k \notin ks}
Remember(c, k, has) == Forget(c, {k}) \cup {Entry(k, has)}

\* What a lookup that runs to its end without interference answers.
Has(k) == IF Cached(k) THEN Entry(k, TRUE) \in cache ELSE Exists(k)

LookupMiss(t, k) ==
    /\ look[t] = Nothing
    /\ ~Cached(k)
    /\ look' = [look EXCEPT ![t] = Entry(k, Exists(k))]
    /\ UNCHANGED <<keys, votes, cache, worker, queues, now, handled>>

\* A lookup of k by thread t ends with the answer `has'.
LookupEnds(t, k, has) ==
    \/ /\ look[t] = Nothing
       /\ Cached(k)
       /\ has = (Entry(k, TRUE) \in cache)
       /\ UNCHANGED <<cache, look>>
    \/ /\ look[t] = Entry(k, has)
       /\ cache' = Remember(cache, k, has)
       /\ look' = [look EXCEPT ![t] = Nothing]

-----------------------------------------------------------------------------
Idle == [at |-> "idle"]
BetweenBatches == worker = Idle /\ batch = {}

\* The worker holds CSigningManager::cs from the lookup of the id to the caches.
LockFree == worker.at \notin {"id", "write", "cache"}

Init ==
    /\ rs_r = {} /\ rs_rm = {} /\ rs_h = {} /\ rs_s = {} /\ rs_t = {}
    /\ rs_v = {} /\ rs_vt = {} /\ voted = {}
    /\ cache = {}
    /\ look = [t \in Threads |-> Nothing]
    /\ worker = Idle
    /\ batch = {} /\ pending = {} /\ reconstructed = {}
    /\ now = StartTime
    /\ handled = 0

Tick ==
    /\ now < MaxTime
    /\ now' = now + 1
    /\ UNCHANGED <<keys, votes, cache, look, worker, queues, handled>>

(***************************************************************************)
(* Readers.  After a lookup by hash that found nothing a thread is done    *)
(* (AlreadyHave), or is ProcessMessageRecoveredSig and goes on to queue    *)
(* the signature once it gets the lock.                                    *)
(***************************************************************************)
Queueing(r) == [queue |-> r]
Queued == Cardinality(pending) + Cardinality(reconstructed)

Reader(t) ==
    \E k \in Keys :
        \/ LookupMiss(t, k)
        \/ \E has \in BOOLEAN :
             /\ LookupEnds(t, k, has)
             /\ UNCHANGED <<keys, votes, worker, queues, now, handled>>

ReceiveRecoveredSig(t, r) ==
    /\ \/ /\ look[t] = Nothing
          /\ Entry(ByHash(r), FALSE) \in cache
          /\ UNCHANGED cache
       \/ /\ look[t] = Entry(ByHash(r), FALSE)
          /\ cache' = Remember(cache, ByHash(r), FALSE)
    /\ look' = [look EXCEPT ![t] = Queueing(r)]
    /\ UNCHANGED <<keys, votes, worker, queues, now, handled>>

QueueRecoveredSig(t, r) ==
    /\ look[t] = Queueing(r)
    /\ LockFree
    /\ Queued < MaxQueued
    /\ pending' = IF r \in reconstructed THEN pending ELSE pending \cup {r}
    /\ look' = [look EXCEPT ![t] = Nothing]
    /\ UNCHANGED <<keys, votes, cache, worker, batch, reconstructed, now, handled>>

\* InstantSend rebuilt a recovered signature from an ISLOCK.
PushReconstructedRecoveredSig(r) ==
    /\ LockFree
    /\ Queued < MaxQueued
    /\ reconstructed' = reconstructed \cup {r}
    /\ UNCHANGED <<keys, votes, cache, look, worker, batch, pending, now, handled>>

(***************************************************************************)
(* The worker.  It alone writes the hash keys, so each of its lookups by   *)
(* hash is one step.                                                       *)
(***************************************************************************)
ProcessPendingReconstructedRecoveredSigs ==
    /\ BetweenBatches
    /\ reconstructed # {}
    /\ batch' = reconstructed
    /\ reconstructed' = {}
    /\ UNCHANGED <<keys, votes, cache, look, worker, pending, now, handled>>

\* CollectPendingRecoveredSigsToVerify and the verification: known signatures, and
\* those that are invalid or of a quorum that is no longer active, are dropped.
ProcessPendingRecoveredSigs ==
    /\ BetweenBatches
    /\ pending # {}
    /\ batch' \in SUBSET {r \in pending : ~Has(ByHash(r))}
    /\ cache' = Forget(cache, {ByHash(r) : r \in pending})
                  \cup {Entry(ByHash(r), Has(ByHash(r))) : r \in pending}
    /\ pending' = {}
    /\ UNCHANGED <<keys, votes, look, worker, reconstructed, now, handled>>

\* The worker has recovered a signature from shares, unless one of the id is known.
TryRecoverSig(r) ==
    /\ BetweenBatches
    /\ cache' = Remember(cache, ById(r.id), Has(ById(r.id)))
    /\ batch' = IF Has(ById(r.id)) THEN {} ELSE {r}
    /\ UNCHANGED <<keys, votes, look, worker, pending, reconstructed, now, handled>>

\* ProcessRecoveredSig up to the lock: "if (db.HasRecoveredSigForHash(...)) return".
ProcessRecoveredSig(r) ==
    /\ worker = Idle
    /\ handled < MaxHandled
    /\ r \in batch
    /\ batch' = batch \ {r}
    /\ cache' = Remember(cache, ByHash(r), Has(ByHash(r)))
    /\ worker' = IF Has(ByHash(r)) THEN Idle ELSE [at |-> "id", r |-> r]
    /\ UNCHANGED <<keys, votes, look, pending, reconstructed, now, handled>>

WorkerMiss == worker.at = "id" /\ LookupMiss("worker", ById(worker.r.id))

\* Another signature of the id is known: whether it conflicts or is the same one,
\* the new one is dropped, unless the known one has vanished in the mean time.
CheckId ==
    /\ worker.at = "id"
    /\ \E has \in BOOLEAN :
         /\ LookupEnds("worker", ById(worker.r.id), has)
         /\ worker' = IF has /\ Exists(ById(worker.r.id)) THEN Idle
                      ELSE [worker EXCEPT !.at = "write"]
    /\ UNCHANGED <<keys, votes, queues, now, handled>>

\* Mutant: the time is written in the wrong byte order, as ConvertInvalidTimeKeys
\* has to repair in old databases.
TimeKey_littleEndian(id) == [time |-> TimeModulus - now, id |-> id]

TimeKey(id) == [time |-> now, id |-> id]

\* WriteRecoveredSig: one batch for the five keys, then the caches.
WriteRecoveredSig ==
    /\ worker.at = "write"
    /\ LET r == worker.r
       IN  /\ rs_r' = {x \in rs_r : x.id # r.id} \cup {r}
           /\ rs_rm' = {x \in rs_rm : <<x.id, x.msg>> # <<r.id, r.msg>>}
                         \cup {[id |-> r.id, msg |-> r.msg, time |-> now]}
           /\ rs_h' = rs_h \cup {r}
           /\ rs_s' = rs_s \cup {r}
           /\ rs_t' = rs_t \cup {TimeKey(r.id)}
    /\ worker' = [worker EXCEPT !.at = "cache"]
    /\ UNCHANGED <<votes, cache, look, queues, now, handled>>

\* The caches are filled, the lock is released and the listeners are called.
HandleNewRecoveredSig ==
    /\ worker.at = "cache"
    /\ LET r == worker.r
           ks == {ById(r.id), ByHash(r)}
       IN  /\ cache' = Forget(cache, ks) \cup {Entry(k, TRUE) : k \in ks}
           /\ reconstructed' = reconstructed \ {r}
           /\ handled' = handled + 1
    /\ worker' = Idle
    /\ UNCHANGED <<keys, votes, look, batch, pending, now>>

(***************************************************************************)
(* Removal.  RemoveRecoveredSig reads the stored signature of the id and   *)
(* does nothing when there is none.                                        *)
(***************************************************************************)
StoredOf(ids) == {r \in rs_r : r.id \in ids}
KeysOf(rs, withHash) ==
    {ById(r.id) : r \in rs} \cup (IF withHash THEN {ByHash(r) : r \in rs} ELSE {})

\* Mutant: truncation forgets the signHash key.
EraseRecoveredSigs_keepsSession(rs) ==
    /\ rs_r' = rs_r \ rs
    /\ rs_rm' = {x \in rs_rm : ~\E r \in rs : r.id = x.id /\ r.msg = x.msg}
    /\ UNCHANGED rs_s

EraseRecoveredSigs(rs) ==
    /\ rs_r' = rs_r \ rs
    /\ rs_rm' = {x \in rs_rm : ~\E r \in rs : r.id = x.id /\ r.msg = x.msg}
    /\ rs_s' = rs_s \ rs

\* Called by InstantSend: the hash key and the time key stay.
TruncateRecoveredSig(id) ==
    /\ StoredOf({id}) # {}
    /\ EraseRecoveredSigs(StoredOf({id}))
    /\ cache' = Forget(cache, KeysOf(StoredOf({id}), FALSE))
    /\ UNCHANGED <<rs_h, rs_t, votes, look, worker, queues, now, handled>>

\* Mutant: maxAge is ignored.
Old_all(ts) == {k \in ts : k.time < now}

\* The keys before endTime, the difference cast to uint32_t.
Old(ts) == {k \in ts : k.time < (now - maxAge) % TimeModulus}

\* Under the lock the batch is built and the caches are cleared; the batch is
\* written after the lock is released.
CleanupOldRecoveredSigs ==
    /\ BetweenBatches
    /\ Old(rs_t) # {}
    /\ LET del == StoredOf({k.id : k \in Old(rs_t)})
       IN  /\ worker' = [at |-> "clean", del |-> del, times |-> Old(rs_t)]
           /\ cache' = Forget(cache, KeysOf(del, TRUE))
    /\ UNCHANGED <<keys, votes, look, queues, now, handled>>

WriteCleanup ==
    /\ worker.at = "clean"
    /\ EraseRecoveredSigs(worker.del)
    /\ rs_h' = rs_h \ worker.del
    /\ rs_t' = rs_t \ worker.times
    /\ worker' = Idle
    /\ UNCHANGED <<votes, cache, look, queues, now, handled>>

\* Mutant: the time keys of expired votes stay.
CleanupOldVotes_keepsTime ==
    /\ BetweenBatches
    /\ Old(rs_vt) # {}
    /\ rs_v' = {v \in rs_v : ~\E k \in Old(rs_vt) : k.id = v.id}
    /\ UNCHANGED <<keys, rs_vt, voted, cache, look, worker, queues, now, handled>>

\* Nothing changes an old vote or its time key while the batch is being built, so
\* collecting and writing are one step.
CleanupOldVotes ==
    /\ BetweenBatches
    /\ Old(rs_vt) # {}
    /\ rs_vt' = rs_vt \ Old(rs_vt)
    /\ rs_v' = {v \in rs_v : ~\E k \in Old(rs_vt) : k.id = v.id}
    /\ UNCHANGED <<keys, voted, cache, look, worker, queues, now, handled>>

(***************************************************************************)
(* AsyncSignIfMember, once the quorum is selected and the node is one of   *)
(* its members; it holds CSigningManager::cs.  Its own lookup is atomic    *)
(* here: the readers show what an interrupted one does.                    *)
(***************************************************************************)
HasVotedOnId(id) == \E v \in rs_v : v.id = id
MayVote(id, msg, allowReSign) ==
    HasVotedOnId(id) => allowReSign /\ [id |-> id, msg |-> msg] \in rs_v

AsyncSignIfMember(id, msg, allowReSign) ==
    /\ LockFree
    /\ MayVote(id, msg, allowReSign)
    /\ cache' = Remember(cache, ById(id), Has(ById(id)))
    /\ IF Has(ById(id)) \/ HasVotedOnId(id)
       THEN UNCHANGED votes
       ELSE /\ rs_v' = rs_v \cup {[id |-> id, msg |-> msg]}
            /\ rs_vt' = rs_vt \cup {TimeKey(id)}
            /\ voted' = voted \cup {[id |-> id, msg |-> msg, time |-> now]}
    /\ UNCHANGED <<keys, look, worker, queues, now, handled>>

-----------------------------------------------------------------------------
Next ==
    \/ Tick
    \/ \E t \in Readers :
         Reader(t) \/ \E r \in RecSigs : ReceiveRecoveredSig(t, r) \/ QueueRecoveredSig(t, r)
    \/ ProcessPendingReconstructedRecoveredSigs \/ ProcessPendingRecoveredSigs
    \/ \E r \in RecSigs :
         TryRecoverSig(r) \/ PushReconstructedRecoveredSig(r) \/ ProcessRecoveredSig(r)
    \/ WorkerMiss \/ CheckId \/ WriteRecoveredSig \/ HandleNewRecoveredSig
    \/ CleanupOldRecoveredSigs \/ WriteCleanup \/ CleanupOldVotes
    \/ \E id \in Ids :
         \/ TruncateRecoveredSig(id)
         \/ \E msg \in Msgs, allowReSign \in BOOLEAN : AsyncSignIfMember(id, msg, allowReSign)

Spec == Init /\ [][Next]_vars

-----------------------------------------------------------------------------
\* Type invariant.
TypeOK ==
    /\ rs_r \subseteq RecSigs /\ rs_h \subseteq RecSigs /\ rs_s \subseteq RecSigs
    /\ rs_rm \subseteq [id : Ids, msg : {r.msg : r \in RecSigs}, time : StartTime .. now]
    /\ rs_t \subseteq [time : StartTime .. now, id : Ids]
    /\ rs_v \subseteq [id : Ids, msg : Msgs]
    /\ rs_vt \subseteq [time : StartTime .. now, id : Ids]
    /\ \A e \in cache : e.k \in Keys /\ e.has \in BOOLEAN
    /\ worker.at \in {"idle", "id", "write", "cache", "clean"}
    /\ batch \cup pending \cup reconstructed \subseteq RecSigs

\* The quorums recover one message per id (Agreement of QuorumSigning).
OneMsgPerId == \A r, s \in RecSigs : r.id = s.id => r.msg = s.msg

\* The keys of WriteRecoveredSig stay together through truncation and clean-up,
\* however stale the caches are: a stored signature is the only one of its id, and
\* is found by (id, msgHash), by signHash and by its object hash, with a time key
\* under which clean-up finds it.  The (id, msgHash) key, which IsConflicting asks,
\* never outlives the signature.  (A signature of another quorum that a stale
\* answer lets overwrite it leaves the signHash key of the first behind.)
KeysAgree ==
    /\ \A r, s \in rs_r : r.id = s.id => r = s
    /\ rs_r \subseteq rs_s
    /\ rs_s \subseteq rs_h
    /\ \A r \in rs_r : \E x \in rs_rm : x.id = r.id /\ x.msg = r.msg
    /\ OneMsgPerId => \A x \in rs_rm : \E r \in rs_r : x.id = r.id /\ x.msg = r.msg
    /\ \A r \in rs_r : \E k \in rs_t : k.id = r.id

\* "This will leave the byHash key in-place so that HasRecoveredSigForHash still
\* returns true": a truncated signature whose hash is in the database is known by
\* its hash (except while the worker is about to fill the caches).
KnownByHash ==
    worker.at # "cache" => \A r \in rs_h \ rs_r : Has(ByHash(r))

\* Every vote has one time key and every time key a vote, so each vote expires, and
\* none before its time.
VoteTimeKeys ==
    /\ \A v \in rs_v : Cardinality({k \in rs_vt : k.id = v.id}) = 1
    /\ \A k \in rs_vt : HasVotedOnId(k.id)
    /\ \A v, w \in rs_v : v.id = w.id => v = w

\* Two votes for different messages of one id are more than maxAge apart, whatever
\* truncation, clean-up and re-signing did between them: by then the first can no
\* longer be part of a recovery that other nodes still hold.
ConflictingVotesApart ==
    \A v, w \in voted :
        v.id = w.id /\ v.msg # w.msg => v.time - w.time > maxAge \/ w.time - v.time > maxAge
=============================================================================
