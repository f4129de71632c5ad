------------------------------ MODULE ChainLocks ------------------------------
(***************************************************************************)
(* CChainLocksHandler (llmq/quorums_chainlocks.cpp) on one smartnode,      *)
(* together with the part of validation.cpp it steers: which headers and   *)
(* blocks are accepted, which branch is active, which blocks are marked as *)
(* failed or as conflicting with a ChainLock.                              *)
(*                                                                         *)
(* Threads: "msghand" receives CLSIG messages, headers and blocks;         *)
(* "worker" (sigshares) delivers recovered signatures; "rpc" submits       *)
(* blocks; "cl" is cl-schdlr, which enforces and signs.  ActivateBestChain *)
(* is run by the thread that brought a block, or by "cl".                  *)
(*                                                                         *)
(* A block is the sequence of fork labels from genesis to it, so that its  *)
(* ancestors are its prefixes; all blocks have the same work.  A CLSIG is  *)
(* named by the block it locks: members sign the height and the hash of    *)
(* one block index, so a CLSIG that names another height than its block's  *)
(* ("Should not happen") does not occur.                                   *)
(***************************************************************************)
EXTENDS Integers, Sequences, SequencesExt, FiniteSets

CONSTANTS
    Blocks,      \* the block tree, genesis <<>> included
    Locks,       \* blocks for which a quorum signs a CLSIG
    Untriggered, \* blocks that fail until a superblock trigger arrives
    HeaderThreads, \* threads that bring headers and blocks
    Senders,     \* threads that run ProcessNewChainLock
    MaxToggles,  \* bound on changes of spork 19
    None

ASSUME BlocksAssumption ==
    /\ <<>> \in Blocks
    /\ \A b \in Blocks : b # <<>> => Front(b) \in Blocks
    /\ Locks \subseteq Blocks \ {<<>>}
    /\ Untriggered \subseteq Blocks \ {<<>>}
    /\ MaxToggles \in Nat

VARIABLES
    \* validation, under cs_main
    headers,     \* mapBlockIndex
    data,        \* blocks with BLOCK_HAVE_DATA
    failed,      \* BLOCK_FAILED_MASK
    conflict,    \* BLOCK_CONFLICT_CHAINLOCK
    tip,         \* chainActive.Tip()
    act,         \* ActivateBestChain in progress: [by, target], target None when to be chosen
    want,        \* threads that are about to call ActivateBestChain
    \* CChainLocksHandler, under its cs
    isEnforced,  \* isEnabled too: DIP0008 is enabled
    best,        \* bestChainLock
    known,       \* bestChainLockWithKnownBlock, bestChainLockBlockIndex
    lastNotify,  \* lastNotifyChainLockBlockIndex
    seen,        \* seenChainLocks
    lastSigned,  \* lastSignedHeight, lastSignedMsgHash
    proc,        \* per sender: the CLSIG it is processing
    cl,          \* cl-schdlr: where it is, and the block it holds
    \* outside
    spork,       \* spork 19 is active
    toggles,     \* number of changes of the spork (for the bound only)
    untriggered, \* blocks whose superblock trigger has not arrived yet
    relayed      \* CLSIGs relayed since ChainLocks were last activated

validation == <<headers, data, failed, conflict, tip, act, want>>
locks == <<isEnforced, best, known, lastNotify>>
vars == <<validation, locks, seen, lastSigned, proc, cl, spork, toggles, untriggered, relayed>>

Height(b) == Len(b)
Chain(b) == {SubSeq(b, 1, i) : i \in 0 .. Len(b)}
GetAncestor(b, h) == SubSeq(b, 1, h)
BestHeight == IF best = None THEN -1 ELSE Height(best)

\* HasConflictingChainLock(Height(b), b).
HasConflictingChainLock(b) ==
    /\ isEnforced
    /\ known # None
    /\ Height(b) <= Height(known)
    /\ GetAncestor(known, Height(b)) # b

-----------------------------------------------------------------------------
Init ==
    /\ headers = {<<>>} /\ data = {<<>>}
    /\ failed = {} /\ conflict = {}
    /\ tip = <<>>
    /\ act = None /\ want = {}
    /\ isEnforced = FALSE
    /\ best = None /\ known = None /\ lastNotify = None
    /\ seen = {}
    /\ lastSigned = None
    /\ proc = [t \in Senders |-> None]
    /\ cl = [at |-> "idle", b |-> None]
    /\ spork = TRUE
    /\ toggles = 0
    /\ untriggered = Untriggered
    /\ relayed = {}

ToggleSpork ==
    /\ toggles < MaxToggles
    /\ toggles' = toggles + 1
    /\ spork' = ~spork
    /\ UNCHANGED <<validation, locks, seen, lastSigned, proc, cl, untriggered, relayed>>

\* ChainLocks are on, and stale values are dropped when they were just turned on.
CheckActiveState ==
    /\ isEnforced' = spork
    /\ IF spork /\ ~isEnforced
       THEN best' = None /\ known' = None /\ lastNotify' = None /\ relayed' = {}
       ELSE UNCHANGED <<best, known, lastNotify, relayed>>

(***************************************************************************)
(* Headers and blocks.                                                     *)
(***************************************************************************)
Busy(t) == t \in want \/ (t \in Senders /\ proc[t] # None)

\* The signal at the end of AcceptBlockHeader.
AcceptedBlockHeader(b) ==
    known' = IF best = b THEN b ELSE known

AcceptBlockHeader(t, b) ==
    /\ ~Busy(t)
    /\ b \notin headers
    /\ Front(b) \in headers \ (failed \cup conflict)
    /\ headers' = headers \cup {b}
    /\ IF HasConflictingChainLock(b)
       THEN conflict' = conflict \cup {b} /\ UNCHANGED known
       ELSE AcceptedBlockHeader(b) /\ UNCHANGED conflict
    /\ UNCHANGED <<data, failed, tip, act, want, isEnforced, best, lastNotify, seen,
                   lastSigned, proc, cl, spork, toggles, untriggered, relayed>>

\* "prev block invalid": the blocks between the failed one and the header fail too.
\* A parent that was connected once is not asked for failed ancestors, so a header
\* with such an ancestor may also be accepted.
RejectBlockHeader(t, b) ==
    /\ ~Busy(t)
    /\ b \notin headers
    /\ Front(b) \in headers \ conflict
    /\ Chain(Front(b)) \cap failed # {}
    /\ failed' = failed \cup {x \in Chain(Front(b)) : Chain(x) \cap failed # {}}
    /\ UNCHANGED <<headers, data, conflict, tip, act, want, locks, seen, lastSigned,
                   proc, cl, spork, toggles, untriggered, relayed>>

\* AcceptBlock for a known header, of a block that may have been received before;
\* ProcessNewBlock then calls ActivateBestChain.
AcceptBlock(t, b) ==
    /\ ~Busy(t)
    /\ b \in headers \ (failed \cup conflict)
    /\ data' = data \cup {b}
    /\ want' = want \cup {t}
    /\ UNCHANGED <<headers, failed, conflict, tip, act, locks, seen, lastSigned,
                   proc, cl, spork, toggles, untriggered, relayed>>

TriggerArrives(b) ==
    /\ b \in untriggered
    /\ untriggered' = untriggered \ {b}
    /\ UNCHANGED <<validation, locks, seen, lastSigned, proc, cl, spork, toggles, relayed>>

(***************************************************************************)
(* ActivateBestChain.  Only one thread runs it; cs_main is released after  *)
(* each ActivateBestChainStep, and the target is kept for the next one     *)
(* unless a block was found invalid.                                       *)
(***************************************************************************)
Inactive(b) == Chain(b) \ Chain(tip)

\* setBlockIndexCandidates, over-approximated: every block whose chain has arrived.
\* In the code a block leaves the set when it is pruned behind the tip or fails and
\* comes back when it is reset; FindMostWorkChain skips those here.
Candidates == {b \in data : Chain(b) \subseteq data}

\* Which of several blocks with the most work is taken (the first received) is left open.
FindMostWorkChain ==
    LET usable == {b \in Candidates : Inactive(b) \cap (failed \cup conflict) = {}}
    IN  {b \in usable : \A c \in usable : Height(c) <= Height(b)}

\* The search flags the descendants of a flagged block that it passes on its way.
Flagged(flag, target) ==
    flag \cup {x \in Blocks : /\ Inactive(x) \cap flag # {}
                              /\ \E b \in Candidates : x \in Chain(b) /\ Height(b) > Height(target)}

\* Mutant: ConnectBlock does not ask for a conflicting ChainLock.
ConnectBlockFails_noChainLock(b) == b \in untriggered

ConnectBlockFails(b) == HasConflictingChainLock(b) \/ b \in untriggered

\* ConnectTip of each block from the fork on; the step ends above the old tip's
\* height, at the target, or at a block that fails.
ActivateBestChainStep(t, target, fail) ==
    LET fork == Cardinality(Chain(target) \cap Chain(tip)) - 1
        last == IF Height(target) > Height(tip) THEN Height(tip) + 1 ELSE Height(target)
        bad == {h \in (fork + 1) .. last : ConnectBlockFails(GetAncestor(target, h))}
        stop == CHOOSE h \in fork .. last :
                    (\A i \in bad : h < i) /\ (h = last \/ h + 1 \in bad)
    IN  /\ tip' = GetAncestor(target, stop)
        /\ failed' = fail \cup (IF bad = {} THEN {} ELSE {GetAncestor(target, stop + 1)})
        /\ IF stop = Height(target)
           THEN act' = None /\ want' = want \ {t}
           ELSE act' = [by |-> t, target |-> IF bad = {} THEN target ELSE None] /\ UNCHANGED want

ActivateBestChain(t) ==
    /\ t \in want
    /\ act # None => act.by = t
    /\ LET kept == act # None /\ act.target # None
       IN  \E target \in (IF kept THEN {act.target} ELSE FindMostWorkChain) :
             LET fail == IF kept THEN failed ELSE Flagged(failed, target)
             IN  /\ conflict' = IF kept THEN conflict ELSE Flagged(conflict, target)
                 /\ IF target = tip
                    THEN act' = None /\ want' = want \ {t} /\ failed' = fail /\ UNCHANGED tip
                    ELSE ActivateBestChainStep(t, target, fail)
    /\ UNCHANGED <<headers, data, locks, seen, lastSigned, proc, cl, spork, toggles,
                   untriggered, relayed>>

(***************************************************************************)
(* ProcessNewChainLock: CheckActiveState, the checks against seenChainLocks *)
(* and bestChainLock, the verification with the lookup of the block, and   *)
(* the update are separate critical sections.                              *)
(***************************************************************************)
ProcAt(t, at) == proc[t] # None /\ proc[t].at = at
StartProcessing(t, b) ==
    proc' = [proc EXCEPT ![t] = [lock |-> b, at |-> "active", found |-> FALSE]]

\* ProcessMessage(CLSIG).
ReceiveClsig(b) ==
    /\ spork
    /\ ~Busy("msghand")
    /\ StartProcessing("msghand", b)
    /\ UNCHANGED <<validation, locks, seen, lastSigned, cl, spork, toggles, untriggered, relayed>>

HandleNewRecoveredSig(b) ==
    /\ proc["worker"] = None
    /\ isEnforced
    /\ lastSigned = b
    /\ BestHeight < Height(b)
    /\ StartProcessing("worker", b)
    /\ UNCHANGED <<validation, locks, seen, lastSigned, cl, spork, toggles, untriggered, relayed>>

ProcessActiveState(t) ==
    /\ ProcAt(t, "active")
    /\ CheckActiveState
    /\ proc' = [proc EXCEPT ![t].at = "check"]
    /\ UNCHANGED <<validation, seen, lastSigned, cl, spork, toggles, untriggered>>

\* A CLSIG that was seen, or is not above the best one, is dropped.
CheckSeen(t) ==
    /\ ProcAt(t, "check")
    /\ seen' = seen \cup {proc[t].lock}
    /\ proc' = IF proc[t].lock \in seen \/ Height(proc[t].lock) <= BestHeight
               THEN [proc EXCEPT ![t] = None]
               ELSE [proc EXCEPT ![t].at = "lookup"]
    /\ UNCHANGED <<validation, locks, lastSigned, cl, spork, toggles, untriggered, relayed>>

\* VerifyRecoveredSig fails, also of a valid CLSIG when the node's own chain has no
\* quorum for its height yet.  The CLSIG stays in seenChainLocks.
RejectClsig(t) ==
    /\ ProcAt(t, "lookup")
    /\ proc' = [proc EXCEPT ![t] = None]
    /\ UNCHANGED <<validation, locks, seen, lastSigned, cl, spork, toggles, untriggered, relayed>>

LookupBlock(t) ==
    /\ ProcAt(t, "lookup")
    /\ proc' = [proc EXCEPT ![t].at = "store", ![t].found = proc[t].lock \in headers]
    /\ UNCHANGED <<validation, locks, seen, lastSigned, cl, spork, toggles, untriggered, relayed>>

\* Mutant: the lock is taken for enforcement although its block is not known.
ProcessNewChainLock_unknown(t) ==
    /\ ProcAt(t, "store")
    /\ best' = proc[t].lock
    /\ known' = proc[t].lock
    /\ relayed' = relayed \cup {proc[t].lock}
    /\ proc' = [proc EXCEPT ![t] = None]
    /\ UNCHANGED <<validation, isEnforced, lastNotify, seen, lastSigned, cl, spork,
                   toggles, untriggered>>

ProcessNewChainLock(t) ==
    /\ ProcAt(t, "store")
    /\ best' = proc[t].lock
    /\ known' = IF proc[t].found THEN proc[t].lock ELSE known
    /\ relayed' = relayed \cup {proc[t].lock}
    /\ proc' = [proc EXCEPT ![t] = None]
    /\ UNCHANGED <<validation, isEnforced, lastNotify, seen, lastSigned, cl, spork,
                   toggles, untriggered>>

(***************************************************************************)
(* cl-schdlr: CheckActiveState, EnforceBestChainLock, TrySignChainTip.  A  *)
(* round may start at any time (every 5 s, and after tips and CLSIGs).     *)
(***************************************************************************)
StartRound ==
    /\ cl.at = "idle"
    /\ CheckActiveState
    /\ cl' = [at |-> "enforce", b |-> None]
    /\ UNCHANGED <<validation, seen, lastSigned, proc, spork, toggles, untriggered>>

ReadBestChainLock ==
    /\ cl.at = "enforce"
    /\ cl' = IF isEnforced /\ known # None THEN [at |-> "mark", b |-> known]
             ELSE [at |-> "tip", b |-> None]
    /\ UNCHANGED <<validation, locks, seen, lastSigned, proc, spork, toggles, untriggered, relayed>>

Siblings(b) == {s \in headers : \E p \in Inactive(b) : s # p /\ s # <<>> /\ Front(s) = Front(p)}

\* Mutant: blocks that failed for a missing trigger are not reconsidered.
ResetBlockFailureFlags_none(b) == failed

\* ResetBlockFailureFlags, called when IsValid() does not hold: the block has failed
\* or its data are missing.  Its ancestors and descendants are reconsidered.
ResetBlockFailureFlags(b) ==
    IF b \in failed \/ b \notin data THEN {x \in failed : x \notin Chain(b) /\ b \notin Chain(x)} ELSE failed

\* Active blocks are disconnected and marked together with the conflicting ones below.
MarkConflictingBlock(bs) == bs \cup {x \in Chain(tip) : Chain(x) \cap bs # {}}

\* MarkConflictingBlock for the siblings of the inactive ancestors of cl.b, then
\* ResetBlockFailureFlags.
EnforceBestChainLock ==
    /\ cl.at = "mark"
    /\ LET marked == MarkConflictingBlock(Siblings(cl.b))
           newTip == GetAncestor(tip, Cardinality(Chain(tip) \ marked) - 1)
       IN  /\ conflict' = conflict \cup marked
           /\ tip' = newTip
           /\ IF cl.b \in Chain(newTip)
              THEN cl' = [cl EXCEPT !.at = "notify"] /\ UNCHANGED want
              ELSE cl' = [cl EXCEPT !.at = "activate"] /\ want' = want \cup {"cl"}
    /\ failed' = ResetBlockFailureFlags(cl.b)
    /\ UNCHANGED <<headers, data, act, locks, seen, lastSigned, proc, spork, toggles,
                   untriggered, relayed>>

NotifyChainLock ==
    /\ \/ cl.at = "notify"
       \/ cl.at = "activate" /\ "cl" \notin want
    /\ lastNotify' = IF cl.b \in Chain(tip) THEN cl.b ELSE lastNotify
    /\ cl' = [at |-> "tip", b |-> None]
    /\ UNCHANGED <<validation, isEnforced, best, known, seen, lastSigned, proc, spork,
                   toggles, untriggered, relayed>>

\* TrySignChainTip reads the tip, checks it, looks at its transactions without a
\* lock and signs.  Cleanup may forget a CLSIG that was seen a day ago.
ReadTip ==
    /\ cl.at = "tip"
    /\ cl' = [at |-> "check", b |-> tip]
    /\ UNCHANGED seen \/ \E s \in seen : seen' = seen \ {s}
    /\ UNCHANGED <<validation, locks, lastSigned, proc, spork, toggles, untriggered, relayed>>

MaySign(b) ==
    /\ b # <<>>
    /\ isEnforced
    /\ lastSigned # None => Height(lastSigned) # Height(b)
    /\ BestHeight < Height(b)
    /\ ~HasConflictingChainLock(b)

CheckTip ==
    /\ cl.at = "check"
    /\ MaySign(cl.b)
    /\ cl' = [cl EXCEPT !.at = "sign"]
    /\ UNCHANGED <<validation, locks, seen, lastSigned, proc, spork, toggles, untriggered, relayed>>

TrySignChainTip ==
    /\ cl.at = "sign"
    /\ BestHeight < Height(cl.b)
    /\ lastSigned' = cl.b
    /\ cl' = [at |-> "idle", b |-> None]
    /\ UNCHANGED <<validation, locks, seen, proc, spork, toggles, untriggered, relayed>>

\* The checks fail, or a transaction is neither locked nor old enough.
SkipSigning ==
    /\ \/ cl.at = "check" /\ ~MaySign(cl.b)
       \/ cl.at = "sign"
    /\ cl' = [at |-> "idle", b |-> None]
    /\ UNCHANGED <<validation, locks, seen, lastSigned, proc, spork, toggles, untriggered, relayed>>

-----------------------------------------------------------------------------
Validation ==
    \/ \E t \in HeaderThreads, b \in Blocks \ {<<>>} :
         AcceptBlockHeader(t, b) \/ RejectBlockHeader(t, b) \/ AcceptBlock(t, b)
    \/ \E b \in untriggered : TriggerArrives(b)

Messages ==
    \/ "msghand" \in Senders /\ \E b \in Locks : ReceiveClsig(b)
    \/ "worker" \in Senders /\ \E b \in Locks : HandleNewRecoveredSig(b)

Process ==
    \E t \in Senders :
        \/ ProcessActiveState(t) \/ CheckSeen(t) \/ RejectClsig(t) \/ LookupBlock(t)
        \/ ProcessNewChainLock(t)

Activation == \E t \in want : ActivateBestChain(t)
Scheduler ==
    \/ StartRound \/ ReadBestChainLock \/ EnforceBestChainLock \/ NotifyChainLock
    \/ ReadTip \/ CheckTip \/ TrySignChainTip \/ SkipSigning

Next == ToggleSpork \/ Validation \/ Messages \/ Process \/ Activation \/ Scheduler

Spec == Init /\ [][Next]_vars

\* Threads keep running: cl-schdlr runs a round every 5 seconds, a CLSIG that is
\* being processed and a call of ActivateBestChain come to their end.
Fairness ==
    /\ WF_vars(Scheduler)
    /\ WF_vars(Process)
    /\ \A t \in HeaderThreads \cup {"cl"} : WF_vars(ActivateBestChain(t))

FairSpec == Spec /\ Fairness

-----------------------------------------------------------------------------
\* Type invariant.
TypeOK ==
    /\ headers \subseteq Blocks /\ data \subseteq headers
    /\ failed \subseteq headers /\ conflict \subseteq headers
    /\ tip \in data
    /\ want \subseteq HeaderThreads \cup {"cl"}
    /\ act # None => act.by \in want /\ act.target \in headers \cup {None}
    /\ isEnforced \in BOOLEAN /\ spork \in BOOLEAN
    /\ best \in Locks \cup {None}
    /\ known \in (Locks \cap headers) \cup {None}
    /\ lastNotify \in (Locks \cap headers) \cup {None}
    /\ seen \subseteq Locks /\ relayed \subseteq Locks
    /\ lastSigned \in headers \cup {None}
    /\ \A t \in Senders : proc[t] # None => proc[t].lock \in seen \cup Locks

Comparable(a, b) == a \in Chain(b) \/ b \in Chain(a)

\* A block announced by NotifyChainLock is final: as long as the best ChainLock is
\* at or above it, no branch without it becomes active; a reorganisation that was
\* tried may at most leave the tip below it for a moment.  This is so until spork 19
\* is switched on again: CheckActiveState then drops the locks, and a round of
\* EnforceBestChainLock under way may still announce the lock it had read.
NotifiedIsFinal ==
    toggles < 2 /\ isEnforced /\ lastNotify # None /\ known # None =>
        (lastNotify \in Chain(known) => Comparable(tip, lastNotify))

\* "leaving us with some stale values which we should not try to enforce anymore
\* (there probably was a good reason to disable spork19)": when CheckActiveState has
\* dropped the ChainLocks and no other was received, a node that has nothing left to
\* activate is on a valid chain with the most work.
StaleLocksNotEnforced ==
    isEnforced /\ best = None /\ want = {} =>
        \A b \in Candidates : Chain(b) \cap failed = {} => Height(b) <= Height(tip)

\* "when the block or the header later comes in, we will enforce the correct chain":
\* once its header is there the best ChainLock is the one that is enforced.
LateHeaderEnforced ==
    best # None /\ best \in headers /\ (\A t \in Senders : proc[t] = None) => known = best

\* EnforceBestChainLock brings the node to the locked chain: a best ChainLock whose
\* blocks are there, with their triggers, becomes part of the active chain, unless
\* another ChainLock or the spork intervenes.
LockedChainActivated ==
    \A b \in Locks :
        (known = b /\ isEnforced /\ Chain(b) \subseteq data /\ Chain(b) \cap untriggered = {})
            ~> (b \in Chain(tip) \/ known # b \/ ~isEnforced)

\* "no need to process/relay older CLSIGs": the best ChainLock is the highest one
\* relayed since ChainLocks were activated.
BestIsHighest == \A b \in relayed : Height(b) <= BestHeight
=============================================================================
