CONSTANTS
    Blocks <- MCBlocks
    Locks <- MCLocks
    Untriggered <- MCUntriggered
    HeaderThreads = {"msghand"}
    Senders = {"msghand", "worker"}
    MaxToggles = 2
    None = None
SPECIFICATION FairSpec
INVARIANTS TypeOK NotifiedIsFinal
PROPERTY LockedChainActivated
