CONSTANTS
    Blocks <- TallBlocks
    Locks <- TwoLocks
    Untriggered = {}
    HeaderThreads = {"msghand"}
    Senders = {"msghand", "worker"}
    MaxToggles = 0
    None = None
SPECIFICATION Spec
INVARIANT BestIsHighest
