CONSTANTS
    Blocks <- MCBlocks
    Locks <- MCLocks
    Untriggered = {}
    HeaderThreads = {"msghand"}
    Senders = {"msghand"}
    MaxToggles = 2
    None = None
SPECIFICATION Spec
INVARIANT StaleLocksNotEnforced
