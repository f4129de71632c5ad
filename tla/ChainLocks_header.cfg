CONSTANTS
    Blocks <- MCBlocks
    Locks <- MCLocks
    Untriggered = {}
    HeaderThreads = {"msghand", "rpc"}
    Senders = {"msghand"}
    MaxToggles = 0
    None = None
SPECIFICATION Spec
INVARIANT LateHeaderEnforced
