SPECIFICATION FairSpec
CONSTANTS
    Requests = {r1, r2}
    None = None
INVARIANTS TwiceOnlyModify ProperUnlessReconnectFailed
PROPERTIES KeepsContract CallReturns
