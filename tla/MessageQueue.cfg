SPECIFICATION FairSpec
CONSTANTS
    h1 = h1
    h2 = h2
    h3 = h3
    h4 = h4
    base = base
    e1 = e1
    e2 = e2
    Hosts <- MCHosts
    Bases <- MCBases
    Entries <- MCEntries
    Holds <- MCHolds
    Refers <- MCRefers
    Moved <- MCMoved
    Scopes = {"one", "sub"}
    HopLimit = 3
INVARIANTS EntriesBeforeReferences UnchasedIsSafe
PROPERTIES SearchIsComplete CallReturns
CHECK_DEADLOCK FALSE
