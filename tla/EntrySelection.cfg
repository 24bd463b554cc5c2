SPECIFICATION Spec
CONSTANTS
    Root = Root
    Existing = {a, b}
    NewEntries = {n1, n2}
    None = None
CHECK_DEADLOCK FALSE
SYMMETRY Symmetry
INVARIANTS AgreeUntilDetached TreeIsKnown EditsCanBeSaved
