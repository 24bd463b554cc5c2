SPECIFICATION FairSpec
CONSTANTS
    Names = {cn, mail}
    Values = {v1, v2}
    Slots = {s1}
    Empty = Empty
    NoRow = NoRow
    NoName = NoName
    Must = {cn}
    ReadOnly = {cn}
INVARIANTS UndisturbedSaveIsExact NoChangesMeansNothingToLose TableTracksCache
PROPERTIES SaveWritesOnlyTouched SaveReturns
