SPECIFICATION AccountsSpec
CONSTANTS
    ClassLists <- MCClassLists
    Fold <- MCFold
    Users = {ann, bob}
    OtherBits = {b1}
    MaxNames = 2
    MaxRows = 2
SYMMETRY Interchangeable
INVARIANTS TreeTellsTheTruth
PROPERTIES ToggleIsExact MembersAsChosen
