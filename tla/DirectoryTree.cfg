SPECIFICATION Spec
CONSTANTS
    Base = base
    people = people
    ann = ann
    bob = bob
    Dns = {base, people, ann, bob}
    MaxNodes = 5
    None = None
    Above <- MCAbove
INVARIANTS
    RowsAreAnnounced
    UsesAreLive
