CONSTANTS
    one = one
    two = two
    three = three
    a = a
    b = b
    x = x
    y = y
    Unlisted = Unlisted
    Outside = Outside
    Missing = Missing
    NoSnapshot = NoSnapshot
    Snapshots = {one, two, three}
    Urls = {a, b}
    Lists <- MCLists
    FirstAnswers = {one}
    MayGo = {b}
    Rebuilds = {FALSE}
    MaxMoves = 2
    MaxFaults = 1
SPECIFICATION Spec
INVARIANTS
    FilesOwed
    PointerHeld
PROPERTIES
    EventuallyAgrees
CHECK_DEADLOCK FALSE
