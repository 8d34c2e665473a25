CONSTANTS
    one = one
    two = two
    three = three
    a = a
    b = b
    x = x
    y = y
    Unlisted = Unlisted
    Outside = Outside
    Missing = Missing
    NoSnapshot = NoSnapshot
    Snapshots = {one, two, three}
    Urls = {a, b}
    Lists <- MCLists
    FirstAnswers = {one}
    MayGo = {b}
    Rebuilds = {FALSE, TRUE}
    MaxMoves = 2
    MaxFaults = 1
SPECIFICATION Spec
INVARIANTS
    HeldIndexed
CHECK_DEADLOCK FALSE
