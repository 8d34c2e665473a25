CONSTANTS
    new = new
    old = old
    galaxy = galaxy
    p = p
    q = q
    NoPhone = NoPhone
    IosBuilds = {new, old}
    GalaxyBuilds = {galaxy}
    Phones = {p, q}
    PhoneOrder <- MCPhoneOrder
    BuildOrder <- MCBuildOrder
    ListedPhones <- MCListed
    Share <- MCShare
    Onlys <- AllBuilds
    Rebuilds = {FALSE}
    Askers = {1}
    CheckSlots = 1
    ContainerRetries = 1
    StepRetries = 1
    MaxFaults = 2
    Outdated = {old, galaxy}
SPECIFICATION Spec
INVARIANTS
    WithinShare
    OneExtraction
    OwnContainer
PROPERTIES
    RecordsGrow
    NeverAgain
    EventuallyHeld
CHECK_DEADLOCK FALSE
