SPECIFICATION Spec
CONSTANTS
  r1 = r1
  r2 = r2
  r3 = r3
  t0 = t0
  Sources <- MCSources
  KeyOrder <- MCKeyOrder
  Rules <- MCRules
  TestRules = {t0}
  Heads <- MCHeads
  UnnamedRule <- MCUnnamed
  Links <- MCLinks
  Splits <- MCSplits
  PlatformFirst <- MCPlatformFirst
  Copies <- MCCopies
  LineOrder <- MCLineOrder
  Parts <- MCParts
  VersionRank <- MCVersionRank
  Bodies <- MCBodies
  FiveG = {2}
  LaunchDays <- MCLaunchDays
  MaxRecords = 3
  MaxFailures = 1
  Codes <- MCCodes
  KindOf <- MCKindOf
  KindOrder <- MCKindOrder
  PerKind = 1
  AgainAfter = 1
  StepTries = 2
  MaxWeeks = 3
  MaxStepFailures = 2
  Keys = {1, 2, 3, 4}
  Places = {1, 2}
  MaxChanges = 2
CHECK_DEADLOCK FALSE
INVARIANTS SplitsHold WeakestDropped IdsNamed ClashesOnlyAlike SlugsResolve HeadShipped PartsWhole RadiosTrue RoutesOfNewest SearchedInTurn NamesPurged PagedWhole
PROPERTIES IdKept DatedSlugsPinned
