SPECIFICATION Spec
CONSTANTS
  ios = ios
  android = android
  s1 = s1
  s2 = s2
  Platforms <- TwoPlatforms
  Records = {1, 2, 3}
  Releases = {1, 2}
  KeyOf <- InOrder
  PlatformOf <- Alternate
  Sources = {s1, s2}
  Family <- SourcesApart
  Ships <- ShipsFewer
  CarrierLists = {android}
  DerivedSources = 1
  ChangedReleases = 1
  MaxVersion = 1
  MaxDevices = 0
  MaxManifest = 1
  MaxAsks = 0
  MaxFailures = 1
  MaxDups = 0
CHECK_DEADLOCK FALSE
INVARIANTS TypeOK LinkCovered
