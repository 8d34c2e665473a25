SPECIFICATION FairSpec
CONSTRAINT TwoAtMost
CONSTANTS
  ios = ios
  android = android
  s1 = s1
  s2 = s2
  Platforms <- OnePlatform
  Records = {1}
  Releases = {1}
  KeyOf <- InOrder
  PlatformOf <- AllIos
  Sources = {s1, s2}
  Family <- SourcesIos
  Ships <- ShipsFewer
  CarrierLists = {}
  DerivedSources = 1
  ChangedReleases = 1
  MaxVersion = 2
  MaxDevices = 1
  MaxManifest = 0
  MaxAsks = 0
  MaxFailures = 1
  MaxDups = 1
CHECK_DEADLOCK FALSE
INVARIANT RecordsCovered
PROPERTIES IndexesRecords EventuallyCurrent
