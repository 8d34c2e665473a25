SPECIFICATION Spec
CONSTANTS
  ios = ios
  android = android
  s1 = s1
  s2 = s2
  Platforms <- OnePlatform
  Records = {1}
  Releases = {1}
  KeyOf <- Reversed
  PlatformOf <- AllIos
  Sources = {s1}
  Family <- SourcesIos
  Ships <- ShipsFewer
  CarrierLists = {}
  DerivedSources = 1
  ChangedReleases = 1
  MaxVersion = 1
  MaxDevices = 0
  MaxManifest = 0
  MaxAsks = 0
  MaxFailures = 1
  MaxDups = 0
CHECK_DEADLOCK FALSE
INVARIANT WritesPurged
