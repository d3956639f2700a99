SPECIFICATION RelLiveSpec
CONSTANTS
  Manual = {"manual"}
  MaxVersion = 2
INVARIANTS
  CacheBelongsToTag
PROPERTIES
  NewReleaseNoticed
  StaleBannerGoes
