CONSTANTS
  Tokens = {p1}
  Login = Login
  MaxLogins = 2
  Window = 2
  PreviewTTL = 2
  Forever = Forever
  KeepDirs = 3
  BuildTicks = 1
  SleepTicks = 2
  Uploads = {m1}
  MaxFaults = 3
SPECIFICATION Spec
INVARIANTS LivePreviewWhole RowHasObject ObjectsAccounted
PROPERTIES FirstTryAdmitted CacheKeepsPromise LimitLifts PreviewsCleanedUp
