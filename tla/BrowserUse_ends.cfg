SPECIFICATION FairSpec
CONSTANTS
  f1 = f1
  f2 = f2
  Fallbacks <- MCFallbacks
  MaxBrowsers = 3
  Permits = 1
  Attempts = 1
  SyncAfterDownload = TRUE
  MaxCrashes = 0
  None = None
PROPERTY FallbacksEnd
CHECK_DEADLOCK FALSE
