\* The component is closed while its HAL is still open.
CONSTANTS
  Vcs = {v1, v2}
  Hals = {h1, h2}
  Cps = {c1, c2}
  NULL = NULL
  MAX_QUEUE_SIZE = 2
  MaxPosts = 2
  MaxFrames = 2
  InitializeOnce = TRUE
  OpenOnce = TRUE
  HalClosedFirst = FALSE
  QuietClose = TRUE

SPECIFICATION FairSpec

PROPERTY VcCloseReturns

\* The identities and the messages run out.
CHECK_DEADLOCK FALSE
