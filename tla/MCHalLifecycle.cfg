\* The application and the control plane behave as in the repository's tests.
CONSTANTS
  Vcs = {v1, v2}
  Hals = {h1, h2}
  Cps = {c1, c2}
  NULL = NULL
  MAX_QUEUE_SIZE = 2
  MaxPosts = 2
  MaxFrames = 2
  InitializeOnce = TRUE
  OpenOnce = TRUE
  HalClosedFirst = TRUE
  QuietClose = TRUE

SPECIFICATION FairSpec

INVARIANTS
  TypeOK
  NoFault
  CallbackSeesItsHal
  MessagesOfThisSession
  NothingLeaked

PROPERTIES
  ServiceSpec
  EveryCallReturns
  BacklogDrains

\* The identities and the messages run out.
CHECK_DEADLOCK FALSE
