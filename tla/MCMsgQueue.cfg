\* More posts than slots: the queue fills, drops and drains, before, during
\* and after the exit request.
CONSTANTS
  MAX_QUEUE_SIZE = 2
  Payloads = {on, off}
  NULL = NULL
  MaxPosts = 3

SPECIFICATION FairSpec

INVARIANTS
  TypeOK
  SlotsAreBacklog
  NoLostWakeup
  HandlerEndsOnRequest

PROPERTIES
  MailboxSpec
  TeardownReturnsIfAsked
  EarlierMessagesHandled
