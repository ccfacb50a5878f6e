\* The queue fills just before HdmiCecClose posts its exit request.
CONSTANTS
  MAX_QUEUE_SIZE = 2
  Payloads = {on, off}
  NULL = NULL
  MaxPosts = 3

SPECIFICATION FairSpec

PROPERTY TeardownReturns
