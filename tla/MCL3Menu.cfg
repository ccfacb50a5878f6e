\* A sink, and a source that can be given an address or be unregistered;
\* commands to the sink, to the source and to everybody.
CONSTANTS
  SourceAddresses = {4, 15}
  Dests = {0, 4, 15}
  MaxBacklog = 2
  QuietChanges = TRUE
SPECIFICATION Spec
INVARIANTS
  TypeOK
  KnownAddress
  SentAsSelf
  NoCallbackCrash
  FailsExactlyOnMisuse
  SuiteKeptOut
\* An assertion that fails ends the program.
CHECK_DEADLOCK FALSE
