\* Two commands, with and without parameters, and two answers to each prompt:
\* late, wrong or twice, over three tests of which two may expect the same.
CONSTANTS
  Commands = {ImageViewOn, SetOsdName}
  WithParameters = {SetOsdName}
  Unexpected = Unexpected
  CEC_COMMAND_UNKNOWN = CEC_COMMAND_UNKNOWN
  MaxTests = 3
  MaxSends = 2
  PromptedOnly = TRUE

SPECIFICATION Spec

INVARIANTS
  TypeOK
  NoCrash
  PassedMeansAnswered
  FailureExplained
  TimeoutMeansSilence

PROPERTIES
  EveryTestEnds

\* The tests come to an end.
CHECK_DEADLOCK FALSE
