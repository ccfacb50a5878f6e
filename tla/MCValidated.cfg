\* Two wrong answers in a row: one has wrong addresses, one wrong parameters.
CONSTANTS
  Commands = {ImageViewOn, SetOsdName}
  WithParameters = {SetOsdName}
  Unexpected = Unexpected
  CEC_COMMAND_UNKNOWN = CEC_COMMAND_UNKNOWN
  MaxTests = 3
  MaxSends = 2
  PromptedOnly = TRUE

SPECIFICATION Spec

INVARIANTS
  PassedMeansValidated

\* The tests come to an end.
CHECK_DEADLOCK FALSE
