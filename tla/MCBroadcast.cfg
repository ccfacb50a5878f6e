\* A command to "Broadcast", as the documentation writes it.
CONSTANTS
  VCCOMMAND_MAX_DATA_SIZE = 6
  Devices <- MCDevices
  logical_address <- MCLogicalAddress
  physical_address <- MCPhysicalAddress
  type <- MCType
  OpCode <- MCOpCode
  Requests <- MCRequests
  NULL = NULL
  WILD = WILD

SPECIFICATION Spec

INVARIANT BroadcastIsSent

\* A wild pointer ends the program.
CHECK_DEADLOCK FALSE
