\* Known and unknown names, devices with and without an address, and texts
\* around the size of the buffer.
CONSTANTS
  VCCOMMAND_MAX_DATA_SIZE = 6
  Devices <- MCDevices
  logical_address <- MCLogicalAddress
  physical_address <- MCPhysicalAddress
  type <- MCType
  OpCode <- MCOpCode
  Requests <- MCRequests
  NULL = NULL
  WILD = WILD

SPECIFICATION Spec

INVARIANTS
  TypeOK
  NoOverrun
  FrameDecodes
  RejectedNamesNobody

\* A wild pointer ends the program.
CHECK_DEADLOCK FALSE
