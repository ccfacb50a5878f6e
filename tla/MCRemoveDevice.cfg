\* A device behind another one is named in a RemoveDevice message.
CONSTANTS
  MaxNodes = 7
  Profiles <- SinkOnly
  Additions <- TestDeviceOnly
  Names <- MCNames

SPECIFICATION Spec

INVARIANT RemoveDeviceRemoves
