\* A playback device is removed and another one is added.
CONSTANTS
  MaxNodes = 7
  Profiles <- SinkOnly
  Additions <- TestDeviceOnly
  Names <- MCNames

SPECIFICATION Spec

PROPERTY UnregisteredWhenThree
