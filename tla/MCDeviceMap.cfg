\* An emulated TV and an emulated source; devices are added, alone and in
\* pairs, and any of them is removed.
CONSTANTS
  MaxNodes = 8
  Profiles <- Both
  Additions <- MCAdditions
  Names <- MCNames

SPECIFICATION FairSpec

INVARIANTS
  TypeOK
  TreeSound
  LogicalAddressesUnique
  PhysicalAddressesUnique
  AnnouncedIsTrue

PROPERTIES
  AddressesStable
  NetworkSpec
  EmulatedLeavesOnlyIfNamed
  EveryWalkEnds
