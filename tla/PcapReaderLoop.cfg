SPECIFICATION FairSpec
CONSTANTS
  Codecs <- XzOnly
  Word32 = 8
  UsecScale = 2
  NsPerSec = 4
  MaxSnapLen = 5
  EthernetSize = 1
  TagSize = 1
  IPv4Size = 1
  UDPSize = 1
  OptionsSize = 1
  Contents <- MCContents
INVARIANTS
  TypeOK
  PrintsRecords
  PrintsAll
  PrintsItsHeaders
PROPERTY LoopEnds
CHECK_DEADLOCK FALSE
