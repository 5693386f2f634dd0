SPECIFICATION FairSpec
CONSTANTS
  Codecs <- XzOnly
  Word32 = 8
  UsecScale = 2
  NsPerSec = 4
  MaxSnapLen = 3
  Contents <- SomeContents
  MaxReaders = 3
  MaxDepth = 2
INVARIANTS
  OneOutstanding
  BuffersIntact
  DoneMeansDrained
  IInv
  SortedOutput
  TiesTakeTurns
PROPERTIES
  MergeSpec
  LoopEnds
