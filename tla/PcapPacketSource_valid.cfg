SPECIFICATION Spec
CONSTANTS
  Codecs <- XzOnly
  Word32 = 8
  UsecScale = 2
  NsPerSec = 4
  MaxSnapLen = 3
  Contents <- AllContents
  MaxReaders = 1
  MaxDepth = 1
INVARIANT OnlyValidFilesAdded
