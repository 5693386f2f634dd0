SPECIFICATION FairSpec
CONSTANTS
  Codecs <- NoCodecs
  Word32 = 8
  Files <- MCFiles
  Sizes <- MCSizes
  InSize = 2
  OutSize = 2
INVARIANTS
  TypeOK
  NothingLost
  LeftBehindMember
PROPERTIES
  ImplementsByteStream
  ReadsReturn
