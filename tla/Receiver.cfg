SPECIFICATION FairSpec
CONSTANTS
  Word = 16
  Capacity = 3
  RecordSize = 2
  MaxBytes = 7
INVARIANTS
  HandledInOrder
  NoByteLost
  ClosedMeansClosed
  IInv
PROPERTIES
  ChannelSpec
  RecordsArrive
