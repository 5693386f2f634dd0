SPECIFICATION Spec
CONSTANTS
  LittleEndian = TRUE
  Word = 16
  Hosts <- MCHosts
  Groups <- MCGroups
  LinkLocal <- MCLinkLocal
  Links <- MCLinks
  Ports <- MCPorts
  Sizes <- MCSizes
  BufSizes <- MCBufSizes
  MaxBuf = 4
INVARIANTS
  IInv
  ReachesMeant
  JoinedAsMeant
  ErrorsReported
