SPECIFICATION Spec
CONSTANTS
  a = a
  b = b
  c = c
  Objects <- MCObjects
  Fds <- MCFds
  MaxOpens = 3
SYMMETRY Symmetry
INVARIANTS
  UniqueOwner
  HoldsWhatWasMeant
  NoLeak
  NonBlockingAsAsked
  IInv
PROPERTY OnlyOwnersClose
