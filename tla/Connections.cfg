SPECIFICATION Spec
CONSTANTS
  Word = 16
  c1 = c1
  c2 = c2
  here = here
  there = there
  v6 = v6
  Clients <- MCClients
  Endpoints <- MCEndpoints
  Server = here
  Unsupported <- MCUnsupported
  Words <- MCWords
  Names <- MCNames
  Directory <- MCDirectory
  Backlog = 0
  EndpointSize = 16
  Lengths <- MCLengths
INVARIANTS
  ResolvesWhatWasNamed
  OneConnection
  SocketsClosed
  FailedMeansAllTried
  ResultIsTrue
CHECK_DEADLOCK FALSE
