\* The name server may exit at any time and be started again; fair event loop.
SPECIFICATION FairSpec
CONSTANTS
  LocalNode = 1
  RemoteNodes = {0}
  Ports = {1, 2}
  CtrlPort = 99
  Offers <- OneEach
  Filters <- ObserveTwo
  Clients = {}
  Strays = {}
  NoServer = NoServer
  MaxInbox = 2
  MayRestart = TRUE
INVARIANTS RegistryFollows
PROPERTIES EventuallyTold
