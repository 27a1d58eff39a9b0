\* The name server, its sockets and one remote node, without restarts.
SPECIFICATION Spec
CONSTANTS
  LocalNode = 1
  RemoteNodes = {0}
  Ports = {1, 2}
  CtrlPort = 99
  Offers <- OneEach
  Filters <- ObserveSome
  Clients <- BothClients
  Strays <- Misaddressed
  NoServer = NoServer
  MaxInbox = 2
  MayRestart = FALSE
INVARIANTS TypeOK RegistryFollows LookupsOwned ToldComplete ToldCurrent AnnouncedExact NoSessionLeak
PROPERTIES OnlyOwnerWrites
